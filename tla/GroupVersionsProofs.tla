------------------------- MODULE GroupVersionsProofs -------------------------
(***************************************************************************)
(* Proofs about GroupVersions, for any packages, in any order.             *)
(*                                                                         *)
(* The two properties relate tables that different generators fill and     *)
(* read: the packages written, the table of types by the group's own name, *)
(* the entries by the directory's name, and what is left in the output     *)
(* directories.  Tables says how the other three can be traced to the      *)
(* packages, whatever their names.                                         *)
(***************************************************************************)
EXTENDS GroupVersions, TLAPS

\* The types recorded for a group and version are those of its packages.
TypesTraced ==
    \A g \in GroupNames, v \in Versions, id \in TypeIds :
        <<g, v, id>> \in typesFor <=>
            \E i \in generated : i.group = g /\ i.version = v /\ id \in i.types

\* An entry's group and its versions come from packages with its key.
EntriesTraced ==
    \A k \in Used :
        /\ \E i \in generated : i.key = k /\ i.group = entries[k].group
        /\ \A e \in entries[k].versions :
             \E i \in generated : i.key = k /\ i.version = e.version /\ i.path = e.package

\* A package has types, of its own, and an entry with its version, of which internal
\* types have none.
PackagesEntered ==
    \A i \in generated :
        /\ i.types # {} /\ \A id \in i.types : id[1] = i.path
        /\ i.key \in Used
        /\ [version |-> i.version, package |-> i.path] \in entries[i.key].versions
        /\ i.key.internal <=> i.version = None

\* What an output directory holds is from one of its packages, if it has any.
InterfacesTraced ==
    /\ \A k \in Keys, v \in Versions :
         interfaces[<<k, v>>] # {} =>
             \E i \in generated : i.key = k /\ i.version = v /\ interfaces[<<k, v>>] = i.types
    /\ \A i \in generated : interfaces[<<i.key, i.version>>] # {}

Tables == TypesTraced /\ EntriesTraced /\ PackagesEntered /\ InterfacesTraced

\* An entry has a version of which its group has no types.
Lost == \E k \in Used : \E e \in entries[k].versions : CasesOf(k, e) = {}

AllCases == UNION {UNION {CasesOf(k, e) : e \in entries[k].versions} : k \in Used}

\* The end of the run is a matter of the tables.
Outcome ==
    /\ phase = "done" => cases = AllCases
    /\ phase = "index out of range" => Lost

Inv ==
    /\ TypeOK
    /\ Tables
    /\ Outcome

-----------------------------------------------------------------------------
(* Keys, versions and groups of a package.                                 *)

LEMMA PackageNames ==
    ASSUME NEW p \in Packages, NEW internal \in BOOLEAN
    PROVE  LET k == KeyOf(p, internal) IN
           /\ k \in Keys /\ k.internal = internal
           /\ VersionOf(p, internal) \in Versions
           /\ VersionOf(p, internal) = None <=> internal
           /\ GroupOf(p, k) \in GroupNames
           /\ Listed(p) \subseteq TypeIds
<1>1. /\ p.path \in Paths /\ p.path.last \in Lasts /\ p.path.parent \in Parents
      /\ p.groupName \in Groups \union {None}
      /\ p.types \in SUBSET Types
  BY GeneratorAssumption DEF Packages, Paths, Comments
<1>2. KeyOf(p, internal) \in Keys /\ KeyOf(p, internal).internal = internal
      /\ KeyOf(p, internal).name \in Parents \union Lasts
  BY <1>1 DEF KeyOf, Keys
<1>3. /\ VersionOf(p, internal) \in Versions
      /\ VersionOf(p, internal) = None <=> internal
  BY <1>1, GeneratorAssumption DEF VersionOf, Versions
<1>4. GroupOf(p, KeyOf(p, internal)) \in GroupNames
  BY <1>1, <1>2 DEF GroupOf, GroupNames
<1>5. Listed(p) \subseteq TypeIds
  BY <1>1 DEF Listed, TypeIds, Types
<1> QED
  BY <1>2, <1>3, <1>4, <1>5

\* Adding a version keeps the other entries, and the group of an entry.
LEMMA AddedVersion ==
    ASSUME TypeOK, NEW k \in Keys, NEW g \in GroupNames, NEW w \in PackageVersions
    PROVE  LET new == AddVersion(k, g, w) IN
           /\ new \in [Keys -> Entries \union {None}]
           /\ \A q \in Keys \ {k} : new[q] = entries[q]
           /\ new[k] # None
           /\ entries[k] = None => new[k].group = g /\ new[k].versions = {w}
           /\ entries[k] # None => /\ new[k].group = entries[k].group
                                   /\ new[k].versions = entries[k].versions \union {w}
<1> DEFINE e == IF entries[k] = None THEN [group |-> g, versions |-> {w}]
                ELSE [group |-> entries[k].group, versions |-> entries[k].versions \union {w}]
<1>1. entries \in [Keys -> Entries \union {None}]
  BY DEF TypeOK
<1>2. AddVersion(k, g, w) = [entries EXCEPT ![k] = e]
  BY DEF AddVersion
<1>3. e \in Entries /\ e # None
  BY <1>1, EntryAssumption DEF Entries
<1>4. /\ entries[k] = None => e.group = g /\ e.versions = {w}
      /\ entries[k] # None => /\ e.group = entries[k].group
                              /\ e.versions = entries[k].versions \union {w}
  OBVIOUS
<1> HIDE DEF e
<1> QED
  BY <1>1, <1>2, <1>3, <1>4

-----------------------------------------------------------------------------
(* One package.                                                            *)

\* What Add does, once it is decided whether the package is internal.
AddAs(p, internal) ==
    LET k == KeyOf(p, internal)
        v == VersionOf(p, internal)
        g == GroupOf(p, k) IN
    /\ typesFor' = typesFor \union {<<g, v, id>> : id \in Listed(p)}
    /\ entries' = Recorded(p, k, g, [version |-> v, package |-> p.path])
    /\ WritePackage(p, k, g, v)
    /\ UNCHANGED phase

LEMMA AddDecides ==
    ASSUME NEW p, Add(p)
    PROVE  \E internal \in BOOLEAN : AddAs(p, internal)
<1>1. PICK t \in WithMeta(p) :
        LET internal == t.meta = "internal"
            k == KeyOf(p, internal)
            v == VersionOf(p, internal)
            g == GroupOf(p, k) IN
        /\ typesFor' = typesFor \union {<<g, v, id>> : id \in Listed(p)}
        /\ entries' = Recorded(p, k, g, [version |-> v, package |-> p.path])
        /\ WritePackage(p, k, g, v)
        /\ UNCHANGED phase
  BY DEF Add
<1> DEFINE internal == t.meta = "internal"
<1>2. internal \in BOOLEAN
  OBVIOUS
<1>3. AddAs(p, internal)
  BY <1>1, Zenon DEF AddAs
<1> HIDE DEF internal
<1> QED
  BY <1>2, <1>3

LEMMA AddInv ==
    ASSUME Inv, NEW p \in Packages, NEW internal \in BOOLEAN, AddAs(p, internal),
           todo' \subseteq todo, UNCHANGED cases, phase = "grouping"
    PROVE  Inv'
<1> DEFINE k == KeyOf(p, internal)
           v == VersionOf(p, internal)
           g == GroupOf(p, k)
           w == [version |-> v, package |-> p.path]
           new == [key |-> k, group |-> g, version |-> v, path |-> p.path, types |-> Listed(p)]
<1>1. /\ k \in Keys /\ k.internal = internal
      /\ v \in Versions /\ (v = None <=> internal)
      /\ g \in GroupNames
      /\ Listed(p) \subseteq TypeIds
      /\ p.path \in Paths
  BY PackageNames DEF Packages
<1>2. /\ typesFor' = typesFor \union {<<g, v, id>> : id \in Listed(p)}
      /\ phase' = phase
  BY DEF AddAs
<1>3. IF Listed(p) = {} THEN entries' = entries ELSE entries' = AddVersion(k, g, w)
  BY DEF AddAs, Recorded
<1>4. IF Listed(p) = {} THEN UNCHANGED <<generated, interfaces>>
      ELSE /\ generated' = generated \union {new}
           /\ interfaces' = [interfaces EXCEPT ![<<k, v>>] = Listed(p)]
  BY DEF AddAs, WritePackage
<1>5. /\ new \in Outputs
      /\ new.key = k /\ new.group = g /\ new.version = v
      /\ new.path = p.path /\ new.types = Listed(p)
  BY <1>1 DEF Outputs
<1>6. w \in PackageVersions /\ w.version = v /\ w.package = p.path
  BY <1>1 DEF PackageVersions
<1>6a. \A id \in Listed(p) : id[1] = p.path
  BY DEF Listed
<1>6b. [version |-> new.version, package |-> new.path] = w
  BY <1>5
<1> HIDE DEF k, v, g, w, new
<1>7. /\ entries \in [Keys -> Entries \union {None}]
      /\ entries' \in [Keys -> Entries \union {None}]
      /\ \A q \in Keys \ {k} : entries'[q] = entries[q]
      /\ Listed(p) # {} =>
           /\ entries'[k] # None
           /\ entries[k] = None => entries'[k].group = g /\ entries'[k].versions = {w}
           /\ entries[k] # None => /\ entries'[k].group = entries[k].group
                                   /\ entries'[k].versions = entries[k].versions \union {w}
      /\ Listed(p) = {} => entries' = entries
  <2>1. CASE Listed(p) = {}
    BY <1>3, <2>1 DEF Inv, TypeOK
  <2>2. CASE Listed(p) # {}
    BY <1>1, <1>3, <1>6, <2>2, AddedVersion DEF Inv, TypeOK
  <2> QED
    BY <2>1, <2>2
<1>7a. \A i \in generated' : i \in generated \/ (i = new /\ Listed(p) # {})
  BY <1>4
<1>7b. generated \subseteq generated' /\ (Listed(p) # {} => new \in generated')
  BY <1>4
<1>7c. /\ interfaces' \in [Keys \X Versions -> SUBSET TypeIds]
       /\ \A q \in Keys, u \in Versions :
            interfaces'[<<q, u>>] = IF q = k /\ u = v /\ Listed(p) # {} THEN Listed(p)
                                    ELSE interfaces[<<q, u>>]
  <2>1. interfaces \in [Keys \X Versions -> SUBSET TypeIds]
    BY DEF Inv, TypeOK
  <2>2. <<k, v>> \in Keys \X Versions
    BY <1>1
  <2>3. \A q, u : <<q, u>> = <<k, v>> <=> q = k /\ u = v
    OBVIOUS
  <2> QED
    BY <1>1, <1>4, <2>1, <2>2, <2>3
<1>8. TypeOK'
  <2>1. typesFor' \in SUBSET (GroupNames \X Versions \X TypeIds)
    BY <1>1, <1>2 DEF Inv, TypeOK
  <2>2. generated' \in SUBSET Outputs
    BY <1>5, <1>7a DEF Inv, TypeOK
  <2> QED
    BY <1>2, <1>7, <1>7c, <2>1, <2>2 DEF Inv, TypeOK
<1>9. TypesTraced'
  <2> SUFFICES ASSUME NEW gg \in GroupNames, NEW vv \in Versions, NEW id \in TypeIds
               PROVE  <<gg, vv, id>> \in typesFor' <=>
                        \E i \in generated' : i.group = gg /\ i.version = vv /\ id \in i.types
    BY DEF TypesTraced
  <2>1. <<gg, vv, id>> \in typesFor <=>
          \E i \in generated : i.group = gg /\ i.version = vv /\ id \in i.types
    BY DEF Inv, Tables, TypesTraced
  <2>2. <<gg, vv, id>> \in typesFor' <=>
          <<gg, vv, id>> \in typesFor \/ (gg = g /\ vv = v /\ id \in Listed(p))
    BY <1>2
  <2>3. (\E i \in generated' : i.group = gg /\ i.version = vv /\ id \in i.types) <=>
          \/ \E i \in generated : i.group = gg /\ i.version = vv /\ id \in i.types
          \/ gg = g /\ vv = v /\ id \in Listed(p)
    BY <1>5, <1>7a, <1>7b
  <2> QED
    BY <2>1, <2>2, <2>3
<1>10. Used \subseteq Used' /\ Used' \subseteq Used \union {k} /\ (Listed(p) = {} => Used' = Used)
  BY <1>1, <1>7 DEF Used
<1>11. EntriesTraced'
  <2> SUFFICES ASSUME NEW q \in Used'
               PROVE  /\ \E i \in generated' : i.key = q /\ i.group = entries'[q].group
                      /\ \A e \in entries'[q].versions : \E i \in generated' :
                            i.key = q /\ i.version = e.version /\ i.path = e.package
    BY DEF EntriesTraced
  <2>1. q \in Used => /\ \E i \in generated : i.key = q /\ i.group = entries[q].group
                      /\ \A e \in entries[q].versions : \E i \in generated :
                            i.key = q /\ i.version = e.version /\ i.path = e.package
    BY DEF Inv, Tables, EntriesTraced
  <2>2. CASE q # k \/ Listed(p) = {}
    BY <1>7, <1>7b, <1>10, <2>1, <2>2 DEF Used
  <2>3. CASE q = k /\ Listed(p) # {}
    <3>1. new \in generated' /\ new.key = q /\ new.group = g
          /\ new.version = w.version /\ new.path = w.package
      BY <1>5, <1>6, <1>7b, <2>3
    <3>2. CASE entries[k] = None
      BY <1>7, <2>3, <3>1, <3>2
    <3>3. CASE entries[k] # None
      <4>1. q \in Used
        BY <1>1, <2>3, <3>3 DEF Used
      <4>2. entries'[q].group = entries[q].group
            /\ entries'[q].versions = entries[q].versions \union {w}
        BY <1>7, <2>3, <3>3
      <4> QED
        BY <1>7b, <2>1, <3>1, <4>1, <4>2
    <3> QED
      BY <3>2, <3>3
  <2> QED
    BY <2>2, <2>3
<1>12. PackagesEntered'
  <2> SUFFICES ASSUME NEW i \in generated'
               PROVE  /\ i.types # {} /\ \A id \in i.types : id[1] = i.path
                      /\ i.key \in Used'
                      /\ [version |-> i.version, package |-> i.path] \in entries'[i.key].versions
                      /\ i.key.internal <=> i.version = None
    BY DEF PackagesEntered
  <2>1. CASE i \in generated
    <3>1. /\ i.types # {} /\ \A id \in i.types : id[1] = i.path
          /\ i.key \in Used
          /\ [version |-> i.version, package |-> i.path] \in entries[i.key].versions
          /\ i.key.internal <=> i.version = None
      BY <2>1 DEF Inv, Tables, PackagesEntered
    <3>2. entries[i.key].versions \subseteq entries'[i.key].versions
      BY <1>7, <3>1 DEF Used
    <3> QED
      BY <1>10, <3>1, <3>2
  <2>2. CASE i = new /\ Listed(p) # {}
    <3>1. k \in Used' /\ w \in entries'[k].versions
      BY <1>1, <1>7, <2>2 DEF Used
    <3> QED
      BY <1>1, <1>5, <1>6a, <1>6b, <2>2, <3>1
  <2> QED
    BY <1>7a, <2>1, <2>2
<1>13. InterfacesTraced'
  <2>1. ASSUME NEW q \in Keys, NEW u \in Versions, interfaces'[<<q, u>>] # {}
        PROVE  \E i \in generated' : i.key = q /\ i.version = u /\ interfaces'[<<q, u>>] = i.types
    <3>1. CASE q = k /\ u = v /\ Listed(p) # {}
      BY <1>5, <1>7b, <1>7c, <3>1
    <3>2. CASE ~(q = k /\ u = v /\ Listed(p) # {})
      <4>1. interfaces'[<<q, u>>] = interfaces[<<q, u>>]
        BY <1>7c, <3>2
      <4>2. PICK i \in generated : i.key = q /\ i.version = u /\ interfaces[<<q, u>>] = i.types
        BY <2>1, <4>1 DEF Inv, Tables, InterfacesTraced
      <4> QED
        BY <1>7b, <4>1, <4>2
    <3> QED
      BY <3>1, <3>2
  <2>2. ASSUME NEW i \in generated' PROVE interfaces'[<<i.key, i.version>>] # {}
    <3>1. i.key \in Keys /\ i.version \in Versions
      BY <1>8 DEF TypeOK, Outputs
    <3>2. i \in generated => interfaces[<<i.key, i.version>>] # {}
      BY DEF Inv, Tables, InterfacesTraced
    <3> QED
      BY <1>5, <1>7a, <1>7c, <3>1, <3>2
  <2> QED
    BY <2>1, <2>2 DEF InterfacesTraced
<1>14. Outcome'
  BY <1>2 DEF Outcome
<1> QED
  BY <1>8, <1>9, <1>11, <1>12, <1>13, <1>14 DEF Inv, Tables

-----------------------------------------------------------------------------
(* The whole run.                                                          *)

LEMMA InitInv == Init => Inv
<1> SUFFICES ASSUME Init PROVE Inv
  OBVIOUS
<1>1. todo \in SUBSET Packages
  BY DEF Init, Packages, Comments
<1>2. TypeOK
  BY <1>1 DEF Init, TypeOK
<1>3. Used = {}
  BY DEF Init, Used
<1>4. Tables
  BY <1>3 DEF Init, Tables, TypesTraced, EntriesTraced, PackagesEntered, InterfacesTraced
<1> QED
  BY <1>2, <1>4 DEF Inv, Init, Outcome

\* Lost and the cases are a matter of the tables of types and of entries.
LEMMA LostStays ==
    ASSUME UNCHANGED <<typesFor, entries>>
    PROVE  AllCases' = AllCases /\ (Lost => Lost')
<1>1. Used' = Used
  BY DEF Used
<1>2. \A k, e : {[key |-> k, version |-> e.version, package |-> e.package, type |-> id] :
                    id \in {x[3] : x \in {y \in typesFor' : y[1] = entries'[k].group
                                                           /\ y[2] = e.version}}}
                = CasesOf(k, e)
  BY DEF CasesOf, TypesFor
<1>3. AllCases' = AllCases
  BY <1>1, <1>2 DEF AllCases, CasesOf, TypesFor
<1>4. ASSUME Lost PROVE Lost'
  <2>1. PICK k \in Used : \E e \in entries[k].versions : CasesOf(k, e) = {}
    BY <1>4 DEF Lost
  <2>2. PICK e \in entries[k].versions : CasesOf(k, e) = {}
    BY <2>1
  <2>3. k \in Used' /\ e \in entries'[k].versions
    BY <1>1, <2>2
  <2> QED
    BY <1>2, <2>2, <2>3 DEF Lost, CasesOf, TypesFor
<1> QED
  BY <1>3, <1>4

LEMMA GenerateInv ==
    ASSUME Inv, Generate
    PROVE  Inv'
<1>1. UNCHANGED <<todo, typesFor, entries, generated, interfaces>>
  BY DEF Generate
<1>2. Used' = Used
  BY <1>1 DEF Used
<1>3. Tables'
  BY <1>1, <1>2 DEF Inv, Tables, TypesTraced, EntriesTraced, PackagesEntered, InterfacesTraced
<1>4. /\ phase' \in {"done", "index out of range"}
      /\ phase' = "done" => cases' = AllCases
      /\ phase' = "index out of range" => Lost /\ UNCHANGED cases
  BY Zenon DEF Generate, AllCases, Lost
<1>5. Outcome'
  BY <1>1, <1>4, LostStays DEF Outcome
<1>6. AllCases \subseteq Cases
  <2> SUFFICES ASSUME NEW k \in Used, NEW e \in entries[k].versions
               PROVE  CasesOf(k, e) \subseteq Cases
    BY DEF AllCases
  <2>1. k \in Keys /\ e \in PackageVersions
    BY DEF Inv, TypeOK, Used, Entries
  <2>2. TypesFor(entries[k].group, e.version) \subseteq TypeIds
    BY DEF Inv, TypeOK, TypesFor
  <2> QED
    BY <2>1, <2>2 DEF CasesOf, Cases, PackageVersions
<1>7. cases' \in SUBSET Cases
  BY <1>4, <1>6 DEF Inv, TypeOK
<1>8. TypeOK'
  BY <1>1, <1>4, <1>7 DEF Inv, TypeOK
<1> QED
  BY <1>3, <1>5, <1>8 DEF Inv

LEMMA GroupPackageInv ==
    ASSUME Inv, NEW p \in todo, GroupPackage(p)
    PROVE  Inv'
<1>1. p \in Packages /\ phase = "grouping" /\ todo' \subseteq todo /\ UNCHANGED cases
  BY DEF GroupPackage, Inv, TypeOK
<1>2. CASE Skip(p) \/ Refuse(p)
  <2>1. /\ UNCHANGED <<typesFor, entries, generated, interfaces, cases>>
        /\ phase' \in {"grouping", "fatal"}
    BY <1>1, <1>2 DEF Skip, Refuse
  <2>2. TypeOK'
    BY <1>1, <2>1 DEF Inv, TypeOK
  <2>3. Used' = Used
    BY <2>1 DEF Used
  <2>4. Tables'
    BY <2>1, <2>3 DEF Inv, Tables, TypesTraced, EntriesTraced, PackagesEntered, InterfacesTraced
  <2> QED
    BY <2>1, <2>2, <2>4 DEF Inv, Outcome
<1>3. CASE Add(p)
  BY <1>1, <1>3, AddDecides, AddInv
<1> QED
  BY <1>2, <1>3 DEF GroupPackage

\* Every step keeps the tables consistent.
LEMMA NextInv == Inv /\ [Next]_vars => Inv'
<1> SUFFICES ASSUME Inv, [Next]_vars PROVE Inv'
  OBVIOUS
<1>1. CASE UNCHANGED vars
  <2>1. TypeOK'
    BY <1>1 DEF Inv, TypeOK, vars
  <2>2. Tables'
    BY <1>1 DEF Inv, Tables, TypesTraced, EntriesTraced, PackagesEntered, InterfacesTraced, Used, vars
  <2>3. Outcome'
    BY <1>1, LostStays DEF Inv, Outcome, vars
  <2> QED
    BY <2>1, <2>2, <2>3 DEF Inv
<1> QED
  BY <1>1, GenerateInv, GroupPackageInv DEF Next

\* The inductive invariant: how the generator's tables hang together.
THEOREM InvHolds == Spec => []Inv
  BY InitInv, NextInv, PTL DEF Spec

\* The tables keep their types.
THEOREM TypesHold == Spec => []TypeOK
  BY InvHolds, PTL DEF Inv

-----------------------------------------------------------------------------
(* The theorems.                                                           *)

\* What the types of a group and version say.
LEMMA TypesForPackages ==
    ASSUME Inv, NEW g \in GroupNames, NEW v \in Versions, NEW id
    PROVE  id \in TypesFor(g, v) <=>
             \E i \in generated : i.group = g /\ i.version = v /\ id \in i.types
<1>1. id \in TypesFor(g, v) <=> <<g, v, id>> \in typesFor
  <2>1. \A y \in typesFor : y = <<y[1], y[2], y[3]>>
    <3>1. typesFor \subseteq GroupNames \X Versions \X TypeIds
      BY DEF Inv, TypeOK
    <3> QED
      BY <3>1
  <2>2. <<g, v, id>>[1] = g /\ <<g, v, id>>[2] = v /\ <<g, v, id>>[3] = id
    OBVIOUS
  <2>3. id \in TypesFor(g, v) <=>
          \E y \in typesFor : y[1] = g /\ y[2] = v /\ y[3] = id
    BY DEF TypesFor
  <2>4. ASSUME id \in TypesFor(g, v) PROVE <<g, v, id>> \in typesFor
    BY <2>1, <2>3, <2>4
  <2>5. ASSUME <<g, v, id>> \in typesFor PROVE id \in TypesFor(g, v)
    BY <2>2, <2>3, <2>5
  <2> QED
    BY <2>4, <2>5
<1>2. <<g, v, id>> \in typesFor => id \in TypeIds
  BY DEF Inv, TypeOK
<1>3. \A i \in generated : i.types \subseteq TypeIds
  BY DEF Inv, TypeOK, Outputs
<1>4. id \in TypeIds => (<<g, v, id>> \in typesFor <=>
            \E i \in generated : i.group = g /\ i.version = v /\ id \in i.types)
  BY DEF Inv, Tables, TypesTraced
<1> QED
  BY <1>1, <1>2, <1>3, <1>4

\* The entries' groups and versions have their types.
LEMMA EntryTypes ==
    ASSUME Inv, NEW k \in Used
    PROVE  k \in Keys /\ entries[k].group \in GroupNames
           /\ entries[k].versions \subseteq PackageVersions
  BY DEF Inv, TypeOK, Used, Entries

\* A case is in the entry of a package with its key, version and path.
LEMMA CaseOfEntry ==
    ASSUME Inv, NEW c \in AllCases
    PROVE  /\ c = [key |-> c.key, version |-> c.version, package |-> c.package, type |-> c.type]
           /\ c.key \in Used /\ c.version \in Versions
           /\ c.type \in TypesFor(entries[c.key].group, c.version)
           /\ \E i \in generated : i.key = c.key /\ i.version = c.version /\ i.path = c.package
<1>1. PICK k \in Used : \E e \in entries[k].versions : c \in CasesOf(k, e)
  BY DEF AllCases
<1>2. PICK e \in entries[k].versions : c \in CasesOf(k, e)
  BY <1>1
<1>3. PICK id \in TypesFor(entries[k].group, e.version) :
        c = [key |-> k, version |-> e.version, package |-> e.package, type |-> id]
  BY <1>2 DEF CasesOf
<1>4. e \in PackageVersions
  BY <1>2, EntryTypes
<1>5. e.version \in Versions
  BY <1>4 DEF PackageVersions
<1>6. \E i \in generated : i.key = k /\ i.version = e.version /\ i.path = e.package
  BY <1>2 DEF Inv, Tables, EntriesTraced
<1> QED
  BY <1>3, <1>5, <1>6

\* If the names go together, the types behind a case are those of a package with the
\* case's key and version.
LEMMA CaseOfPackage ==
    ASSUME Inv, OneToOne, NEW c \in AllCases
    PROVE  \E j \in generated : j.key = c.key /\ j.version = c.version /\ c.type \in j.types
<1>1. c.key \in Used /\ c.version \in Versions
      /\ c.type \in TypesFor(entries[c.key].group, c.version)
  BY CaseOfEntry
<1>2. PICK j \in generated :
        j.group = entries[c.key].group /\ j.version = c.version /\ c.type \in j.types
  BY <1>1, EntryTypes, TypesForPackages
<1>3. PICK i \in generated : i.key = c.key /\ i.group = entries[c.key].group
  BY <1>1 DEF Inv, Tables, EntriesTraced
<1>4. PICK l \in generated : l.key = c.key /\ l.version = c.version
  BY CaseOfEntry
<1>5. /\ j.key.internal <=> c.version = None
      /\ c.key.internal <=> c.version = None
  BY <1>2, <1>4 DEF Inv, Tables, PackagesEntered
<1>6. j.key \in Keys /\ c.key \in Keys
  BY <1>1, EntryTypes DEF Inv, TypeOK, Outputs
<1>7. j.key.internal = c.key.internal
  BY <1>5, <1>6 DEF Keys
<1>8. SameGroup(i, j)
  BY <1>2, <1>3, <1>7 DEF SameGroup
<1> QED
  BY <1>2, <1>3, <1>8 DEF OneToOne, SameName

\* If the names go together, every type of a package has a case at its directory.
LEMMA CaseForType ==
    ASSUME Inv, OneToOne, NEW i \in generated, NEW id \in i.types
    PROVE  \E c \in AllCases : c.key = i.key /\ c.version = i.version /\ c.type = id
<1> DEFINE e == [version |-> i.version, package |-> i.path]
           c == [key |-> i.key, version |-> e.version, package |-> e.package, type |-> id]
<1>1. i.key \in Used /\ e \in entries[i.key].versions /\ e.version = i.version
  BY DEF Inv, Tables, PackagesEntered
<1>2. PICK j \in generated : j.key = i.key /\ j.group = entries[i.key].group
  BY <1>1 DEF Inv, Tables, EntriesTraced
<1>3. i.group = entries[i.key].group
  BY <1>2 DEF OneToOne, SameName, SameGroup
<1>4. i.version \in Versions
  BY DEF Inv, TypeOK, Outputs
<1>5. id \in TypesFor(entries[i.key].group, e.version)
  BY <1>1, <1>3, <1>4, EntryTypes, TypesForPackages
<1>6. c \in CasesOf(i.key, e)
  BY <1>5 DEF CasesOf
<1>7. c.key = i.key /\ c.version = i.version /\ c.type = id
  BY <1>1
<1> HIDE DEF c, e
<1> QED
  BY <1>1, <1>6, <1>7 DEF AllCases

\* An accessor is that of a type in an output directory.
LEMMA AccessorOf ==
    ASSUME NEW a
    PROVE  a \in Accessors <=> \E k \in Keys, v \in Versions : \E id \in interfaces[<<k, v>>] :
                                  a = [key |-> k, version |-> v, name |-> id[2]]
<1> DEFINE Of(k, v) == {[key |-> k, version |-> v, name |-> id[2]] : id \in interfaces[<<k, v>>]}
<1>1. \A k, v : a \in Of(k, v) <=> \E id \in interfaces[<<k, v>>] :
                                    a = [key |-> k, version |-> v, name |-> id[2]]
  OBVIOUS
<1>2. Accessors = UNION {Of(k, v) : k \in Keys, v \in Versions}
  BY DEF Accessors
<1> HIDE DEF Of
<1>3. a \in Accessors <=> \E k \in Keys, v \in Versions : a \in Of(k, v)
  BY <1>2
<1> QED
  BY <1>1, <1>3

\* Wherever the directories' names and the groups' names go together one to one,
\* ForResource of the generated factory has a case for every accessor; and if no two
\* packages share an output directory, each case calls an accessor that exists, and
\* a different one, for any number of packages in any order.
THEOREM ForResourceIsExactHolds == Spec => []ForResourceIsExact
<1>1. Inv => ForResourceIsExact
  <2> SUFFICES ASSUME Inv, phase = "done", OneToOne
               PROVE  /\ \A a \in Accessors : \E c \in cases : Target(c) = a
                      /\ Apart => \A c \in cases :
                            /\ Target(c) \in Accessors
                            /\ \A d \in cases : Target(c) = Target(d) => c = d
    BY DEF ForResourceIsExact
  <2>1. cases = AllCases
    BY DEF Inv, Outcome
  <2>2. ASSUME NEW a \in Accessors
        PROVE  \E c \in cases : Target(c) = a
    <3>1. PICK k \in Keys, v \in Versions :
            \E id \in interfaces[<<k, v>>] : a = [key |-> k, version |-> v, name |-> id[2]]
      BY AccessorOf
    <3>2. PICK id \in interfaces[<<k, v>>] : a = [key |-> k, version |-> v, name |-> id[2]]
      BY <3>1
    <3>3. PICK i \in generated : i.key = k /\ i.version = v /\ interfaces[<<k, v>>] = i.types
      BY <3>2 DEF Inv, Tables, InterfacesTraced
    <3>4. PICK c \in AllCases : c.key = k /\ c.version = v /\ c.type = id
      BY <3>2, <3>3, CaseForType
    <3> QED
      BY <2>1, <3>2, <3>4 DEF Target
  <2>3. ASSUME Apart, NEW c \in cases
        PROVE  \E i \in generated : /\ i.key = c.key /\ i.version = c.version
                                    /\ i.path = c.package /\ c.type \in i.types
    <3>1. PICK i \in generated : i.key = c.key /\ i.version = c.version /\ i.path = c.package
      BY <2>1, CaseOfEntry
    <3>2. PICK j \in generated : j.key = c.key /\ j.version = c.version /\ c.type \in j.types
      BY <2>1, CaseOfPackage
    <3>3. i = j
      BY <2>3, <3>1, <3>2 DEF Apart
    <3> QED
      BY <3>1, <3>2, <3>3
  <2>4. ASSUME Apart, NEW c \in cases
        PROVE  Target(c) \in Accessors
    <3>1. PICK i \in generated : i.key = c.key /\ i.version = c.version /\ c.type \in i.types
      BY <2>3, <2>4
    <3>2. i.key \in Keys /\ i.version \in Versions
      BY DEF Inv, TypeOK, Outputs
    <3>3. interfaces[<<i.key, i.version>>] # {}
      BY DEF Inv, Tables, InterfacesTraced
    <3>4. PICK j \in generated :
            j.key = i.key /\ j.version = i.version /\ interfaces[<<i.key, i.version>>] = j.types
      BY <3>2, <3>3 DEF Inv, Tables, InterfacesTraced
    <3>5. c.type \in interfaces[<<i.key, i.version>>]
      BY <2>4, <3>1, <3>4 DEF Apart
    <3> QED
      BY <3>1, <3>2, <3>5, AccessorOf DEF Target
  <2>5. ASSUME Apart, NEW c \in cases, NEW d \in cases, Target(c) = Target(d)
        PROVE  c = d
    <3>1. c.key = d.key /\ c.version = d.version /\ c.type[2] = d.type[2]
      BY <2>5 DEF Target
    <3>2. PICK i \in generated : /\ i.key = c.key /\ i.version = c.version
                                 /\ i.path = c.package /\ c.type \in i.types
      BY <2>3, <2>5
    <3>3. PICK j \in generated : /\ j.key = d.key /\ j.version = d.version
                                 /\ j.path = d.package /\ d.type \in j.types
      BY <2>3, <2>5
    <3>4. i = j
      BY <2>5, <3>1, <3>2, <3>3 DEF Apart
    <3>5. c.type[1] = i.path /\ d.type[1] = i.path
      BY <3>2, <3>3, <3>4 DEF Inv, Tables, PackagesEntered
    <3>6. c.type \in TypeIds /\ d.type \in TypeIds
      BY <3>2, <3>3 DEF Inv, TypeOK, Outputs
    <3>7. c.type = d.type
      BY <3>1, <3>5, <3>6 DEF TypeIds
    <3>8. c.package = d.package
      BY <3>2, <3>3, <3>4
    <3> QED
      BY <2>1, <3>1, <3>7, <3>8, CaseOfEntry
  <2> QED
    BY <2>2, <2>4, <2>5
<1> QED
  BY <1>1, InvHolds, PTL

\* The generator runs into an empty list of types only when two packages share a
\* directory's name and differ in their groups.
THEOREM FailsOnlyOnClashHolds == Spec => []FailsOnlyOnClash
<1>1. Inv => FailsOnlyOnClash
  <2> SUFFICES ASSUME Inv, phase = "index out of range"
               PROVE  \E i, j \in generated : SameName(i, j) /\ ~SameGroup(i, j)
    BY DEF FailsOnlyOnClash
  <2>1. PICK k \in Used : \E e \in entries[k].versions : CasesOf(k, e) = {}
    BY DEF Inv, Outcome, Lost
  <2>2. PICK e \in entries[k].versions : CasesOf(k, e) = {}
    BY <2>1
  <2>3. PICK i \in generated : i.key = k /\ i.group = entries[k].group
    BY DEF Inv, Tables, EntriesTraced
  <2>4. PICK j \in generated : j.key = k /\ j.version = e.version
    BY <2>2 DEF Inv, Tables, EntriesTraced
  <2>5. PICK id \in j.types : TRUE
    BY DEF Inv, Tables, PackagesEntered
  <2>6. j.group # entries[k].group
    <3>1. id \notin TypesFor(entries[k].group, e.version)
      BY <2>2 DEF CasesOf
    <3>2. e.version \in Versions /\ entries[k].group \in GroupNames
      BY <2>2, EntryTypes DEF PackageVersions
    <3> QED
      BY <2>4, <2>5, <3>1, <3>2, TypesForPackages
  <2> QED
    BY <2>3, <2>4, <2>6 DEF SameName, SameGroup
<1> QED
  BY <1>1, InvHolds, PTL
=============================================================================
