---------------------------- MODULE GroupVersions ----------------------------
(***************************************************************************)
(* xns-informer-gen: how it sorts the types of its input packages into     *)
(* groups and versions, and what ForResource of the generated factory is   *)
(* made from (generators/packages.go, generators/generic.go).              *)
(*                                                                         *)
(* A group goes by two names: that of its directory, which keys the tables *)
(* and the output paths, and the group's own, which a comment in the       *)
(* package may override and which keys the table of types.  The packages   *)
(* come in the order of the command line, so in any; two of them may share *)
(* an output directory, where the later one overwrites the files of the    *)
(* earlier one.  No package is given twice, and internal and external      *)
(* packages have output directories of their own (no --single-directory).  *)
(* Names of Go identifiers, plurals and the text that is written are left  *)
(* out.                                                                    *)
(***************************************************************************)
EXTENDS Naturals, FiniteSets

CONSTANTS
    Contents,   \* the sets of types that a package may have
    Prefixes,   \* what their paths begin with
    Parents,    \* the last element of their paths but one
    Lasts,      \* the last element
    Groups,     \* the values of "+groupName=" comments
    TypeNames,  \* the names of types that have "+genclient"; no others matter
    MaxDirs,    \* bound: the number of packages given
    None        \* no comment, no version, no entry

\* A type may be listed and watched, or not; its ObjectMeta, if it has any, has a
\* json tag, or none, which is the mark of an internal type.
Types == [name : TypeNames, listed : BOOLEAN, meta : {"none", "json", "internal"}]

Paths == [prefix : Prefixes, parent : Parents, last : Lasts]

Comments == Groups \union {None}
Packages == [path : Paths, groupName : Comments, types : Contents]

ASSUME GeneratorAssumption == Contents \subseteq SUBSET Types /\ None \notin Lasts

VARIABLES
    todo,       \* the packages not looked at yet
    typesFor,   \* typesForGroupVersion: <<group, version, type>>
    entries,    \* externalGroupVersions and internalGroupVersions
    generated,  \* packageList: the packages for which informers are generated
    interfaces, \* the types with an accessor in the interface.go of an output directory
    cases,      \* the cases of the switch in ForResource
    phase       \* "grouping", "done", or how the generator failed

vars == <<todo, typesFor, entries, generated, interfaces, cases, phase>>

-----------------------------------------------------------------------------
Keys == [internal : BOOLEAN, name : Parents \union Lasts]
Versions == Lasts \union {None}
GroupNames == Groups \union Parents \union Lasts
PackageVersions == [version : Versions, package : Paths]
Entries == [group : GroupNames, versions : SUBSET PackageVersions]

\* No entry of the tables is nil.
ASSUME EntryAssumption == None \notin Entries

\* A type that is generated for is known by its package and its name.
TypeIds == Paths \X TypeNames

\* What is generated for a package: its output directory is that of key and version.
Outputs == [key : Keys, group : GroupNames, version : Versions, path : Paths,
            types : SUBSET TypeIds]

Cases == [key : Keys, version : Versions, package : Paths, type : TypeIds]

Listed(p) == {<<p.path, t.name>> : t \in {u \in p.types : u.listed}}
WithMeta(p) == {t \in p.types : t.meta # "none"}

KeyOf(p, internal) == [internal |-> internal,
                       name |-> IF internal THEN p.path.last ELSE p.path.parent]

VersionOf(p, internal) == IF internal THEN None ELSE p.path.last

GroupOf(p, k) == IF p.groupName = None THEN k.name ELSE p.groupName

TypesFor(g, v) == {x[3] : x \in {y \in typesFor : y[1] = g /\ y[2] = v}}

Init ==
    /\ \E given \in SUBSET Paths :
         /\ Cardinality(given) <= MaxDirs
         /\ \E comment \in [given -> Comments], content \in [given -> Contents] :
              todo = {[path |-> d, groupName |-> comment[d], types |-> content[d]] : d \in given}
    /\ typesFor = {}
    /\ entries = [k \in Keys |-> None]
    /\ generated = {}
    /\ interfaces = [d \in Keys \X Versions |-> {}]
    /\ cases = {}
    /\ phase = "grouping"

-----------------------------------------------------------------------------
\* No type has "+genclient".
Skip(p) ==
    /\ p.types = {}
    /\ UNCHANGED <<typesFor, entries, generated, interfaces, phase>>

\* "unable to find ObjectMeta for any types in package"
Refuse(p) ==
    /\ p.types # {} /\ WithMeta(p) = {}
    /\ phase' = "fatal"
    /\ UNCHANGED <<typesFor, entries, generated, interfaces>>

\* Mutant: a new version takes the place of the earlier ones.
AddVersion_Replaces(k, g, e) == [entries EXCEPT ![k] = [group |-> g, versions |-> {e}]]

\* The first package of a directory's name decides which group it is.  The list of
\* versions is a set here: its elements name their packages, so no two are the same,
\* but two packages may add the same version.
AddVersion(k, g, e) ==
    [entries EXCEPT ![k] = IF @ = None THEN [group |-> g, versions |-> {e}]
                           ELSE [group |-> @.group, versions |-> @.versions \union {e}]]

\* Mutant: a version is recorded before its types are known.
Recorded_Always(p, k, g, e) == AddVersion(k, g, e)

\* A version without types to generate for is not recorded.
Recorded(p, k, g, e) == IF Listed(p) = {} THEN entries ELSE AddVersion(k, g, e)

\* The informers of a package and the accessors to them.  The packages are written
\* in their order, so the last one of an output directory leaves its interface.go.
WritePackage(p, k, g, v) ==
    IF Listed(p) = {} THEN UNCHANGED <<generated, interfaces>>
    ELSE /\ generated' = generated \union
              {[key |-> k, group |-> g, version |-> v, path |-> p.path, types |-> Listed(p)]}
         /\ interfaces' = [interfaces EXCEPT ![<<k, v>>] = Listed(p)]

\* The first type found with ObjectMeta, in the order of a map, decides whether the
\* package is internal.
Add(p) ==
    \E t \in WithMeta(p) :
        LET internal == t.meta = "internal"
            k == KeyOf(p, internal)
            v == VersionOf(p, internal)
            g == GroupOf(p, k) IN
        /\ typesFor' = typesFor \union {<<g, v, id>> : id \in Listed(p)}
        /\ entries' = Recorded(p, k, g, [version |-> v, package |-> p.path])
        /\ WritePackage(p, k, g, v)
        /\ UNCHANGED phase

GroupPackage(p) ==
    /\ phase = "grouping"
    /\ todo' = todo \ {p}
    /\ Skip(p) \/ Refuse(p) \/ Add(p)
    /\ UNCHANGED cases

Used == {k \in Keys : entries[k] # None}

\* The cases for a version of an entry: the types of that version of the group of
\* the entry, whichever packages they are from.
CasesOf(k, e) ==
    {[key |-> k, version |-> e.version, package |-> e.package, type |-> id] :
        id \in TypesFor(entries[k].group, e.version)}

\* The generator of ForResource looks up the types of every version of an entry;
\* the first of them names the package of the version, and there may be none.
Generate ==
    /\ phase = "grouping"
    /\ todo = {}
    /\ IF \E k \in Used : \E e \in entries[k].versions : CasesOf(k, e) = {}
         THEN phase' = "index out of range" /\ UNCHANGED cases
         ELSE /\ phase' = "done"
              /\ cases' = UNION {UNION {CasesOf(k, e) : e \in entries[k].versions} : k \in Used}
    /\ UNCHANGED <<todo, typesFor, entries, generated, interfaces>>

Next == Generate \/ \E p \in todo : GroupPackage(p)

Spec == Init /\ [][Next]_vars

-----------------------------------------------------------------------------
\* Every variable has its type.
TypeOK ==
    /\ todo \in SUBSET Packages
    /\ typesFor \in SUBSET (GroupNames \X Versions \X TypeIds)
    /\ entries \in [Keys -> Entries \union {None}]
    /\ generated \in SUBSET Outputs
    /\ interfaces \in [Keys \X Versions -> SUBSET TypeIds]
    /\ cases \in SUBSET Cases
    /\ phase \in {"grouping", "done", "fatal", "index out of range"}

SameName(i, j) == i.key = j.key
SameGroup(i, j) == i.key.internal = j.key.internal /\ i.group = j.group

OneToOne == \A i, j \in generated : SameName(i, j) <=> SameGroup(i, j)

\* No two packages share an output directory.
Apart == \A i, j \in generated : i.key = j.key /\ i.version = j.version => i = j

\* The accessors of the generated code, and the one that a case calls: the name of
\* the type is all that is left of it.
Accessors ==
    UNION {{[key |-> k, version |-> v, name |-> id[2]] : id \in interfaces[<<k, v>>]} :
              k \in Keys, v \in Versions}

Target(c) == [key |-> c.key, version |-> c.version, name |-> c.type[2]]

\* If a directory's name and a group's name go together one to one, ForResource has
\* a case for every accessor that is generated, whatever the order of the packages.
\* If, besides, no two packages share an output directory, every case calls an
\* accessor that exists, and no two call the same one.  (This takes for granted that
\* Go's names for groups, versions and types differ where these do.)
ForResourceIsExact ==
    phase = "done" /\ OneToOne =>
        /\ \A a \in Accessors : \E c \in cases : Target(c) = a
        /\ Apart => \A c \in cases :
              /\ Target(c) \in Accessors
              /\ \A d \in cases : Target(c) = Target(d) => c = d

\* The generator looks for the package of a version without types only if two
\* packages have the same directory's name and are of different groups.
FailsOnlyOnClash ==
    phase = "index out of range" =>
        \E i, j \in generated : SameName(i, j) /\ ~SameGroup(i, j)
=============================================================================
