---------------------- MODULE GeneratedFactoriesProofs -----------------------
(***************************************************************************)
(* Proofs about GeneratedFactories, for any factories whose tables fit     *)
(* together, and any number of questions.                                  *)
(*                                                                         *)
(* The informers that are there were made for other questions, so what has *)
(* to be shown is that the one found under a Go type is the very one that  *)
(* the accessor's own file would have made.                                *)
(***************************************************************************)
EXTENDS GeneratedFactories, TLAPS

\* What is presupposed: TLC finds it true of the tables of pkg/generated.
TablesMatch == \A f \in Factories : Matching(f)

\* The files that the accessors lead to.
Files == {InformerAt(p) : p \in Accessors}

\* Every informer was made from a file of this factory.
Inv ==
    /\ factory \in Factories
    /\ informers \subseteq Files
    /\ ServesWhatWasAsked
    /\ NothingIsMissing

-----------------------------------------------------------------------------
\* Informers are filed so that the one found is the one looked for.
LEMMA FoundIsOwn ==
    ASSUME Matching(factory), informers \subseteq Files, NEW i \in Files
    PROVE  Existing(i) \subseteq {i}
  BY DEF Matching, Files, Existing, InformerAt, Accessors

\* A question that leads to a file is answered with what that file makes; no other
\* informer is made, and no constructor panics.
LEMMA AnsweredByFile ==
    ASSUME Matching(factory), informers \subseteq Files, ~panicked,
           NEW i \in Files, NEW asked, NEW lister, InformerFor(i, asked, lister)
    PROVE  /\ informers' \subseteq Files
           /\ ~panicked'
           /\ answers' = answers \union {[asked |-> asked, lister |-> lister, got |-> {i}]}
<1>1. i.perNamespace => i.onSet
  BY DEF Matching, Files, InformerAt, Accessors
<1>2. Existing(i) \subseteq {i}
  BY FoundIsOwn
<1> QED
  BY <1>1, <1>2 DEF InformerFor, Answer

\* An answer that is right leaves all answers right.
LEMMA RightAnswer ==
    ASSUME Inv, NEW a, answers' = answers \union {a}, ~panicked', UNCHANGED factory,
           informers' \subseteq Files,
           \A i \in a.got : i.lists = a.asked /\ i.object = a.lister,
           a.got = {} => \A p \in Accessors : InformerAt(p).lists # a.asked
    PROVE  Inv'
<1>1. Files' = Files /\ Accessors' = Accessors /\ \A p : InformerAt(p)' = InformerAt(p)
  BY DEF Files, Accessors, InformerAt
<1>2. ServesWhatWasAsked'
  BY DEF Inv, ServesWhatWasAsked
<1>3. NothingIsMissing'
  BY <1>1 DEF Inv, NothingIsMissing
<1> QED
  BY <1>1, <1>2, <1>3 DEF Inv

-----------------------------------------------------------------------------
LEMMA AskAccessorInv ==
    ASSUME Matching(factory), Inv, UNCHANGED factory,
           NEW p \in Accessors, AskAccessor(p)
    PROVE  Inv'
<1> DEFINE i == InformerAt(p)
           a == [asked |-> i.lists, lister |-> i.lister, got |-> {i}]
<1>1. i \in Files /\ i.lister = i.object
  BY DEF Files, Matching, InformerAt, Accessors
<1>2. informers' \subseteq Files /\ ~panicked' /\ answers' = answers \union {a}
  BY <1>1, AnsweredByFile DEF Inv, NothingIsMissing, AskAccessor
<1>3. a.got # {} /\ \A j \in a.got : j.lists = a.asked /\ j.object = a.lister
  BY <1>1
<1> HIDE DEF a
<1> QED
  BY <1>2, <1>3, RightAnswer

LEMMA ForResourceInv ==
    ASSUME Matching(factory), Inv, UNCHANGED factory,
           NEW r, ForResource(r)
    PROVE  Inv'
<1>1. CASE CasesFor(r) = {}
  <2> DEFINE a == [asked |-> r, lister |-> <<>>, got |-> {}]
  <2>1. answers' = answers \union {a} /\ UNCHANGED <<informers, panicked>>
    BY <1>1 DEF ForResource, Answer
  <2>2. \A p \in Accessors : InformerAt(p).lists # r
    BY <1>1 DEF Matching, CasesFor, InformerAt, Accessors
  <2> QED
    BY <2>1, <2>2, RightAnswer DEF Inv, NothingIsMissing
<1>2. ASSUME NEW c \in CasesFor(r),
             InformerFor(InformerAt(c.path), r, InformerAt(c.path).object)
      PROVE  Inv'
  <2> DEFINE i == InformerAt(c.path)
             a == [asked |-> r, lister |-> i.object, got |-> {i}]
  <2>1. i \in Files /\ i.lists = r
    BY DEF Files, Matching, CasesFor, InformerAt, Accessors
  <2>2. informers' \subseteq Files /\ ~panicked' /\ answers' = answers \union {a}
    BY <1>2, <2>1, AnsweredByFile DEF Inv, NothingIsMissing
  <2>3. a.got # {} /\ \A j \in a.got : j.lists = a.asked /\ j.object = a.lister
    BY <2>1
  <2> HIDE DEF a
  <2> QED
    BY <2>2, <2>3, RightAnswer
<1> QED
  BY <1>1, <1>2 DEF ForResource

LEMMA InitInv == Init => Inv
  BY DEF Init, Inv, ServesWhatWasAsked, NothingIsMissing

LEMMA NextInv == TablesMatch /\ Inv /\ [Next]_vars => Inv'
<1> SUFFICES ASSUME TablesMatch, Inv, [Next]_vars PROVE Inv'
  OBVIOUS
<1>1. Matching(factory)
  BY DEF TablesMatch, Inv
<1>2. CASE Next
  BY <1>1, <1>2, AskAccessorInv, ForResourceInv DEF Next
<1>3. CASE UNCHANGED vars
  BY <1>3 DEF vars, Inv, Files, Accessors, InformerAt, ServesWhatWasAsked, NothingIsMissing
<1> QED
  BY <1>2, <1>3

\* The inductive invariant: the informers come from the accessors' files.
THEOREM InvHolds ==
    ASSUME TablesMatch
    PROVE  Spec => []Inv
<1>1. Inv /\ [Next]_vars => Inv'
  BY NextInv
<1> QED
  BY <1>1, InitInv, PTL DEF Spec

\* Whatever was asked for before, an accessor and ForResource return an informer of
\* the resource and version asked for, whose objects its lister can cast.
THEOREM ServesWhatWasAskedHolds ==
    ASSUME TablesMatch
    PROVE  Spec => []ServesWhatWasAsked
<1>1. Inv => ServesWhatWasAsked
  BY DEF Inv
<1> QED
  BY <1>1, InvHolds, PTL

\* However a resource is asked for, and how often, it has one informer.
THEOREM OneCachePerResourceHolds ==
    ASSUME TablesMatch
    PROVE  Spec => []OneCachePerResource
<1>1. Inv => OneCachePerResource
  BY DEF TablesMatch, Inv, Files, Matching, InformerAt, Accessors, OneCachePerResource
<1> QED
  BY <1>1, InvHolds, PTL

\* No constructor panics for want of a namespace set, and ForResource refuses only
\* what has no accessor.
THEOREM NothingIsMissingHolds ==
    ASSUME TablesMatch
    PROVE  Spec => []NothingIsMissing
<1>1. Inv => NothingIsMissing
  BY DEF Inv
<1> QED
  BY <1>1, InvHolds, PTL
=============================================================================
