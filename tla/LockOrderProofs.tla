--------------------------- MODULE LockOrderProofs ---------------------------
(***************************************************************************)
(* Proofs about LockOrder, for any number of goroutines, informers and     *)
(* application mutexes.                                                    *)
(*                                                                         *)
(* That there is no deadlock follows, in any one state, from which locks a *)
(* goroutine holds at each place of its calls and from the order that the  *)
(* application's handlers keep to.  So the invariant is the exact          *)
(* ownership (LocksAreHeld) with what a place says of the lock, of the     *)
(* informer that the goroutine is at and of where its call began (Shape).  *)
(***************************************************************************)
EXTENDS LockOrder, TLAPS

\* The places at which a goroutine waits for, or has just got, lock[g].
Asking == {"short", "initialized", "resource", "set", "enter", "register",
           "instance", "handler"}

ShapeOf(g) ==
    /\ waiting[g] => doing[g] \in Asking
    /\ doing[g] \in Asking => lock[g] \in Locks
    /\ doing[g] \in {"initialized", "enter", "register"} => lock[g] = Set
    /\ doing[g] \in {"resource", "set"} => lock[g] = Factory
    /\ doing[g] \in {"initialized", "register", "instance", "handler", "told"} =>
         at[g] \in Informers
    /\ doing[g] \in {"resource", "set", "return"} => entered[g] = "factory"
    /\ doing[g] \in {"enter", "register", "transition"} => entered[g] \in {"factory", "set"}
    /\ doing[g] \in {"instance", "handler", "told"} =>
         entered[g] \in {"factory", "set"} \/ (entered[g] = "informer" /\ at[g] \in Direct)
    /\ doing[g] = "instance" => lock[g] = at[g]
    /\ doing[g] = "handler" => lock[g] \in OnDelete[at[g]]
    /\ doing[g] = "handler" /\ ~waiting[g] => lock[g] \notin {at[g]} \union AroundInformer(g)

Shape == \A g \in Goroutines : ShapeOf(g)

Inv == TypeOK /\ Shape /\ LocksAreHeld

-----------------------------------------------------------------------------
(* One step of one goroutine.                                              *)

StepOf(g) == Call(g) \/ Acquire(g) \/ Proceed(g)

\* A step of g leaves the places of the others alone.
LEMMA OthersStay ==
    ASSUME NEW g \in Goroutines, NEW h \in Goroutines, h # g, TypeOK, StepOf(g)
    PROVE  /\ doing'[h] = doing[h] /\ lock'[h] = lock[h]
           /\ waiting'[h] = waiting[h] /\ at'[h] = at[h] /\ entered'[h] = entered[h]
  <1>1. CASE Call(g)
    BY <1>1 DEF Call, Short, HasSynced, ForResource, SetNamespaces, AskFor, TypeOK, Enter,
       NewMultiNamespaceInformer, Register, SetNamespacesOfSet, AddOrRemoveNamespace
  <1>2. CASE Acquire(g)
    BY <1>2 DEF Acquire, TypeOK
  <1>3. CASE Proceed(g)
    BY <1>3 DEF Proceed, ShortReturns, CheckInstances, Exists, AddHandler, EnterSet,
       BeginTransition, HandlerReturns, InformerReturns, EndTransition, Return,
       NewInformer, Register, CallInformer, CallOnDelete, AskFor, GoTo, TypeOK
  <1> QED BY <1>1, <1>2, <1>3 DEF StepOf

LEMMA TypeStep ==
    ASSUME NEW g \in Goroutines, TypeOK, ShapeOf(g), StepOf(g)
    PROVE  TypeOK'
  <1>a. /\ Factory \in Locks /\ Set \in Locks
        /\ Mutexes \subseteq Locks /\ Informers \subseteq Locks
    BY DEF Locks
  <1> USE DEF TypeOK, Places
  <1>1. CASE Call(g)
    <2>1. CASE \E l \in Mutexes \union {Factory, Set} \union registered : Short(g, l)
      <3> PICK l \in Locks : Short(g, l) BY <1>a, <2>1
      <3> QED BY DEF Short, AskFor
    <2>2. CASE \E x \in registered : HasSynced(g, x)
      <3> PICK x \in Informers : HasSynced(g, x) BY <2>2
      <3> QED BY <1>a DEF HasSynced, AskFor
    <2>3. CASE ForResource(g) \/ SetNamespaces(g) \/ SetNamespacesOfSet(g)
      <3> USE DEF AskFor, Enter
      <3>1. CASE ForResource(g) BY <1>a, <3>1 DEF ForResource
      <3>2. CASE SetNamespaces(g) BY <1>a, <3>2 DEF SetNamespaces
      <3>3. CASE SetNamespacesOfSet(g) BY <1>a, <3>3 DEF SetNamespacesOfSet
      <3> QED BY <2>3, <3>1, <3>2, <3>3
    <2>4. CASE \E x \in Informers : NewMultiNamespaceInformer(g, x)
      <3> PICK x \in Informers : NewMultiNamespaceInformer(g, x) BY <2>4
      <3> QED BY <1>a DEF NewMultiNamespaceInformer, Register, AskFor, Enter
    <2>5. CASE \E x \in Direct \intersect registered : AddOrRemoveNamespace(g, x)
      <3> PICK x \in Informers : AddOrRemoveNamespace(g, x) BY <2>5
      <3> QED BY <1>a DEF AddOrRemoveNamespace, AskFor, Enter
    <2> QED BY <1>1, <2>1, <2>2, <2>3, <2>4, <2>5 DEF Call
  <1>2. CASE Acquire(g)
    BY <1>2 DEF Acquire
  <1>3. CASE Proceed(g)
    <2> USE DEF GoTo, Release, AskFor, From
    <2>1. CASE ShortReturns(g) \/ CheckInstances(g) \/ Exists(g) \/ EnterSet(g)
      <3>1. CASE ShortReturns(g) BY <3>1 DEF ShortReturns, ShapeOf
      <3>2. CASE CheckInstances(g)
        <4>1. at[g] \in Informers BY <3>2 DEF CheckInstances, ShapeOf
        <4> QED BY <1>a, <3>2, <4>1 DEF CheckInstances
      <3>3. CASE Exists(g) BY <3>3 DEF Exists
      <3>4. CASE EnterSet(g) BY <1>a, <3>4 DEF EnterSet
      <3> QED BY <2>1, <3>1, <3>2, <3>3, <3>4
    <2>2. CASE AddHandler(g)
      <3>1. at[g] \in Informers BY <2>2 DEF AddHandler, ShapeOf
      <3> QED BY <1>a, <2>2, <3>1 DEF AddHandler
    <2>3. CASE BeginTransition(g) \/ HandlerReturns(g)
      BY <2>3 DEF BeginTransition, HandlerReturns
    <2>4. CASE InformerReturns(g) \/ EndTransition(g) \/ Return(g)
      <3>1. CASE InformerReturns(g) BY <3>1 DEF InformerReturns
      <3>2. CASE EndTransition(g) BY <3>2 DEF EndTransition
      <3>3. CASE Return(g) BY <3>3 DEF Return
      <3> QED BY <2>4, <3>1, <3>2, <3>3
    <2>5. CASE \E x \in Informers : NewInformer(g, x) \/ CallInformer(g, x)
      <3> PICK x \in Informers : NewInformer(g, x) \/ CallInformer(g, x) BY <2>5
      <3>1. CASE NewInformer(g, x) BY <1>a, <3>1 DEF NewInformer, Register
      <3>2. CASE CallInformer(g, x) BY <1>a, <3>2 DEF CallInformer
      <3> QED BY <3>1, <3>2
    <2>6. CASE \E l \in Locks : CallOnDelete(g, l)
      BY <2>6 DEF CallOnDelete
    <2> QED BY <1>3, <2>1, <2>2, <2>3, <2>4, <2>5, <2>6 DEF Proceed
  <1> QED BY <1>1, <1>2, <1>3 DEF StepOf
-----------------------------------------------------------------------------
(* Ownership: a step of g takes one lock, releases one or does neither.    *)

Keeps(g) == owner' = owner /\ Holds(g)' = Holds(g)
Gains(g, l) == /\ owner[l] = None
               /\ owner' = [owner EXCEPT ![l] = g]
               /\ Holds(g)' = Holds(g) \union {l}
Loses(g, l) == /\ owner[l] = g
               /\ owner' = [owner EXCEPT ![l] = None]
               /\ Holds(g)' = Holds(g) \ {l}

\* Every step of the module does one of the three.
Moves(g) == Keeps(g) \/ \E l \in Locks : Gains(g, l) \/ Loses(g, l)

LEMMA OthersHold ==
    ASSUME NEW g \in Goroutines, NEW h \in Goroutines, h # g, TypeOK, StepOf(g)
    PROVE  Holds(h)' = Holds(h)
  BY OthersStay DEF Holds, AroundSet, AroundInformer

\* Whichever it does, ownership stays exact.
LEMMA Bookkeeping ==
    ASSUME NEW g \in Goroutines, TypeOK, LocksAreHeld, Moves(g),
           \A h \in Goroutines \ {g} : Holds(h)' = Holds(h)
    PROVE  LocksAreHeld'
  <1> SUFFICES ASSUME NEW h \in Goroutines, NEW k \in Locks
               PROVE  owner'[k] = h <=> k \in Holds(h)'
    BY DEF LocksAreHeld
  <1>0. /\ owner[k] = h <=> k \in Holds(h)
        /\ None \notin Goroutines
    BY LockAssumption DEF LocksAreHeld
  <1>1. CASE Keeps(g)
    BY <1>0, <1>1 DEF Keeps
  <1>2. CASE \E l \in Locks : Gains(g, l) \/ Loses(g, l)
    <2> PICK l \in Locks : Gains(g, l) \/ Loses(g, l) BY <1>2
    <2>1. CASE Gains(g, l) BY <1>0, <2>1 DEF Gains, TypeOK
    <2>2. CASE Loses(g, l) BY <1>0, <2>2 DEF Loses, TypeOK
    <2> QED BY <2>1, <2>2
  <1> QED BY <1>1, <1>2 DEF Moves

\* What g holds is known from its own place.
LEMMA OwnLocks ==
    ASSUME LocksAreHeld, NEW g \in Goroutines, NEW l \in Locks
    PROVE  owner[l] = g <=> l \in Holds(g)
  BY DEF LocksAreHeld

LEMMA CallMoves ==
    ASSUME NEW g \in Goroutines, TypeOK, Call(g)
    PROVE  Moves(g) /\ ShapeOf(g)'
  <1> USE LockAssumption DEF TypeOK
  <1>a. /\ Factory \in Locks /\ Set \in Locks
        /\ Mutexes \subseteq Locks /\ Informers \subseteq Locks
    BY DEF Locks
  <1>1. CASE \E l \in Mutexes \union {Factory, Set} \union registered : Short(g, l)
    <2> PICK l \in Locks : Short(g, l) BY <1>a, <1>1
    <2>1. Keeps(g) BY DEF Keeps, Short, From, AskFor, Holds
    <2> QED BY <2>1 DEF Moves, Short, From, AskFor, ShapeOf, Asking
  <1>2. CASE \E x \in registered : HasSynced(g, x)
    <2> PICK x \in Informers : HasSynced(g, x) BY <1>2
    <2>1. Keeps(g) BY DEF Keeps, HasSynced, From, AskFor, Holds
    <2> QED BY <1>a, <2>1 DEF Moves, HasSynced, From, AskFor, ShapeOf, Asking
  <1>3. CASE ForResource(g) \/ SetNamespaces(g) \/ SetNamespacesOfSet(g)
    <2> USE DEF ForResource, SetNamespaces, SetNamespacesOfSet, Enter, From, AskFor
    <2>1. /\ doing[g] = "idle" /\ waiting'[g] /\ owner' = owner
          /\ \/ doing'[g] \in {"resource", "set"}
             \/ doing'[g] = "enter" /\ entered'[g] = "set"
      BY <1>3
    <2>2. Keeps(g) BY <2>1 DEF Keeps, Holds, AroundSet
    <2> QED BY <1>a, <1>3, <2>2 DEF Moves, ShapeOf, Asking
  <1>4. CASE \E x \in Informers : NewMultiNamespaceInformer(g, x)
    <2> PICK x \in Informers : NewMultiNamespaceInformer(g, x) BY <1>4
    <2> USE DEF NewMultiNamespaceInformer, Register, Enter, From, AskFor
    <2>1. /\ doing[g] = "idle" /\ waiting'[g] /\ owner' = owner
          /\ doing'[g] = "register" /\ entered'[g] = "set"
      OBVIOUS
    <2>2. Keeps(g) BY <2>1 DEF Keeps, Holds, AroundSet
    <2> QED BY <1>a, <2>2 DEF Moves, ShapeOf, Asking
  <1>5. CASE \E x \in Direct \intersect registered : AddOrRemoveNamespace(g, x)
    <2> PICK x \in Direct : AddOrRemoveNamespace(g, x) BY <1>5
    <2> USE DEF AddOrRemoveNamespace, Enter, From, AskFor
    <2>1. Keeps(g) BY DEF Keeps, Holds, AroundInformer
    <2> QED BY <1>a, <2>1 DEF Moves, ShapeOf, Asking
  <1> QED BY <1>1, <1>2, <1>3, <1>4, <1>5 DEF Call

LEMMA AcquireMoves ==
    ASSUME NEW g \in Goroutines, TypeOK, LocksAreHeld, ShapeOf(g), Acquire(g)
    PROVE  Moves(g) /\ ShapeOf(g)'
  <1>1. /\ doing[g] \in Asking /\ lock[g] \in Locks /\ waiting[g] /\ ~waiting'[g]
        /\ doing' = doing /\ lock' = lock /\ at' = at /\ entered' = entered
        /\ owner[lock[g]] = None
    BY DEF Acquire, ShapeOf, TypeOK
  <1>2. lock[g] \notin Holds(g)
    BY <1>1, OwnLocks, LockAssumption
  <1>3. Holds(g)' = Holds(g) \union {lock[g]}
    BY <1>1 DEF Holds, Asking, AroundSet, AroundInformer
  <1>4. Moves(g)
    BY <1>1, <1>3 DEF Moves, Gains, Acquire
  <1>5. doing[g] = "handler" => lock[g] \notin {at[g]} \union AroundInformer(g)
    BY <1>1, <1>2 DEF Holds
  <1>6. AroundInformer(g)' = AroundInformer(g)
    BY <1>1 DEF AroundInformer, AroundSet
  <1> QED BY <1>1, <1>4, <1>5, <1>6 DEF ShapeOf

\* Calls that are not below SetNamespaces: HasSynced, ForResource, the short ones.
LEMMA OuterMoves ==
    ASSUME NEW g \in Goroutines, TypeOK, LocksAreHeld, ShapeOf(g),
           \/ ShortReturns(g) \/ CheckInstances(g) \/ Exists(g) \/ EnterSet(g)
           \/ BeginTransition(g) \/ Return(g)
    PROVE  Moves(g) /\ ShapeOf(g)'
  <1> USE LockAssumption DEF TypeOK, From
  <1>a. /\ Factory \in Locks /\ Set \in Locks /\ Informers \subseteq Locks
        /\ Factory # Set
    BY DEF Locks
  <1>1. CASE ShortReturns(g)
    <2>1. Holds(g) = {lock[g]} /\ Holds(g)' = {} /\ lock[g] \in Locks
      BY <1>1 DEF ShortReturns, GoTo, Holds, ShapeOf, Asking
    <2>2. Loses(g, lock[g])
      BY <1>1, <2>1, OwnLocks DEF Loses, ShortReturns, Release
    <2> QED BY <1>1, <2>1, <2>2 DEF Moves, ShortReturns, GoTo, ShapeOf, Asking
  <1>2. CASE CheckInstances(g)
    <2>1. Holds(g) = {Set} /\ at[g] \in Informers
      BY <1>2 DEF CheckInstances, Holds, ShapeOf, Asking
    <2>2. Holds(g)' = {}
      BY <1>2 DEF CheckInstances, GoTo, AskFor, Holds
    <2>3. Loses(g, Set)
      BY <1>a, <1>2, <2>1, <2>2, OwnLocks DEF Loses, CheckInstances, Release
    <2> QED BY <1>a, <1>2, <2>1, <2>3 DEF Moves, CheckInstances, GoTo, AskFor, ShapeOf, Asking
  <1>3. CASE Exists(g)
    <2>1. Holds(g) = {Factory} /\ Holds(g)' = {}
      BY <1>3 DEF Exists, GoTo, Holds, ShapeOf, Asking
    <2>2. Loses(g, Factory)
      BY <1>a, <1>3, <2>1, OwnLocks DEF Loses, Exists, Release
    <2> QED BY <1>a, <1>3, <2>2 DEF Moves, Exists, GoTo, ShapeOf, Asking
  <1>4. CASE EnterSet(g)
    <2>1. Keeps(g)
      BY <1>4 DEF Keeps, EnterSet, AskFor, Holds, AroundSet, ShapeOf, Asking
    <2> QED BY <1>a, <1>4, <2>1 DEF Moves, EnterSet, AskFor, ShapeOf, Asking
  <1>5. CASE BeginTransition(g)
    <2>1. Keeps(g)
      BY <1>5 DEF Keeps, BeginTransition, GoTo, Holds, AroundSet, AroundInformer, ShapeOf, Asking
    <2> QED BY <1>5, <2>1 DEF Moves, BeginTransition, GoTo, ShapeOf, Asking
  <1>6. CASE Return(g)
    <2>1. Holds(g) = {Factory} /\ Holds(g)' = {}
      BY <1>6 DEF Return, GoTo, Holds
    <2>2. Loses(g, Factory)
      BY <1>a, <1>6, <2>1, OwnLocks DEF Loses, Return, Release
    <2> QED BY <1>a, <1>6, <2>2 DEF Moves, Return, GoTo, ShapeOf, Asking
  <1> QED BY <1>1, <1>2, <1>3, <1>4, <1>5, <1>6

\* Calls inside the set and inside informers.
LEMMA InnerMoves ==
    ASSUME NEW g \in Goroutines, TypeOK, LocksAreHeld, ShapeOf(g),
           \/ AddHandler(g) \/ HandlerReturns(g) \/ InformerReturns(g) \/ EndTransition(g)
           \/ \E x \in Informers : NewInformer(g, x) \/ CallInformer(g, x)
           \/ \E l \in Locks : CallOnDelete(g, l)
    PROVE  Moves(g) /\ ShapeOf(g)'
  <1> USE LockAssumption DEF TypeOK, From
  <1>a. /\ Factory \in Locks /\ Set \in Locks /\ Informers \subseteq Locks
        /\ Factory # Set /\ Factory \notin Informers /\ Set \notin Informers
    BY DEF Locks
  \* What lies around stays the same until the call returns.
  <1>b. entered'[g] = entered[g] => /\ AroundSet(g)' = AroundSet(g)
                                    /\ AroundInformer(g)' = AroundInformer(g)
    BY DEF AroundSet, AroundInformer
  <1>c. /\ entered[g] \in {"factory", "set"} => AroundInformer(g) = AroundSet(g) \union {Set}
        /\ AroundSet(g) \subseteq {Factory}
    BY DEF AroundSet, AroundInformer
  <1>1. CASE AddHandler(g)
    <2>1. /\ at[g] \in Informers /\ Holds(g) = AroundInformer(g)
          /\ entered[g] \in {"factory", "set"}
      BY <1>c, <1>1 DEF AddHandler, Holds, ShapeOf, Asking
    <2>2. /\ owner' = owner /\ entered'[g] = entered[g]
          /\ doing'[g] = "transition" \/ (doing'[g] = "instance" /\ waiting'[g])
      BY <1>1 DEF AddHandler, GoTo, AskFor
    <2>3. Holds(g)' = AroundInformer(g)
      BY <1>b, <2>2 DEF Holds
    <2>4. Keeps(g)
      BY <2>1, <2>2, <2>3 DEF Keeps
    <2> QED BY <1>a, <1>1, <2>1, <2>2, <2>4 DEF Moves, AddHandler, GoTo, AskFor, ShapeOf, Asking
  <1>2. CASE HandlerReturns(g)
    <2>1. /\ Holds(g) = {lock[g], at[g]} \union AroundInformer(g) /\ lock[g] \in Locks
          /\ lock[g] \notin {at[g]} \union AroundInformer(g) /\ at[g] \in Informers
      BY <1>2 DEF HandlerReturns, Holds, ShapeOf, Asking
    <2>2. entered'[g] = entered[g] /\ doing'[g] = "told" /\ at'[g] = at[g]
      BY <1>2 DEF HandlerReturns, GoTo
    <2>3. Holds(g)' = {at[g]} \union AroundInformer(g)
      BY <1>b, <2>2 DEF Holds
    <2>4. Loses(g, lock[g])
      BY <1>2, <2>1, <2>3, OwnLocks DEF Loses, HandlerReturns, Release
    <2> QED BY <1>2, <2>1, <2>2, <2>4 DEF Moves, HandlerReturns, GoTo, ShapeOf, Asking
  <1>3. CASE InformerReturns(g)
    <2>1. Holds(g) = {at[g]} \union AroundInformer(g) /\ at[g] \in Informers
      BY <1>3 DEF InformerReturns, Holds, ShapeOf, Asking
    <2>2. at[g] \notin AroundInformer(g)
      BY <1>a, <2>1 DEF AroundInformer, AroundSet
    <2>3. Holds(g)' = AroundInformer(g)
      <3>1. CASE entered[g] = "informer"
        BY <1>3, <3>1 DEF InformerReturns, GoTo, Holds, AroundInformer
      <3>2. CASE entered[g] # "informer"
        <4>1. doing'[g] = "transition" /\ entered'[g] = entered[g]
          BY <1>3, <3>2 DEF InformerReturns, GoTo
        <4> QED BY <1>b, <4>1 DEF Holds
      <3> QED BY <3>1, <3>2
    <2>4. Loses(g, at[g])
      BY <1>a, <1>3, <2>1, <2>2, <2>3, OwnLocks DEF Loses, InformerReturns, Release
    <2> QED BY <1>a, <1>3, <2>1, <2>4 DEF Moves, InformerReturns, GoTo, ShapeOf, Asking
  <1>4. CASE EndTransition(g)
    <2>1. Holds(g) = AroundSet(g) \union {Set} /\ entered[g] \in {"factory", "set"}
      BY <1>c, <1>4 DEF EndTransition, Holds, ShapeOf, Asking
    <2>2. Holds(g)' = AroundSet(g)
      BY <1>4, <2>1 DEF EndTransition, GoTo, Holds, AroundSet
    <2>3. Loses(g, Set)
      BY <1>a, <1>c, <1>4, <2>1, <2>2, OwnLocks DEF Loses, EndTransition, Release
    <2> QED BY <1>a, <1>4, <2>3 DEF Moves, EndTransition, GoTo, ShapeOf, Asking
  <1>5. CASE \E x \in Informers : NewInformer(g, x) \/ CallInformer(g, x)
    <2> PICK x \in Informers : NewInformer(g, x) \/ CallInformer(g, x) BY <1>5
    <2>1. CASE NewInformer(g, x)
      <3> USE DEF NewInformer, Register, AskFor
      <3>1. Keeps(g)
        BY <2>1 DEF Keeps, Holds, AroundSet, ShapeOf, Asking
      <3> QED BY <1>a, <2>1, <3>1 DEF Moves, ShapeOf, Asking
    <2>2. CASE CallInformer(g, x)
      <3> USE DEF CallInformer, AskFor
      <3>1. Keeps(g)
        BY <1>b, <2>2 DEF Keeps, Holds
      <3> QED BY <1>a, <2>2, <3>1 DEF Moves, ShapeOf, Asking
    <2> QED BY <2>1, <2>2
  <1>6. CASE \E l \in Locks : CallOnDelete(g, l)
    <2> PICK l \in Locks : CallOnDelete(g, l) BY <1>6
    <2>1. at[g] \in Informers /\ lock[g] = at[g]
      BY DEF CallOnDelete, ShapeOf, Asking
    <2>2. Keeps(g)
      BY <1>b, <2>1 DEF Keeps, CallOnDelete, AskFor, Holds
    <2> QED BY <1>a, <2>1, <2>2 DEF Moves, CallOnDelete, AskFor, ShapeOf, Asking
  <1> QED BY <1>1, <1>2, <1>3, <1>4, <1>5, <1>6

LEMMA StepMoves ==
    ASSUME NEW g \in Goroutines, Inv, StepOf(g)
    PROVE  Moves(g) /\ ShapeOf(g)'
  <1>1. TypeOK /\ LocksAreHeld /\ ShapeOf(g)
    BY DEF Inv, Shape
  <1> QED BY <1>1, CallMoves, AcquireMoves, OuterMoves, InnerMoves DEF StepOf, Proceed

-----------------------------------------------------------------------------
(* The invariant.                                                          *)

LEMMA InitInv == Init => Inv
  BY LockAssumption DEF Init, Inv, TypeOK, Shape, ShapeOf, LocksAreHeld, Holds, Places, Asking

LEMMA NextInv == Inv /\ [Next]_vars => Inv'
  <1> SUFFICES ASSUME Inv, [Next]_vars PROVE Inv'
    OBVIOUS
  <1>1. CASE Next
    <2> PICK g \in Goroutines : StepOf(g) BY <1>1 DEF Next, StepOf
    <2>0. TypeOK /\ LocksAreHeld /\ Shape /\ ShapeOf(g) BY DEF Inv, Shape
    <2>1. TypeOK' BY <2>0, TypeStep
    <2>2. \A h \in Goroutines \ {g} : Holds(h)' = Holds(h) BY <2>0, OthersHold
    <2>3. LocksAreHeld' BY <2>0, <2>2, StepMoves, Bookkeeping
    <2>4. \A h \in Goroutines \ {g} : ShapeOf(h)'
      <3> TAKE h \in Goroutines \ {g}
      <3>1. ShapeOf(h) BY <2>0 DEF Shape
      <3>2. /\ doing'[h] = doing[h] /\ lock'[h] = lock[h]
            /\ waiting'[h] = waiting[h] /\ at'[h] = at[h] /\ entered'[h] = entered[h]
        BY <2>0, OthersStay
      <3> QED BY <3>1, <3>2 DEF ShapeOf, AroundInformer, AroundSet
    <2>5. Shape' BY <2>4, StepMoves DEF Shape
    <2> QED BY <2>1, <2>3, <2>5 DEF Inv
  <1>2. CASE UNCHANGED vars
    <2>1. TypeOK' BY <1>2 DEF vars, Inv, TypeOK
    <2>2. Shape'
      <3> SUFFICES ASSUME NEW g \in Goroutines PROVE ShapeOf(g)'
        BY DEF Shape
      <3>1. ShapeOf(g) BY DEF Inv, Shape
      <3> QED BY <1>2, <3>1 DEF vars, ShapeOf, AroundInformer, AroundSet
    <2>3. LocksAreHeld'
      <3>1. \A g \in Goroutines : Holds(g)' = Holds(g)
        BY <1>2 DEF vars, Holds, AroundInformer, AroundSet
      <3> QED BY <1>2, <3>1 DEF vars, Inv, LocksAreHeld
    <2> QED BY <2>1, <2>2, <2>3 DEF Inv
  <1> QED BY <1>1, <1>2

\* Every variable has its type, for any set of handlers.
THEOREM TypeCorrect == Spec => []TypeOK
  <1>1. Inv => TypeOK BY DEF Inv
  <1> QED BY <1>1, InitInv, NextInv, PTL DEF Spec

\* A lock is owned by exactly the goroutine whose place in its call says so: every
\* path of every call (the early returns of ForResource and HasSynced included)
\* releases what it took, and nothing else.
THEOREM ExactOwnership == Spec => []LocksAreHeld
  <1>1. Inv => LocksAreHeld BY DEF Inv
  <1> QED BY <1>1, InitInv, NextInv, PTL DEF Spec

-----------------------------------------------------------------------------
(* No deadlock.                                                            *)

\* Of those who wait, one that holds an informer's lock does so in a handler of that
\* informer, and one that holds the set's is inside it.  None holds a lock of the
\* application, and the factory's is not asked for from inside.
LEMMA WaitingHolder ==
    ASSUME Inv, TameHandlers, NEW g \in Goroutines, waiting[g]
    PROVE  /\ Holds(g) \intersect Mutexes = {}
           /\ \A x \in Informers : x \in Holds(g) => x = at[g] /\ doing[g] = "handler"
           /\ Set \in Holds(g) => doing[g] \in {"instance", "handler"}
           /\ Factory \in Holds(g) =>
                doing[g] \in {"enter", "register", "instance", "handler"}
  <1> USE LockAssumption
  <1>1. ShapeOf(g) /\ TypeOK BY DEF Inv, Shape
  <1>2. doing[g] \in Asking BY <1>1 DEF ShapeOf
  <1>3. AroundSet(g) \subseteq {Factory} /\ AroundInformer(g) \subseteq {Factory, Set}
    BY DEF AroundSet, AroundInformer
  <1>4. CASE doing[g] \in {"short", "initialized", "resource", "set"}
    BY <1>4 DEF Holds
  <1>5. CASE doing[g] \in {"enter", "register"}
    BY <1>3, <1>5 DEF Holds
  <1>6. CASE doing[g] = "instance"
    BY <1>3, <1>6 DEF Holds
  <1>7. CASE doing[g] = "handler"
    <2>1. at[g] \in Informers BY <1>1, <1>7 DEF ShapeOf
    <2> QED BY <1>3, <1>7, <2>1 DEF Holds
  <1> QED BY <1>2, <1>4, <1>5, <1>6, <1>7 DEF Asking

\* What they wait for, by their place.
LEMMA Wanted ==
    ASSUME Inv, TameHandlers, NEW g \in Goroutines, waiting[g]
    PROVE  /\ lock[g] \in Informers \union Mutexes \union {Factory, Set}
           /\ doing[g] \in {"instance", "handler"} => lock[g] \in Informers \union Mutexes
           /\ doing[g] \in {"enter", "register"} => lock[g] = Set
           /\ doing[g] = "handler" =>
                /\ at[g] \in Informers
                /\ lock[g] \in OnDelete[at[g]]
                /\ lock[g] # at[g]
                /\ Set \in Holds(g) \/ at[g] \in Direct
  <1> USE LockAssumption
  <1>1. ShapeOf(g) /\ TypeOK BY DEF Inv, Shape
  <1>2. lock[g] \in Locks /\ doing[g] \in Asking BY <1>1 DEF ShapeOf
  <1>3. CASE doing[g] = "handler"
    <2>1. /\ at[g] \in Informers /\ lock[g] \in OnDelete[at[g]]
          /\ entered[g] \in {"factory", "set"} \/ at[g] \in Direct
      BY <1>1, <1>3 DEF ShapeOf
    <2>2. entered[g] \in {"factory", "set"} => Set \in Holds(g)
      BY <1>3 DEF Holds, AroundInformer
    <2>3. lock[g] \in (Informers \ {at[g]}) \union Mutexes
      BY <2>1 DEF TameHandlers
    <2> QED BY <1>3, <2>1, <2>2, <2>3
  <1>4. CASE doing[g] = "instance"
    BY <1>1, <1>4 DEF ShapeOf
  <1>5. CASE doing[g] \in {"enter", "register"}
    BY <1>1, <1>5 DEF ShapeOf
  <1>6. CASE doing[g] \in {"short", "initialized", "resource", "set"}
    BY <1>2, <1>6 DEF Locks
  <1> QED BY <1>2, <1>3, <1>4, <1>5, <1>6 DEF Asking

\* Follow, among informers, "the handler of x waits for informer y".  A set from
\* which this never leads out, and of which one informer at most is not direct, has
\* no first informer in the order.
LEMMA NoCircle ==
    ASSUME TameHandlers, NEW held \in SUBSET Informers, NEW odd,
           \A x \in held : x \in Direct \/ x = odd,
           \A x \in held : \E y \in held : y # x /\ y \in OnDelete[x]
    PROVE  held = {}
  <1> SUFFICES ASSUME held # {} PROVE FALSE
    OBVIOUS
  <1>1. PICK before \in Orders :
          \A x \in Informers : \A y \in OnDelete[x] \intersect Informers :
             IF x \in Direct THEN <<y, x>> \in before ELSE <<x, y>> \notin before
    BY DEF TameHandlers
  <1>2. ASSUME NEW some \in SUBSET held, some # {}
        PROVE  \E x \in some : \A y \in some : <<y, x>> \notin before
    BY <1>1, <1>2 DEF Orders
  <1>3. \A x, y, z \in held : <<x, y>> \in before /\ <<y, z>> \in before => <<x, z>> \in before
    BY <1>1 DEF Orders
  <1>4. CASE held \subseteq Direct
    <2>1. PICK x \in held : \A y \in held : <<y, x>> \notin before BY <1>2
    <2>2. PICK y \in held : y \in OnDelete[x] OBVIOUS
    <2> QED BY <1>1, <1>4, <2>1, <2>2
  <1>5. CASE ~(held \subseteq Direct)
    <2>1. odd \in held /\ odd \notin Direct BY <1>5
    <2>2. PICK first \in held : first # odd /\ first \in OnDelete[odd] BY <2>1
    <2>3. <<odd, first>> \notin before BY <1>1, <2>1, <2>2
    \* From the informer that it waits for one never comes back to it.
    <2> DEFINE after == {x \in held : x = first \/ <<x, first>> \in before}
    <2>4. PICK x \in after : \A y \in after : <<y, x>> \notin before
      <3>1. after \in SUBSET held /\ first \in after OBVIOUS
      <3> QED BY <1>2, <3>1
    <2>5. x # odd BY <2>2, <2>3
    <2>6. PICK y \in held : y \in OnDelete[x] OBVIOUS
    <2>7. <<y, x>> \in before BY <1>1, <2>5, <2>6
    <2>8. y \in after BY <1>3, <2>7
    <2> QED BY <2>4, <2>7, <2>8
  <1> QED BY <1>4, <1>5

LEMMA DeadlockFree == Inv /\ TameHandlers => NoDeadlock
  <1> SUFFICES ASSUME Inv, TameHandlers, NEW group \in SUBSET Goroutines, group # {},
                      \A g \in group : \E h \in group : WaitsFor(g, h)
               PROVE  FALSE
    BY DEF NoDeadlock
  <1> USE LockAssumption
  <1>0. \A g \in group : waiting[g] /\ g \in Goroutines
    BY DEF WaitsFor
  \* Each waits for a lock that another member of the group holds.
  <1>1. ASSUME NEW g \in group
        PROVE  \E h \in group : lock[g] \in Holds(h)
    <2>1. PICK h \in group : owner[lock[g]] = h BY DEF WaitsFor
    <2>2. lock[g] \in Locks BY <1>0, Wanted DEF Locks
    <2> QED BY <1>0, <2>1, <2>2, OwnLocks DEF Inv
  <1>2. \A g \in group : lock[g] \notin Mutexes
    BY <1>0, <1>1, WaitingHolder
  \* The set has one owner.
  <1>3. \A g, h \in group : Set \in Holds(g) /\ Set \in Holds(h) => g = h
    <2>1. Set \in Locks BY DEF Locks
    <2> QED BY <1>0, <2>1, OwnLocks DEF Inv
  \* Who waits in a handler waits for an informer whose handler waits.
  <1> DEFINE inside == {g \in group : doing[g] = "handler"}
             held == {at[g] : g \in inside}
  <1>4. ASSUME NEW g \in group, lock[g] \in Informers
        PROVE  lock[g] \in held
    <2>1. PICK h \in group : lock[g] \in Holds(h) BY <1>1
    <2> QED BY <1>0, <1>4, <2>1, WaitingHolder
  <1>5. held = {}
    <2>1. PICK odd : \A g \in inside : Set \in Holds(g) => at[g] = odd
      <3>1. CASE \E g \in inside : Set \in Holds(g)
        <4> PICK s \in inside : Set \in Holds(s) BY <3>1
        <4>1. \A g \in inside : Set \in Holds(g) => at[g] = at[s] BY <1>3
        <4> QED BY <4>1
      <3>2. CASE ~\E g \in inside : Set \in Holds(g)
        BY <3>2
      <3> QED BY <3>1, <3>2
    <2>2. held \in SUBSET Informers
      BY <1>0, Wanted
    <2>3. \A x \in held : x \in Direct \/ x = odd
      BY <1>0, <2>1, Wanted
    <2>4. ASSUME NEW x \in held
          PROVE  \E y \in held : y # x /\ y \in OnDelete[x]
      <3>1. PICK g \in inside : x = at[g] BY <2>4
      <3>2. /\ lock[g] \in Informers /\ lock[g] # x /\ lock[g] \in OnDelete[x]
        BY <1>0, <1>2, <3>1, Wanted
      <3> QED BY <1>4, <3>2
    <2> HIDE DEF held
    <2> QED BY <2>2, <2>3, <2>4, NoCircle
  <1>6. \A g \in group : lock[g] \notin Informers
    BY <1>4, <1>5
  <1>7. \A g \in group : doing[g] \notin {"instance", "handler"}
    BY <1>0, <1>2, <1>6, Wanted
  \* Nobody in the group holds the set's lock, so none waits for it.
  <1>8. \A g \in group : lock[g] # Set
    BY <1>0, <1>1, <1>7, WaitingHolder
  <1>9. \A g \in group : lock[g] = Factory
    BY <1>0, <1>2, <1>6, <1>8, Wanted
  <1>10. PICK g \in group : TRUE OBVIOUS
  <1>11. PICK h \in group : lock[g] \in Holds(h) BY <1>1
  <1>12. doing[h] \in {"enter", "register"}
    BY <1>0, <1>7, <1>9, <1>11, WaitingHolder
  <1> QED BY <1>0, <1>8, <1>12, Wanted

\* No calls of the modelled ones, however many goroutines make them, at the factory,
\* at its set or at its informers, ever wait for each other only, if the application's
\* handlers are tame and it holds no lock of its own around a call of the library.
THEOREM NeverDeadlocked ==
    ASSUME TameHandlers
    PROVE  Spec => []NoDeadlock
  <1>1. Inv => NoDeadlock BY DeadlockFree
  <1> QED BY <1>1, InitInv, NextInv, PTL DEF Spec
=============================================================================
