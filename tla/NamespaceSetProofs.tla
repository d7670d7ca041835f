------------------------- MODULE NamespaceSetProofs -------------------------
(***************************************************************************)
(* Proofs about NamespaceSet, for any names and any number of handlers.    *)
(*                                                                         *)
(* The invariants of NamespaceSet are not inductive: they say nothing of   *)
(* how far a loop has come.  Inv does: `Holds' tells, from the position in *)
(* the loops, exactly which names the j-th handler follows.  All the       *)
(* safety properties are consequences of it.                               *)
(***************************************************************************)
EXTENDS NamespaceSet, TLAPS

\* The loop has not yet called the j-th handler for ns.
Waiting(j, ns) == ns \in pending /\ ~(ns = current /\ j <= called)

\* The j-th handler follows ns.
Holds(j, ns) ==
    \/ phase = "idle"        /\ ns \in Elements(namespaces)
    \/ phase = "removing"    /\ ns \in Elements(namespaces)
                             /\ (ns \in Elements(target) \/ Waiting(j, ns))
    \/ phase = "adding"      /\ ns \in Elements(target)
                             /\ (ns \in Elements(namespaces) \/ ~Waiting(j, ns))
    \/ phase = "registering" /\ ns \in Elements(namespaces)
                             /\ (j < Len(handlers) \/ ns \notin pending)

\* NamespaceAll is never beside another name.
Normal(s) == All \in Elements(s) => s = {All}

HandlersDistinct ==
    \A j, k \in 1..Len(handlers) : handlers[j] = handlers[k] => j = k

BalanceFollows ==
    /\ \A j \in 1..Len(handlers), ns \in Namespaces :
          balance[handlers[j]][ns] = IF Holds(j, ns) THEN 1 ELSE 0
    /\ \A h \in Handlers \ Registered, ns \in Namespaces : balance[h][ns] = 0

PendingBounds ==
    /\ phase = "idle" => pending = {} /\ called = 0
    /\ phase = "removing" => pending \subseteq Difference(namespaces, target)
    /\ phase = "adding" => pending \subseteq Difference(target, namespaces)
    /\ phase = "registering" => /\ pending \subseteq Elements(namespaces)
                                /\ called = 0
                                /\ handlers # <<>>

Inv ==
    /\ TypeOK
    /\ Normal(namespaces) /\ Normal(target)
    /\ HandlersDistinct
    /\ PendingBounds
    /\ BalanceFollows

-----------------------------------------------------------------------------
(* Facts about the set operators.                                          *)

\* What Normalize returns is a set of names or nil, and is normal.
LEMMA NormalizeNormal ==
    ASSUME NEW s \in Sets
    PROVE  Normalize(s) \in Sets /\ Normal(Normalize(s))
  BY NamespaceSetAssumption DEF Normalize, Normal, Elements, Sets

\* The elements of a set, nil or not, are names.
LEMMA ElementsSubset ==
    ASSUME NEW s \in Sets
    PROVE  Elements(s) \subseteq Namespaces
  BY DEF Elements, Sets

-----------------------------------------------------------------------------
(* Inv is inductive.                                                       *)

LEMMA InitInv == Init => Inv
<1> SUFFICES ASSUME Init PROVE Inv
  OBVIOUS
<1>1. namespaces \in Sets /\ Normal(namespaces)
  BY NormalizeNormal DEF Init
<1>2. Normal(target) /\ target \in Sets
  BY NamespaceSetAssumption DEF Init, Normal, Elements, Sets
<1>3. TypeOK
  BY <1>1, <1>2, NamespaceSetAssumption DEF Init, TypeOK, Phases
<1>4. HandlersDistinct /\ PendingBounds
  BY DEF Init, HandlersDistinct, PendingBounds
<1>5. BalanceFollows
  BY DEF Init, BalanceFollows, Registered
<1> QED
  BY <1>1, <1>2, <1>3, <1>4, <1>5 DEF Inv

\* Taking the lock for SetNamespaces.
LEMMA SetNamespacesInv ==
    ASSUME Inv, NEW s \in Sets, SetNamespaces(s)
    PROVE  Inv'
<1> USE DEF Inv, SetNamespaces
<1>1. target' \in Sets /\ Normal(target)'
  BY NormalizeNormal DEF Normal, Elements
<1>2. pending' \subseteq Namespaces
  BY ElementsSubset DEF TypeOK, Difference
<1>3. TypeOK'
  BY <1>1, <1>2 DEF TypeOK, Phases, PendingBounds
<1>4. Normal(namespaces)' /\ HandlersDistinct'
  BY DEF Normal, Elements, HandlersDistinct
<1>5. PendingBounds'
  BY DEF PendingBounds, Difference, Elements
<1>6. BalanceFollows'
  BY DEF BalanceFollows, Holds, Waiting, PendingBounds, Registered, Difference,
         Elements, TypeOK
<1> QED
  BY <1>1, <1>3, <1>4, <1>5, <1>6

\* One handler call of a loop keeps types and bounds.
LEMMA AdvanceTypes ==
    ASSUME Inv, NEW ns \in Namespaces, Advance(ns),
           NEW n \in {-1, 1}, Notify(handlers[called + 1], ns, n)
    PROVE  /\ TypeOK'
           /\ called + 1 \in 1..Len(handlers)
           /\ HandlersDistinct'
           /\ pending' \subseteq pending
<1>1. called + 1 \in 1..Len(handlers)
  BY DEF Inv, TypeOK, Advance
<1>2. pending' \subseteq pending
  BY DEF Advance
<1>3. balance' \in [Handlers -> [Namespaces -> Int]]
  BY <1>1 DEF Inv, TypeOK, Notify
<1>4. /\ namespaces' \in Sets /\ handlers' \in Seq(Handlers)
      /\ phase' \in Phases /\ target' \in Sets /\ pending' \in SUBSET Namespaces
  BY <1>2 DEF Inv, TypeOK, Advance, Sets, Phases
<1>5. /\ current' \in Namespaces /\ called' \in Nat
      /\ called' > 0 => current' \in pending' /\ called' < Len(handlers')
  <2>1. CASE called + 1 = Len(handlers)
    BY <2>1, NamespaceSetAssumption DEF Advance
  <2>2. CASE called + 1 # Len(handlers)
    BY <1>1, <2>2 DEF Inv, TypeOK, Advance
  <2> QED
    BY <2>1, <2>2
<1>6. TypeOK'
  BY <1>3, <1>4, <1>5 DEF TypeOK, Sets, Phases
<1>7. HandlersDistinct'
  BY DEF Inv, HandlersDistinct, Advance
<1> QED
  BY <1>1, <1>2, <1>6, <1>7

\* Which handlers still wait after one handler call: the others, as before.
LEMMA AdvanceWaiting ==
    ASSUME Inv, NEW ns \in Namespaces, Advance(ns)
    PROVE  \A j \in 1..Len(handlers), m \in Namespaces :
             /\ Waiting(called + 1, ns)
             /\ Waiting(j, m)' <=> Waiting(j, m) /\ ~(m = ns /\ j = called + 1)
<1>1. SUFFICES ASSUME NEW j \in 1..Len(handlers), NEW m \in Namespaces
               PROVE  /\ Waiting(called + 1, ns)
                      /\ Waiting(j, m)' <=> Waiting(j, m) /\ ~(m = ns /\ j = called + 1)
  OBVIOUS
<1>2. CASE called + 1 = Len(handlers)
  BY <1>2 DEF Inv, TypeOK, Advance, Waiting
<1>3. CASE called + 1 # Len(handlers)
  BY <1>3 DEF Inv, TypeOK, Advance, Waiting
<1> QED
  BY <1>2, <1>3

\* The balance after a handler call differs only for that handler and name.
LEMMA NotifyBalance ==
    ASSUME Inv, NEW k \in 1..Len(handlers), NEW ns \in Namespaces, NEW n \in {-1, 1},
           Notify(handlers[k], ns, n)
    PROVE  /\ \A j \in 1..Len(handlers), m \in Namespaces :
                balance'[handlers[j]][m] =
                  IF j = k /\ m = ns THEN balance[handlers[j]][m] + n
                                    ELSE balance[handlers[j]][m]
           /\ \A h \in Handlers \ Registered : balance'[h] = balance[h]
  BY DEF Inv, TypeOK, Notify, HandlersDistinct, Registered

LEMMA CallOnRemoveInv ==
    ASSUME Inv, NEW ns \in Namespaces, CallOnRemove(ns)
    PROVE  Inv'
<1> USE DEF CallOnRemove
<1>1. /\ TypeOK' /\ HandlersDistinct' /\ called + 1 \in 1..Len(handlers)
      /\ pending' \subseteq pending
  BY AdvanceTypes
<1>2. UNCHANGED <<namespaces, handlers, phase, target>> /\ ns \in pending
  BY DEF Advance
<1>3. Normal(namespaces)' /\ Normal(target)'
  BY <1>2 DEF Inv, Normal, Elements
<1>4. PendingBounds'
  BY <1>1, <1>2 DEF Inv, PendingBounds, Difference, Elements
<1>5. ns \in Elements(namespaces) /\ ns \notin Elements(target)
  BY <1>2 DEF Inv, PendingBounds, Difference
<1>6. BalanceFollows'
  <2>1. ASSUME NEW j \in 1..Len(handlers), NEW m \in Namespaces
        PROVE  balance'[handlers[j]][m] = IF Holds(j, m)' THEN 1 ELSE 0
    <3>1. Holds(j, m)' <=> Holds(j, m) /\ ~(m = ns /\ j = called + 1)
      BY <1>2, <1>5, AdvanceWaiting DEF Holds, Elements
    <3>2. Holds(called + 1, ns)
      BY <1>1, <1>5, AdvanceWaiting DEF Holds
    <3> QED
      BY <1>1, <3>1, <3>2, NotifyBalance DEF Inv, BalanceFollows
  <2>2. \A h \in Handlers \ Registered, m \in Namespaces : balance'[h][m] = 0
    BY <1>1, NotifyBalance DEF Inv, BalanceFollows
  <2> QED
    BY <1>2, <2>1, <2>2 DEF BalanceFollows, Registered
<1> QED
  BY <1>1, <1>3, <1>4, <1>6 DEF Inv

LEMMA CallOnAddInv ==
    ASSUME Inv, NEW ns \in Namespaces, CallOnAdd(ns)
    PROVE  Inv'
<1> USE DEF CallOnAdd
<1>1. /\ TypeOK' /\ HandlersDistinct' /\ called + 1 \in 1..Len(handlers)
      /\ pending' \subseteq pending
  BY AdvanceTypes
<1>2. UNCHANGED <<namespaces, handlers, phase, target>> /\ ns \in pending
  BY DEF Advance
<1>3. Normal(namespaces)' /\ Normal(target)'
  BY <1>2 DEF Inv, Normal, Elements
<1>4. PendingBounds'
  BY <1>1, <1>2 DEF Inv, PendingBounds, Difference, Elements
<1>5. ns \in Elements(target) /\ ns \notin Elements(namespaces)
  BY <1>2 DEF Inv, PendingBounds, Difference
<1>6. BalanceFollows'
  <2>1. ASSUME NEW j \in 1..Len(handlers), NEW m \in Namespaces
        PROVE  balance'[handlers[j]][m] = IF Holds(j, m)' THEN 1 ELSE 0
    <3>1. Holds(j, m)' <=> Holds(j, m) \/ (m = ns /\ j = called + 1)
      BY <1>2, <1>5, AdvanceWaiting DEF Holds, Elements
    <3>2. ~Holds(called + 1, ns)
      BY <1>1, <1>5, AdvanceWaiting DEF Holds
    <3> QED
      BY <1>1, <3>1, <3>2, NotifyBalance DEF Inv, BalanceFollows
  <2>2. \A h \in Handlers \ Registered, m \in Namespaces : balance'[h][m] = 0
    BY <1>1, NotifyBalance DEF Inv, BalanceFollows
  <2> QED
    BY <1>2, <2>1, <2>2 DEF BalanceFollows, Registered
<1> QED
  BY <1>1, <1>3, <1>4, <1>6 DEF Inv

LEMMA StartAddingInv ==
    ASSUME Inv, StartAdding
    PROVE  Inv'
<1> USE DEF Inv, StartAdding
<1>1. TypeOK'
  <2>1. pending' \subseteq Namespaces
    BY ElementsSubset DEF TypeOK, Difference
  <2>2. called = 0
    BY DEF TypeOK, LoopDone
  <2> QED
    BY <2>1, <2>2 DEF TypeOK, Phases, Sets
<1>2. Normal(namespaces)' /\ Normal(target)' /\ HandlersDistinct' /\ PendingBounds'
  BY DEF Normal, Elements, HandlersDistinct, PendingBounds, Difference
<1>3. BalanceFollows'
  <2>1. CASE handlers = <<>>
    BY <2>1 DEF BalanceFollows, Registered
  <2>2. CASE pending = {} /\ handlers # <<>>
    <3>1. called = 0
      BY <2>2 DEF TypeOK
    <3>2. \A j \in 1..Len(handlers), m \in Namespaces : Holds(j, m)' <=> Holds(j, m)
      BY <2>2, <3>1 DEF Holds, Waiting, Difference, Elements
    <3> QED
      BY <3>2 DEF BalanceFollows, Registered
  <2> QED
    BY <2>1, <2>2 DEF LoopDone
<1> QED
  BY <1>1, <1>2, <1>3

LEMMA FinishSetInv ==
    ASSUME Inv, FinishSet
    PROVE  Inv'
<1> USE DEF Inv, FinishSet
<1>1. called = 0
  BY DEF TypeOK, LoopDone
<1>2. TypeOK'
  BY <1>1 DEF TypeOK, Phases, Sets
<1>3. Normal(namespaces)' /\ Normal(target)'
  BY NamespaceSetAssumption DEF Normal, Elements
<1>4. HandlersDistinct' /\ PendingBounds'
  BY <1>1 DEF HandlersDistinct, PendingBounds
<1>5. BalanceFollows'
  <2>1. CASE handlers = <<>>
    BY <2>1 DEF BalanceFollows, Registered
  <2>2. CASE pending = {}
    <3>1. \A j \in 1..Len(handlers), m \in Namespaces : Holds(j, m)' <=> Holds(j, m)
      BY <2>2 DEF Holds, Waiting, Elements
    <3> QED
      BY <3>1 DEF BalanceFollows, Registered
  <2> QED
    BY <2>1, <2>2 DEF LoopDone
<1> QED
  BY <1>2, <1>3, <1>4, <1>5

LEMMA AddHandlerInv ==
    ASSUME Inv, NEW h \in Handlers, AddHandler(h)
    PROVE  Inv'
<1> USE DEF Inv, AddHandler
<1>1. /\ handlers' \in Seq(Handlers)
      /\ Len(handlers') = Len(handlers) + 1
      /\ handlers'[Len(handlers')] = h
      /\ \A j \in 1..Len(handlers) : handlers'[j] = handlers[j]
  BY DEF TypeOK
<1>2. called = 0
  BY DEF PendingBounds
<1>3. TypeOK'
  BY <1>1, <1>2, ElementsSubset DEF TypeOK, Phases, Sets
<1>4. Normal(namespaces)' /\ Normal(target)'
  BY DEF Normal, Elements
<1>5. HandlersDistinct'
  BY <1>1 DEF HandlersDistinct, Registered, TypeOK
<1>6. PendingBounds'
  BY <1>1, <1>2 DEF PendingBounds, TypeOK, Elements
<1>7. Registered' = Registered \union {h}
  <2>1. Len(handlers) \in Nat
    BY DEF TypeOK
  <2>2. \A j \in 1..Len(handlers') : handlers'[j] \in Registered \union {h}
    BY <1>1, <2>1 DEF Registered
  <2>3. Registered \subseteq Registered'
    BY <1>1, <2>1 DEF Registered
  <2>4. h \in Registered'
    BY <1>1, <2>1 DEF Registered
  <2> QED
    BY <2>2, <2>3, <2>4 DEF Registered
<1>8. BalanceFollows'
  <2>1. ASSUME NEW j \in 1..Len(handlers), NEW m \in Namespaces
        PROVE  balance'[handlers'[j]][m] = IF Holds(j, m)' THEN 1 ELSE 0
    BY <1>1 DEF BalanceFollows, Holds, TypeOK, Elements
  <2>2. ASSUME NEW m \in Namespaces
        PROVE  balance'[h][m] = 0 /\ ~Holds(Len(handlers), m)'
    <3>1. balance'[h][m] = 0
      BY DEF BalanceFollows
    <3>2. ~Holds(Len(handlers), m)'
      BY <1>1, <1>2 DEF Holds, Elements, TypeOK
    <3> QED
      BY <3>1, <3>2
  <2>3. ASSUME NEW j \in 1..Len(handlers'), NEW m \in Namespaces
        PROVE  balance'[handlers'[j]][m] = IF Holds(j, m)' THEN 1 ELSE 0
    <3>1. CASE j \in 1..Len(handlers)
      BY <2>1, <3>1
    <3>2. CASE j = Len(handlers')
      BY <1>1, <2>2, <3>2
    <3> QED
      BY <1>1, <3>1, <3>2 DEF TypeOK
  <2>4. \A g \in Handlers \ Registered', m \in Namespaces : balance'[g][m] = 0
    BY <1>7 DEF BalanceFollows
  <2> QED
    BY <2>3, <2>4 DEF BalanceFollows
<1> QED
  BY <1>3, <1>4, <1>5, <1>6, <1>8

LEMMA CallRegisteredInv ==
    ASSUME Inv, NEW ns \in Namespaces, CallRegistered(ns)
    PROVE  Inv'
<1> USE DEF CallRegistered
<1> DEFINE k == Len(handlers)
<1>1. k \in 1..Len(handlers) /\ called = 0
  BY DEF Inv, TypeOK, PendingBounds
<1>2. TypeOK'
  BY <1>1 DEF Inv, TypeOK, Notify, Sets, Phases
<1>3. Normal(namespaces)' /\ Normal(target)' /\ HandlersDistinct' /\ PendingBounds'
  BY DEF Inv, Normal, Elements, HandlersDistinct, PendingBounds
<1>4. BalanceFollows'
  <2>1. ASSUME NEW j \in 1..Len(handlers), NEW m \in Namespaces
        PROVE  balance'[handlers[j]][m] = IF Holds(j, m)' THEN 1 ELSE 0
    <3>1. Holds(j, m)' <=> Holds(j, m) \/ (m = ns /\ j = k)
      BY <1>1 DEF Holds, Inv, PendingBounds, Elements, TypeOK
    <3>2. ~Holds(k, ns)
      BY <1>1 DEF Holds
    <3> QED
      BY <1>1, <3>1, <3>2, NotifyBalance DEF Inv, BalanceFollows
  <2>2. \A h \in Handlers \ Registered, m \in Namespaces : balance'[h][m] = 0
    BY <1>1, NotifyBalance DEF Inv, BalanceFollows
  <2> QED
    BY <2>1, <2>2 DEF BalanceFollows, Registered
<1> QED
  BY <1>2, <1>3, <1>4 DEF Inv

LEMMA FinishRegisterInv ==
    ASSUME Inv, FinishRegister
    PROVE  Inv'
<1> USE DEF Inv, FinishRegister
<1>1. TypeOK' /\ HandlersDistinct' /\ Normal(namespaces)' /\ Normal(target)'
  BY DEF TypeOK, Phases, Sets, HandlersDistinct, Normal, Elements
<1>2. PendingBounds'
  BY DEF PendingBounds
<1>3. BalanceFollows'
  BY DEF BalanceFollows, Holds, Registered, Elements
<1> QED
  BY <1>1, <1>2, <1>3

\* Every step keeps Inv.
LEMMA NextInv == Inv /\ [Next]_vars => Inv'
<1> SUFFICES ASSUME Inv, [Next]_vars PROVE Inv'
  OBVIOUS
<1>1. CASE \E s \in Sets : SetNamespaces(s)
  BY <1>1, SetNamespacesInv
<1>2. CASE \E h \in Handlers : AddHandler(h)
  BY <1>2, AddHandlerInv
<1>3. CASE \E ns \in Namespaces : CallOnRemove(ns) \/ CallOnAdd(ns) \/ CallRegistered(ns)
  BY <1>3, CallOnRemoveInv, CallOnAddInv, CallRegisteredInv
<1>4. CASE StartAdding \/ FinishSet \/ FinishRegister
  BY <1>4, StartAddingInv, FinishSetInv, FinishRegisterInv
<1>5. CASE UNCHANGED vars
  BY <1>5 DEF vars, call, Inv, TypeOK, Sets, Phases, Normal, Elements, HandlersDistinct,
              PendingBounds, Difference, BalanceFollows, Holds, Waiting, Registered
<1> QED
  BY <1>1, <1>2, <1>3, <1>4, <1>5 DEF Next, Proceed

\* Inv holds in every state of every behaviour of the code.
THEOREM Invariance == Spec => []Inv
<1> QED
  BY InitInv, NextInv, PTL DEF Spec

-----------------------------------------------------------------------------
(* What Inv says of the views.                                             *)

\* The j-th handler's view is the set of names it holds; others see nothing.
LEMMA Views ==
    ASSUME Inv
    PROVE  /\ \A j \in 1..Len(handlers) :
                View(handlers[j]) = {ns \in Namespaces : Holds(j, ns)}
           /\ \A h \in Handlers \ Registered : View(h) = {}
  BY DEF Inv, BalanceFollows, View

\* The type invariant.
THEOREM TypeCorrect == Spec => []TypeOK
<1>1. Inv => TypeOK
  BY DEF Inv
<1> QED
  BY <1>1, Invariance, PTL

\* A handler has had one more OnAdd than OnRemove for a name, or as many.
LEMMA InvAlternates == Inv => CallsAlternate
<1> SUFFICES ASSUME Inv, NEW h \in Handlers, NEW ns \in Namespaces
             PROVE  balance[h][ns] \in {0, 1}
  BY DEF CallsAlternate
<1>1. CASE h \in Registered
  <2>1. PICK j \in 1..Len(handlers) : handlers[j] = h
    BY <1>1 DEF Registered
  <2> QED
    BY <2>1 DEF Inv, BalanceFollows
<1>2. CASE h \notin Registered
  BY <1>2 DEF Inv, BalanceFollows
<1> QED
  BY <1>1, <1>2

\* OnAdd and OnRemove alternate at every handler, for every name.
THEOREM Alternation == Spec => []CallsAlternate
  BY InvAlternates, Invariance, PTL

\* When the lock is free the handlers follow the stored set.
LEMMA InvAgree == Inv => HandlersAgree
<1> SUFFICES ASSUME Inv, phase = "idle", NEW j \in 1..Len(handlers)
             PROVE  View(handlers[j]) = List
  BY DEF HandlersAgree, Registered
<1>1. namespaces \in Sets
  BY DEF Inv, TypeOK
<1>2. \A ns \in Namespaces : Holds(j, ns) <=> ns \in Elements(namespaces)
  BY DEF Holds
<1>3. View(handlers[j]) = {ns \in Namespaces : ns \in Elements(namespaces)}
  BY <1>2, Views
<1> QED
  BY <1>1, <1>3, ElementsSubset DEF List

\* Whenever the lock is free, every handler follows exactly the stored set.
THEOREM Agreement == Spec => []HandlersAgree
  BY InvAgree, Invariance, PTL

\* No view has NamespaceAll beside another name, wherever the loops are.
LEMMA InvExclusive == Inv => AllIsExclusive
<1> SUFFICES ASSUME Inv, NEW h \in Handlers, All \in View(h)
             PROVE  View(h) = {All}
  BY DEF AllIsExclusive
<1>1. PICK j \in 1..Len(handlers) : handlers[j] = h
  BY Views DEF Registered
<1>2. View(h) = {ns \in Namespaces : Holds(j, ns)}
  BY <1>1, Views
<1>3. Holds(j, All)
  BY <1>2
<1>4. Normal(namespaces) /\ Normal(target) /\ PendingBounds
  BY DEF Inv
<1>5. \A ns \in Namespaces : Holds(j, ns) => ns = All
  <2>1. CASE phase \in {"idle", "registering"}
    BY <1>3, <1>4, <2>1, NamespaceSetAssumption DEF Holds, Normal, Elements
  <2>2. CASE phase = "removing"
    BY <1>3, <1>4, <2>2, NamespaceSetAssumption DEF Holds, Normal, Elements
  <2>3. CASE phase = "adding"
    BY <1>3, <1>4, <2>3, NamespaceSetAssumption DEF Holds, Normal, Elements
  <2> QED
    BY <2>1, <2>2, <2>3 DEF Inv, TypeOK, Phases
<1> QED
  BY <1>2, <1>3, <1>5, NamespaceSetAssumption

\* A handler that follows NamespaceAll follows nothing else, at every moment.
THEOREM Exclusiveness == Spec => []AllIsExclusive
  BY InvExclusive, Invariance, PTL

\* Within a transition a handler follows part of the old or of the new set, and
\* all the names that stay.
THEOREM CleanTransition == Spec => []TransitionIsClean
<1>1. Inv => TransitionIsClean
  <2> SUFFICES ASSUME Inv, phase \in {"removing", "adding"}, NEW j \in 1..Len(handlers)
               PROVE  /\ \/ View(handlers[j]) \subseteq Elements(namespaces)
                         \/ View(handlers[j]) \subseteq Elements(target)
                      /\ Elements(namespaces) \intersect Elements(target)
                           \subseteq View(handlers[j])
    BY DEF TransitionIsClean, Registered
  <2>1. View(handlers[j]) = {ns \in Namespaces : Holds(j, ns)}
    BY Views
  <2>2. Elements(namespaces) \subseteq Namespaces
    BY ElementsSubset DEF Inv, TypeOK
  <2> QED
    BY <2>1, <2>2 DEF Holds
<1> QED
  BY <1>1, Invariance, PTL

-----------------------------------------------------------------------------
(* NamespaceSet implements AtomicNamespaceSet.                             *)

\* What the views of the abstract set are while the lock is free.
LEMMA IdleViews ==
    Inv /\ phase = "idle" =>
        CommittedViews = [h \in Handlers |->
                            IF h \in Registered THEN Elements(namespaces) ELSE {}]
<1> SUFFICES ASSUME Inv, phase = "idle"
             PROVE  CommittedViews = [h \in Handlers |->
                               IF h \in Registered THEN Elements(namespaces) ELSE {}]
  OBVIOUS
<1>1. ASSUME NEW h \in Handlers
      PROVE  View(h) = IF h \in Registered THEN Elements(namespaces) ELSE {}
  BY InvAgree, Views DEF HandlersAgree, List
<1> QED
  BY <1>1 DEF CommittedViews

LEMMA IdleViewsNext ==
    (Inv /\ phase = "idle" =>
        CommittedViews = [h \in Handlers |->
                            IF h \in Registered THEN Elements(namespaces) ELSE {}])'
  BY IdleViews, PTL

LEMMA InitRefines == Init => Atomic!Init
<1> SUFFICES ASSUME Init PROVE Atomic!Init
  OBVIOUS
<1>1. Inv /\ Registered = {} /\ Committed = {}
  BY InitInv DEF Init, Registered, Committed
<1>2. CommittedViews = [h \in Handlers |-> {}]
  BY <1>1, IdleViews DEF Init
<1> QED
  BY <1>1, <1>2 DEF Init, Atomic!Init, Atomic!Normalize, Atomic!Elements, Atomic!Sets,
                    Normalize, Elements, Sets

\* FinishSet is the atomic Set.
LEMMA FinishSetRefines ==
    ASSUME Inv, Inv', FinishSet
    PROVE  Atomic!Set(target) /\ target \in Atomic!Sets
<1>1. Atomic!Normalize(target) = target /\ target \in Atomic!Sets
  BY DEF Inv, TypeOK, Normal, Elements, Sets, Atomic!Normalize, Atomic!Elements, Atomic!Sets
<1>2. Committed' = Committed /\ Committed = Registered /\ Registered' = Registered
  BY DEF FinishSet, Committed, Registered
<1>3. CommittedViews' = [h \in Handlers |->
                          IF h \in Registered' THEN Elements(namespaces)' ELSE {}]
  BY IdleViewsNext DEF FinishSet
<1>4. CommittedViews = [h \in Handlers |->
                          IF h \in Committed THEN Elements(namespaces) ELSE {}]
  BY DEF CommittedViews, FinishSet
<1> QED
  BY <1>1, <1>2, <1>3, <1>4 DEF FinishSet, Atomic!Set, Atomic!Elements, Elements

\* FinishRegister is the atomic Register.
LEMMA FinishRegisterRefines ==
    ASSUME Inv, Inv', FinishRegister
    PROVE  \E h \in Handlers : Atomic!Register(h)
<1> DEFINE h == handlers[Len(handlers)]
<1>1. Len(handlers) \in 1..Len(handlers) /\ h \in Handlers
  BY DEF Inv, TypeOK, PendingBounds, FinishRegister
<1>2. h \notin Committed /\ Committed' = Committed \union {h} /\ Committed' = Registered'
  <2>1. h \notin Committed
    BY <1>1 DEF FinishRegister, Committed, Inv, HandlersDistinct
  <2>2. Registered = {handlers[j] : j \in 1..(Len(handlers) - 1)} \union {h}
    BY <1>1 DEF Registered
  <2> QED
    BY <2>1, <2>2 DEF FinishRegister, Committed, Registered
<1>3. CommittedViews' = [g \in Handlers |->
                          IF g \in Registered' THEN Elements(namespaces)' ELSE {}]
  BY IdleViewsNext DEF FinishRegister
<1>4. CommittedViews = [g \in Handlers |->
                          IF g \in Committed THEN Elements(namespaces) ELSE {}]
  BY DEF CommittedViews, FinishRegister
<1> QED
  BY <1>1, <1>2, <1>3, <1>4
     DEF FinishRegister, Atomic!Register, Atomic!Elements, Elements

\* Every other step leaves the abstract state alone.
LEMMA OthersStutter ==
    ASSUME Inv, Inv',
           \/ \E s \in Sets : SetNamespaces(s)
           \/ \E h \in Handlers : AddHandler(h)
           \/ \E ns \in Namespaces : CallOnRemove(ns) \/ CallOnAdd(ns) \/ CallRegistered(ns)
           \/ StartAdding
           \/ UNCHANGED vars
    PROVE  UNCHANGED Atomic!vars
<1>1. CASE \E s \in Sets : SetNamespaces(s)
  <2>1. UNCHANGED <<namespaces, handlers>> /\ phase = "idle" /\ phase' = "removing"
    BY <1>1 DEF SetNamespaces
  <2>2. Committed' = Committed /\ Committed = Registered
    BY <2>1 DEF Committed, Registered
  <2>3. CommittedViews' = CommittedViews
    BY <2>1, <2>2, IdleViews DEF CommittedViews, Elements
  <2> QED
    BY <2>1, <2>2, <2>3 DEF Atomic!vars
<1>2. CASE \E h \in Handlers : AddHandler(h)
  <2>1. /\ UNCHANGED namespaces /\ phase = "idle" /\ phase' = "registering"
        /\ Len(handlers') = Len(handlers) + 1 /\ Len(handlers) \in Nat
        /\ \A j \in 1..Len(handlers) : handlers'[j] = handlers[j]
    BY <1>2 DEF AddHandler, Inv, TypeOK
  <2>2. Committed = Registered
    BY <2>1 DEF Committed, Registered
  <2>3. Committed' = {handlers'[j] : j \in 1..Len(handlers)}
    BY <2>1 DEF Committed
  <2>4. Committed' = Committed
    BY <2>1, <2>2, <2>3 DEF Registered
  <2>5. CommittedViews' = CommittedViews
    BY <2>1, <2>2, <2>4, IdleViews DEF CommittedViews, Elements
  <2> QED
    BY <2>1, <2>4, <2>5 DEF Atomic!vars
<1>3. CASE \/ \E ns \in Namespaces : CallOnRemove(ns) \/ CallOnAdd(ns) \/ CallRegistered(ns)
           \/ StartAdding
  <2>1. /\ UNCHANGED <<namespaces, handlers>> /\ phase # "idle" /\ phase' # "idle"
        /\ phase' = "registering" <=> phase = "registering"
    BY <1>3 DEF CallOnRemove, CallOnAdd, CallRegistered, StartAdding, Advance
  <2>2. Committed' = Committed
    BY <2>1 DEF Committed, Registered
  <2>3. CommittedViews' = CommittedViews
    BY <2>1, <2>2 DEF CommittedViews, Elements
  <2> QED
    BY <2>1, <2>2, <2>3 DEF Atomic!vars
<1>4. CASE UNCHANGED vars
  BY <1>4 DEF vars, call, Atomic!vars, Committed, CommittedViews, Registered, View, Elements
<1> QED
  BY <1>1, <1>2, <1>3, <1>4

\* To those who take the lock, SetNamespaces and AddHandler are atomic.
THEOREM Refinement == Spec => ImplementsAtomic
<1>1. Inv /\ Inv' /\ [Next]_vars => [Atomic!Next]_(Atomic!vars)
  <2> SUFFICES ASSUME Inv, Inv', [Next]_vars PROVE [Atomic!Next]_(Atomic!vars)
    OBVIOUS
  <2>1. CASE FinishSet
    BY <2>1, FinishSetRefines DEF Atomic!Next
  <2>2. CASE FinishRegister
    BY <2>2, FinishRegisterRefines DEF Atomic!Next
  <2>3. CASE \/ \E s \in Sets : SetNamespaces(s)
             \/ \E h \in Handlers : AddHandler(h)
             \/ \E ns \in Namespaces : CallOnRemove(ns) \/ CallOnAdd(ns) \/ CallRegistered(ns)
             \/ StartAdding
             \/ UNCHANGED vars
    BY <2>3, OthersStutter
  <2> QED
    BY <2>1, <2>2, <2>3 DEF Next, Proceed
<1> QED
  BY <1>1, InitRefines, Invariance, PTL DEF Spec, ImplementsAtomic, Atomic!Spec

=============================================================================
