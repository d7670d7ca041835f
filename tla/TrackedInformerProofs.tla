------------------------ MODULE TrackedInformerProofs ------------------------
(***************************************************************************)
(* Proofs about TrackedInformer, for any names, instances and callers.     *)
(*                                                                         *)
(* The composition only does what its two parts do: each of its steps is a *)
(* step of the set, of the informer, of both, or of neither.  So what is   *)
(* proved in NamespaceSetProofs and MultiNamespaceInformerProofs is cited  *)
(* here and not proved again.  What is new is the link between the two:    *)
(* the balance of the OnAdd and OnRemove calls the set has made is 1 for   *)
(* exactly the names that the informer has an instance for.                *)
(***************************************************************************)
EXTENDS TrackedInformer, Integers, TLAPS

NP == INSTANCE NamespaceSetProofs
        WITH Handlers <- {"informer"}, Nil <- None, phase <- setPhase

MP == INSTANCE MultiNamespaceInformerProofs
        WITH Handlers <- {}, Removable <- {}, IndexerSets <- {}, WatchHandlers <- {},
             Setters <- {}, setter <- <<>>, transformed <- {}, fatal <- FALSE

\* The informer does what the set tells it.
Linked ==
    ~panicked => \A ns \in Namespaces : M!Tracks(ns) <=> balance["informer"][ns] = 1

\* HasSynced is only called on an informer that has registered.
Registering ==
    /\ caller \in [Callers -> {"idle", "initialized", "yes", "no"}]
    /\ \A c \in Callers : caller[c] = "initialized" => handlers # <<>>

Inv ==
    /\ NP!Inv
    /\ MP!Inv
    /\ Linked
    /\ Registering

-----------------------------------------------------------------------------
(* The assumptions of the parts.                                           *)

LEMMA SetAssumption == NP!NamespaceSetAssumption
  BY TrackedAssumption DEF NP!NamespaceSetAssumption

LEMMA MultiAssumption == MP!InformerAssumption
  BY TrackedAssumption DEF MP!InformerAssumption

-----------------------------------------------------------------------------
(* The parts of a step.                                                    *)

\* A step of the set, as its proofs see it.
LEMMA SetStep == N!Next => NP!Next
<1>1. \A s : N!SetNamespaces(s) => NP!SetNamespaces(s)
  BY DEF N!SetNamespaces, NP!SetNamespaces, N!Normalize, NP!Normalize, N!Difference,
         NP!Difference, N!Elements, NP!Elements
<1>2. N!AddHandler("informer") => NP!AddHandler("informer")
  BY DEF N!AddHandler, NP!AddHandler, N!Registered, NP!Registered, N!Elements, NP!Elements
<1>3. N!Proceed => NP!Proceed
  <2>1. \A ns : N!Advance(ns) => NP!Advance(ns)
    BY DEF N!Advance, NP!Advance
  <2>2. \A ns : N!CallOnRemove(ns) => NP!CallOnRemove(ns)
    BY <2>1 DEF N!CallOnRemove, NP!CallOnRemove, N!Notify, NP!Notify
  <2>3. \A ns : N!CallOnAdd(ns) => NP!CallOnAdd(ns)
    BY <2>1 DEF N!CallOnAdd, NP!CallOnAdd, N!Notify, NP!Notify
  <2>4. \A ns : N!CallRegistered(ns) => NP!CallRegistered(ns)
    BY DEF N!CallRegistered, NP!CallRegistered, N!Notify, NP!Notify
  <2>5. N!StartAdding => NP!StartAdding
    BY DEF N!StartAdding, NP!StartAdding, N!LoopDone, NP!LoopDone, N!Difference,
           NP!Difference, N!Elements, NP!Elements
  <2>6. N!FinishSet => NP!FinishSet
    BY DEF N!FinishSet, NP!FinishSet, N!LoopDone, NP!LoopDone
  <2>7. N!FinishRegister => NP!FinishRegister
    BY DEF N!FinishRegister, NP!FinishRegister
  <2> QED
    BY <2>2, <2>3, <2>4, <2>5, <2>6, <2>7 DEF N!Proceed, NP!Proceed
<1>4. N!Sets = NP!Sets
  BY DEF N!Sets, NP!Sets
<1> QED
  BY <1>1, <1>2, <1>3, <1>4 DEF N!Next, NP!Next

\* Every step of the composition is one of the set or leaves the set alone.
LEMMA StepOfSet == Next => N!Next \/ UNCHANGED set
  BY DEF Next, Live, SetNamespaces, NewMultiNamespaceInformer, HandlerCall, SetProceeds,
         Run, Instance, CheckInitialized, CheckInstances, vars, N!Next, N!Proceed

\* Every step of the composition is one of the informer or leaves the informer alone.
LEMMA StepOfInformer == Next => M!Next \/ UNCHANGED informer
  BY DEF Next, Live, SetNamespaces, NewMultiNamespaceInformer, HandlerCall, SetProceeds,
         OnRemove, OnAdd, Run, Instance, CheckInitialized, CheckInstances, vars,
         M!Next, M!Live

\* A step of the informer, as its proofs see it.
LEMMA InformerStep == M!Next => MP!Next
<1> USE DEF M!config, MP!config, M!run, MP!run, M!inst, MP!inst, M!attach, MP!attach
<1>1. /\ \A ns : M!Tracks(ns) <=> MP!Tracks(ns)
      /\ M!Tracked = MP!Tracked
      /\ UNCHANGED M!vars <=> UNCHANGED MP!vars
      /\ M!Panic <=> MP!Panic
  BY DEF M!Tracks, MP!Tracks, M!Tracked, MP!Tracked, M!vars, MP!vars, M!Panic, MP!Panic
<1>2. ASSUME NEW ns \in Namespaces, M!AddNamespace(ns) PROVE MP!AddNamespace(ns)
  <2>1. \A i \in Instances : M!NewInformer(ns, i) => MP!NewInformer(ns, i)
    BY DEF M!NewInformer, MP!NewInformer, M!EarlierHandlers, MP!EarlierHandlers,
           M!Elems, MP!Elems, M!Registrations, MP!Registrations, M!LaunchesAtOnce,
           MP!LaunchesAtOnce
  <2> QED
    BY <1>1, <1>2, <2>1 DEF M!AddNamespace, MP!AddNamespace
<1>3. ASSUME NEW ns \in Namespaces, M!RemoveNamespace(ns) PROVE MP!RemoveNamespace(ns)
  BY <1>1, <1>3 DEF M!RemoveNamespace, MP!RemoveNamespace, M!StopInformer, MP!StopInformer
<1>4. ASSUME NEW r \in Runners, M!Running(r) \/ M!AskStop(r)
      PROVE  MP!Running(r) \/ MP!AskStop(r)
  BY <1>1, <1>4 DEF M!Running, MP!Running, M!AskStop, MP!AskStop, M!RunCheck, MP!RunCheck,
     M!RunLaunch, MP!RunLaunch, M!RunStop, MP!RunStop
<1>5. ~M!Configure
  BY DEF M!Configure
<1>6. ASSUME NEW i \in Instances, M!Progress(i) PROVE MP!Progress(i)
  BY <1>6 DEF M!Progress, MP!Progress, M!BeginRun, MP!BeginRun, M!Sync, MP!Sync,
     M!EndRun, MP!EndRun
<1>7. M!Live => MP!Live
  BY <1>2, <1>3, <1>4, <1>5, <1>6 DEF M!Live, MP!Live
<1> QED
  BY <1>1, <1>7 DEF M!Next, MP!Next, M!Crashed, MP!Crashed

\* The invariants of the two parts are invariants of the composition.
LEMMA SetInvKept == NP!Inv /\ [Next]_vars => NP!Inv'
<1>1. NP!Inv /\ [NP!Next]_NP!vars => NP!Inv'
  BY NP!NextInv, SetAssumption
<1>2. UNCHANGED set => UNCHANGED NP!vars
  BY DEF set, NP!vars, NP!call
<1> QED
  BY <1>1, <1>2, StepOfSet, SetStep DEF vars

LEMMA InformerInvKept == MP!Inv /\ [Next]_vars => MP!Inv'
<1>1. MP!Inv /\ [MP!Next]_MP!vars => MP!Inv'
  BY MP!NextInv, MultiAssumption
<1>2. UNCHANGED informer => UNCHANGED MP!vars
  BY DEF informer, MP!vars, MP!config, MP!run, MP!inst, MP!attach
<1>3. [Next]_vars => [MP!Next]_MP!vars
  BY <1>2, StepOfInformer, InformerStep DEF vars
<1> QED
  BY <1>1, <1>3

-----------------------------------------------------------------------------
(* The link between the two.                                               *)

\* The set has made as many OnAdd as OnRemove calls for a name, or one more.
OneBalance ==
    /\ balance \in [{"informer"} -> [Namespaces -> Int]]
    /\ \A ns \in Namespaces : balance["informer"][ns] \in {0, 1}

\* That follows from what is proved of the set.
LEMMA OneHandler == NP!Inv => OneBalance
<1>1. NP!Inv => NP!CallsAlternate
  BY NP!InvAlternates, SetAssumption
<1> QED
  BY <1>1 DEF NP!CallsAlternate, NP!Inv, NP!TypeOK, OneBalance

LEMMA OneHandlerNext == NP!Inv' => OneBalance'
  BY OneHandler, PTL

\* A handler call changes the balance of one name by one.
LEMMA BalanceChange ==
    ASSUME NP!Inv, NP!Inv', NEW n \in {-1, 1}, NEW ns \in Namespaces,
           N!Notify("informer", ns, n)
    PROVE  /\ balance'["informer"][ns] = IF n = 1 THEN 1 ELSE 0
           /\ \A m \in Namespaces \ {ns} : balance'["informer"][m] = balance["informer"][m]
<1>1. OneBalance /\ OneBalance'
  BY OneHandler, OneHandlerNext
<1>2. balance' = [balance EXCEPT !["informer"][ns] = balance["informer"][ns] + n]
  BY DEF N!Notify
<1>3. balance'["informer"] = [balance["informer"] EXCEPT ![ns] = balance["informer"][ns] + n]
  BY <1>1, <1>2 DEF OneBalance
<1>4. balance'["informer"][ns] = balance["informer"][ns] + n
  BY <1>1, <1>3 DEF OneBalance
<1> QED
  BY <1>1, <1>3, <1>4 DEF OneBalance

\* Removing a name leaves the informer without an instance for it, or crashes.
LEMMA RemoveLinks ==
    ASSUME MP!TypeOK, NEW ns \in Namespaces, M!RemoveNamespace(ns)
    PROVE  \/ panicked'
           \/ /\ ~M!Tracks(ns)'
              /\ \A m \in Namespaces \ {ns} : M!Tracks(m)' <=> M!Tracks(m)
  BY DEF MP!TypeOK, M!RemoveNamespace, M!Tracks, M!StopInformer, M!Panic, M!vars

\* Adding a name gives the informer an instance for it.
LEMMA AddLinks ==
    ASSUME MP!TypeOK, NEW ns \in Namespaces, M!AddNamespace(ns)
    PROVE  /\ M!Tracks(ns)'
           /\ \A m \in Namespaces \ {ns} : M!Tracks(m)' <=> M!Tracks(m)
<1>1. CASE M!Tracks(ns) /\ UNCHANGED M!vars
  BY <1>1 DEF M!vars, M!Tracks
<1>2. ASSUME NEW i \in Instances, M!NewInformer(ns, i)
      PROVE  /\ M!Tracks(ns)'
             /\ \A m \in Namespaces \ {ns} : M!Tracks(m)' <=> M!Tracks(m)
  BY <1>2, TrackedAssumption DEF M!NewInformer, MP!TypeOK, M!Tracks
<1> QED
  BY <1>1, <1>2 DEF M!AddNamespace

\* The handler that the set calls is the informer's.
LEMMA TheHandler ==
    ASSUME NP!Inv
    PROVE  \A j \in 1..Len(handlers) : handlers[j] = "informer"
  BY DEF NP!Inv, NP!TypeOK

\* Whom a step of the set calls.
LEMMA CalledHandler ==
    ASSUME NP!Inv, NEW ns \in Namespaces
    PROVE  /\ N!CallOnRemove(ns) => N!Notify("informer", ns, -1)
           /\ N!CallOnAdd(ns) => N!Notify("informer", ns, 1)
           /\ N!CallRegistered(ns) => N!Notify("informer", ns, 1)
<1>1. handlers \in Seq({"informer"}) /\ called \in Nat
  BY DEF NP!Inv, NP!TypeOK
<1>2. N!Advance(ns) => handlers[called + 1] = "informer"
  BY <1>1 DEF N!Advance
<1>3. N!CallRegistered(ns) => handlers[Len(handlers)] = "informer"
  <2>1. N!CallRegistered(ns) => handlers # <<>>
    BY DEF N!CallRegistered, NP!Inv, NP!PendingBounds
  <2> QED
    BY <1>1, <2>1
<1> QED
  BY <1>2, <1>3 DEF N!CallOnRemove, N!CallOnAdd, N!CallRegistered

\* Steps of neither.
LEMMA LinkedUnchanged ==
    ASSUME Linked, UNCHANGED <<balance, informers, panicked>>
    PROVE  Linked'
  BY DEF Linked, M!Tracks

LEMMA HandlerCallLinked ==
    ASSUME Inv, ~panicked, NP!Inv', HandlerCall
    PROVE  Linked'
<1>1. MP!TypeOK /\ OneBalance /\ OneBalance'
  BY OneHandler, OneHandlerNext DEF Inv, MP!Inv
<1>2. PICK ns \in Namespaces :
        \/ N!CallOnRemove(ns) /\ M!RemoveNamespace(ns)
        \/ (N!CallOnAdd(ns) \/ N!CallRegistered(ns)) /\ M!AddNamespace(ns)
  BY DEF HandlerCall, OnRemove, OnAdd
<1>3. CASE N!CallOnRemove(ns) /\ M!RemoveNamespace(ns)
  <2>1. /\ balance'["informer"][ns] = 0
        /\ \A m \in Namespaces \ {ns} : balance'["informer"][m] = balance["informer"][m]
    BY <1>3, CalledHandler, BalanceChange DEF Inv
  <2> QED
    BY <1>1, <1>3, <2>1, RemoveLinks DEF Inv, Linked
<1>4. CASE (N!CallOnAdd(ns) \/ N!CallRegistered(ns)) /\ M!AddNamespace(ns)
  <2>1. /\ balance'["informer"][ns] = 1
        /\ \A m \in Namespaces \ {ns} : balance'["informer"][m] = balance["informer"][m]
    BY <1>4, CalledHandler, BalanceChange DEF Inv
  <2> QED
    BY <1>1, <1>4, <2>1, AddLinks DEF Inv, Linked
<1> QED
  BY <1>2, <1>3, <1>4

\* No step of the informer's own, nor of its instances, changes what it tracks.
LEMMA RunLinked ==
    ASSUME Linked, NEW r \in Runners, ~panicked, Run(r)
    PROVE  Linked'
<1>1. UNCHANGED balance /\ (UNCHANGED <<informers, panicked>> \/ panicked')
  BY DEF Run, set, M!Running, M!RunCheck, M!RunLaunch, M!RunStop, M!AskStop, M!Panic
<1> QED
  BY <1>1, LinkedUnchanged DEF Linked

LEMMA LiveLinked ==
    ASSUME Inv, ~panicked, NP!Inv', Live
    PROVE  Linked'
<1> USE LinkedUnchanged DEF Inv, informer
<1>1. ASSUME NEW s \in N!Sets, SetNamespaces(s) PROVE Linked'
  BY <1>1 DEF SetNamespaces, N!SetNamespaces
<1>2. CASE NewMultiNamespaceInformer
  BY <1>2 DEF NewMultiNamespaceInformer, N!AddHandler
<1>3. CASE HandlerCall
  BY <1>3, HandlerCallLinked
<1>4. CASE SetProceeds
  BY <1>4 DEF SetProceeds, N!StartAdding, N!FinishSet, N!FinishRegister
<1>5. ASSUME NEW r \in Runners, Run(r) PROVE Linked'
  BY <1>5, RunLinked
<1>6. ASSUME NEW i \in Instances, Instance(i) PROVE Linked'
  BY <1>6 DEF Instance, M!Progress, M!BeginRun, M!Sync, M!EndRun, set
<1>7. ASSUME NEW c \in Callers, CheckInitialized(c) \/ CheckInstances(c) PROVE Linked'
  BY <1>7 DEF CheckInitialized, CheckInstances, set
<1> QED
  BY <1>1, <1>2, <1>3, <1>4, <1>5, <1>6, <1>7 DEF Live

-----------------------------------------------------------------------------
(* The invariant of the composition.                                       *)

LEMMA InitInv == Init => Inv
<1> SUFFICES ASSUME Init PROVE Inv
  OBVIOUS
<1>1. NP!Init
  BY DEF Init, N!Init, NP!Init, N!Sets, NP!Sets, N!Normalize, NP!Normalize, N!Elements,
         NP!Elements
<1>2. MP!Init
  BY DEF Init, M!Init, MP!Init
<1>3. NP!Inv /\ MP!Inv
  BY <1>1, <1>2, NP!InitInv, MP!InitInv, SetAssumption, MultiAssumption
<1>4. Linked
  BY DEF Init, N!Init, M!Init, Linked, M!Tracks
<1>5. Registering
  BY DEF Init, Registering
<1> QED
  BY <1>3, <1>4, <1>5 DEF Inv

\* A handler is never unregistered.
LEMMA NextRegistering ==
    ASSUME Inv, [Next]_vars
    PROVE  Registering'
<1>1. Registering
  BY DEF Inv
<1>2. handlers # <<>> => handlers' # <<>>
  <2>1. CASE N!Next
    <3>1. handlers \in Seq({"informer"})
      BY DEF Inv, NP!Inv, NP!TypeOK
    <3>2. Append(handlers, "informer") # <<>>
      BY <3>1
    <3> QED
      BY <2>1, <3>2 DEF N!Next, N!SetNamespaces, N!AddHandler, N!Proceed, N!CallOnRemove,
         N!CallOnAdd, N!CallRegistered, N!Advance, N!StartAdding, N!FinishSet, N!FinishRegister
  <2>2. CASE UNCHANGED set
    BY <2>2 DEF set
  <2> QED
    BY <2>1, <2>2, StepOfSet DEF vars, set
<1>3. CASE UNCHANGED caller
  BY <1>1, <1>2, <1>3 DEF Registering
<1>4. ASSUME NEW c \in Callers, CheckInitialized(c) PROVE Registering'
  <2>1. handlers # <<>>
    BY <1>4 DEF CheckInitialized, Constructed
  <2> QED
    BY <1>1, <1>2, <1>4, <2>1 DEF CheckInitialized, Registering
<1>5. ASSUME NEW c \in Callers, CheckInstances(c) PROVE Registering'
  <2>1. handlers # <<>>
    BY <1>1, <1>5 DEF CheckInstances, Registering
  <2> QED
    BY <1>1, <1>2, <1>5, <2>1 DEF CheckInstances, Registering
<1> QED
  BY <1>3, <1>4, <1>5
     DEF Next, Live, SetNamespaces, NewMultiNamespaceInformer, HandlerCall, SetProceeds,
         Run, Instance, vars

\* Every step keeps the invariant of the composition.
LEMMA NextInv == Inv /\ [Next]_vars => Inv'
<1> SUFFICES ASSUME Inv, [Next]_vars PROVE Inv'
  OBVIOUS
<1>1. NP!Inv' /\ MP!Inv'
  BY SetInvKept, InformerInvKept DEF Inv
<1>2. Linked'
  <2>1. CASE ~panicked /\ Live
    BY <1>1, <2>1, LiveLinked
  <2>2. CASE UNCHANGED vars
    BY <2>2, LinkedUnchanged DEF Inv, vars, set, informer
  <2> QED
    BY <2>1, <2>2 DEF Next
<1> QED
  BY <1>1, <1>2, NextRegistering DEF Inv

\* The inductive invariant of set and informer together.
THEOREM InvHolds == Spec => []Inv
  BY InitInv, NextInv, PTL DEF Spec

-----------------------------------------------------------------------------
(* The theorems.                                                           *)

\* When the lock is free, what the informer has instances for is what the set lists.
LEMMA InvFollows == Inv => InformerFollowsSet
<1> SUFFICES ASSUME Inv, handlers # <<>>, setPhase = "idle", ~panicked
             PROVE  {ns \in Namespaces : M!Tracks(ns)} = N!List
  BY DEF InformerFollowsSet, Constructed
<1>1. NP!HandlersAgree
  BY NP!InvAgree, SetAssumption DEF Inv
<1>2. "informer" \in NP!Registered
  BY DEF Inv, NP!Inv, NP!TypeOK, NP!Registered
<1>3. NP!View("informer") = NP!List
  BY <1>1, <1>2 DEF NP!HandlersAgree
<1>4. N!List = NP!List
  BY DEF N!List, NP!List, N!Elements, NP!Elements
<1>5. \A ns \in Namespaces : balance["informer"][ns] > 0 <=> M!Tracks(ns)
  BY OneHandler DEF Inv, Linked, OneBalance
<1> QED
  BY <1>3, <1>4, <1>5 DEF NP!View

\* Whenever the set's lock is free, the informer has an instance for exactly the names
\* that the set holds, whenever it was made and however the calls went before.
THEOREM InformerFollowsSetHolds == Spec => []InformerFollowsSet
  BY InvFollows, InvHolds, PTL

\* A yes of HasSynced, given while no SetNamespaces is under way, means that each
\* name of the set has an instance that has synced, though the two halves of
\* HasSynced hold different locks and the set may have changed between them.
THEOREM YesMeansSyncedHolds == Spec => YesMeansSynced
<1>1. Inv /\ [Next]_vars =>
        [\A c \in Callers : Answers(c, "yes") /\ setPhase = "idle" =>
           \A ns \in N!List : Synced(ns)]_vars
  <2> SUFFICES ASSUME Inv, Next, NEW c \in Callers, Answers(c, "yes"), setPhase = "idle",
                      NEW ns \in N!List
               PROVE  Synced(ns)
    OBVIOUS
  <2>1. ~panicked /\ M!AllSynced
    <3>1. caller \in [Callers -> {"idle", "initialized", "yes", "no"}] /\ caller' # caller
      BY DEF Inv, Registering, Answers
    <3>2. ~panicked
      BY <3>1 DEF Next, vars
    <3>3. PICK d \in Callers : CheckInitialized(d) \/ CheckInstances(d)
      BY <3>1 DEF Next, Live, SetNamespaces, NewMultiNamespaceInformer, HandlerCall,
                  SetProceeds, Run, Instance, vars
    <3>4. CASE CheckInitialized(d)
      BY <3>1, <3>4 DEF CheckInitialized, Answers
    <3>5. CASE CheckInstances(d)
      BY <3>1, <3>2, <3>5 DEF CheckInstances, Answers
    <3> QED
      BY <3>3, <3>4, <3>5
  <2>2. handlers # <<>>
    BY DEF Inv, Registering, Answers
  <2>3. {m \in Namespaces : M!Tracks(m)} = N!List
    BY <2>1, <2>2, InvFollows DEF InformerFollowsSet, Constructed
  <2> QED
    BY <2>1, <2>3 DEF M!AllSynced, M!Tracked, Synced
<1> QED
  BY <1>1, InvHolds, PTL DEF Spec, YesMeansSynced

\* The informer never watches NamespaceAll and one namespace at the same time, not
\* even in the middle of SetNamespaces: no object is ever in two of its caches, and
\* no event is delivered twice.
THEOREM NoObjectTwice ==
    Spec => [](~panicked /\ M!Tracks(All) => \A ns \in Namespaces \ {All} : ~M!Tracks(ns))
<1>1. Inv => (~panicked /\ M!Tracks(All) => \A ns \in Namespaces \ {All} : ~M!Tracks(ns))
  <2> SUFFICES ASSUME Inv, ~panicked, M!Tracks(All), NEW ns \in Namespaces \ {All}, M!Tracks(ns)
               PROVE  FALSE
    OBVIOUS
  <2>1. NP!AllIsExclusive
    BY NP!InvExclusive, SetAssumption DEF Inv
  <2>2. balance["informer"][All] = 1 /\ balance["informer"][ns] = 1
    BY TrackedAssumption DEF Inv, Linked
  <2>3. NP!View("informer") = {All}
    BY <2>1, <2>2, TrackedAssumption DEF NP!AllIsExclusive, NP!View
  <2> QED
    BY <2>2, <2>3 DEF NP!View
<1> QED
  BY <1>1, InvHolds, PTL

\* Driven by the set, an informer leaks no watch and cuts none off: until it is
\* stopped, the channels that are open are those of the names it tracks.
THEOREM NoLeakHolds == Spec => []M!OpenIffTracked
<1>1. Inv => M!OpenIffTracked
  <2>1. Inv => MP!OpenIffTracked
    BY DEF Inv, MP!Inv, MP!Channels
  <2> QED
    BY <2>1 DEF M!OpenIffTracked, MP!OpenIffTracked, M!Tracked, MP!Tracked, M!Tracks, MP!Tracks
<1> QED
  BY <1>1, InvHolds, PTL

\* The composition implements the set: each of its steps is one of NamespaceSet's
\* or leaves the set as it is.
THEOREM ImplementsSet == Spec => N!Init /\ [][N!Next]_N!vars
<1>1. [Next]_vars => [N!Next]_N!vars
  <2>1. UNCHANGED set => UNCHANGED N!vars
    BY DEF set, N!vars, N!call
  <2> QED
    BY <2>1, StepOfSet DEF vars
<1> QED
  BY <1>1, PTL DEF Spec, Init

\* The composition implements the informer: the set calls AddNamespace and
\* RemoveNamespace only as MultiNamespaceInformer allows anyone to.
THEOREM ImplementsInformer == Spec => M!Init /\ [][M!Next]_M!vars
<1>1. [Next]_vars => [M!Next]_M!vars
  <2>1. UNCHANGED informer => UNCHANGED M!vars
    BY DEF informer, M!vars, M!config, M!run, M!inst, M!attach
  <2> QED
    BY <2>1, StepOfInformer DEF vars
<1> QED
  BY <1>1, PTL DEF Spec, Init
=============================================================================
