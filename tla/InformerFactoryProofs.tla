------------------------ MODULE InformerFactoryProofs ------------------------
(***************************************************************************)
(* Proofs about InformerFactory, for any resources, names, channels and    *)
(* callers.                                                                *)
(*                                                                         *)
(* The properties speak of moments: the lock is free, Run waits, Shutdown  *)
(* has returned, a wait is over.  The invariant says what holds between    *)
(* them: which calls of SetNamespaces an informer has had (Following),     *)
(* that wg counts the goroutines which are on their way (Counting), and    *)
(* that a waiter whom nobody disturbed sees a set that stands still        *)
(* (Undisturbed).                                                          *)
(***************************************************************************)
EXTENDS InformerFactory, FiniteSetTheorems, TLAPS

\* What r's informer tracks while SetNamespaces is under way: the names that stay,
\* those it was not yet told to remove, and those it was told to add.
HalfWay(r) ==
    {ns \in Namespaces :
        \/ ns \in Elements(namespaces) /\ (ns \in Elements(change.target) \/ <<r, ns>> \in change.removes)
        \/ ns \in Elements(change.target) \ Elements(namespaces) /\ <<r, ns>> \notin change.adds}

\* What r's informer tracks.
Expected(r) ==
    IF r \notin informers THEN {}
    ELSE IF r \in ClusterScoped THEN {Cluster}
    ELSE IF change = None THEN Elements(namespaces) ELSE HalfWay(r)

\* The calls that are left are for names that go, or come.
CallsLeft ==
    change # None =>
        /\ change.removes \subseteq
             (informers \ ClusterScoped) \X (Elements(namespaces) \ Elements(change.target))
        /\ change.adds \subseteq
             (informers \ ClusterScoped) \X (Elements(change.target) \ Elements(namespaces))

Following == CallsLeft /\ \A r \in Resources : tracked[r] = Expected(r)

\* The goroutines that Start launched and that have not returned.
Active == {r \in Resources : run[r] \in {"launched", "waiting"}}

Counting ==
    /\ IsFiniteSet(informers)
    /\ startedInformers = {r \in Resources : run[r] # "none"}
    /\ wg = Cardinality(Active)

\* Shutdown sets the flag before it waits, and what it waited for stays away.
Closing ==
    \A s \in Stoppers :
        /\ shutdown[s] # "idle" => shuttingDown
        /\ shutdown[s] = "returned" => Active = {}

Waits(w) == waiter[w].ch # None
NotDisturbed(w) == Waits(w) /\ ~waiter[w].disturbed

\* Whoever waits undisturbed has a set that is not being changed, and what it found
\* synced still is.
Undisturbed ==
    \A w \in Waiters :
        /\ ~Waits(w) => waiter[w] = IdleWaiter
        /\ waiter[w].todo \subseteq informers /\ waiter[w].yes \subseteq informers
        /\ waiter[w].initialized => waiter[w].at \notin ClusterScoped
        /\ NotDisturbed(w) =>
             /\ change = None
             /\ waiter[w].initialized => namespaces # None
             /\ \A r \in waiter[w].yes :
                   /\ tracked[r] \subseteq synced[r]
                   /\ r \notin ClusterScoped => namespaces # None

Inv ==
    /\ TypeOK
    /\ Following
    /\ Counting
    /\ EveryNameIsWatched
    /\ Closing
    /\ Undisturbed

-----------------------------------------------------------------------------
(* Facts about the sets that are counted, and about idle waiters.          *)

\* Fewer names than there are, nil or not.
LEMMA ElementsType ==
    ASSUME NEW s \in Sets
    PROVE  Elements(s) \subseteq Namespaces
  BY DEF Elements, Sets

\* The goroutines on their way are among the informers, which are finitely many.
LEMMA ActiveFinite ==
    ASSUME TypeOK, Counting
    PROVE  /\ Active \subseteq startedInformers
           /\ IsFiniteSet(Active)
<1>1. Active \subseteq startedInformers
  BY DEF Active, Counting
<1>2. startedInformers \subseteq informers
  BY DEF TypeOK
<1> QED
  BY <1>1, <1>2, FS_Subset DEF Counting

\* The instances that a Run stops are finitely many.
LEMMA LiveFinite ==
    ASSUME NEW S
    PROVE  Cardinality(S \intersect Namespaces) \in Nat
<1>1. IsFiniteSet(Namespaces)
  BY FactoryAssumption
<1>2. IsFiniteSet(S \intersect Namespaces)
  BY <1>1, FS_Intersection
<1> QED
  BY <1>2, FS_CardinalityType

\* Whoever waits is not idle.
LEMMA WaitsNotIdle ==
    ASSUME NEW w \in Waiters, Waits(w)
    PROVE  waiter[w] # IdleWaiter
  BY DEF Waits, IdleWaiter

-----------------------------------------------------------------------------
(* The initial states.                                                     *)

LEMMA InitInv == Init => Inv
<1> SUFFICES ASSUME Init PROVE Inv
  OBVIOUS
<1>1. TypeOK
  BY DEF Init, TypeOK, RunStates, IdleWaiter
<1>2. Following /\ EveryNameIsWatched
  BY DEF Init, Following, CallsLeft, Expected, EveryNameIsWatched
<1>3. Active = {}
  BY DEF Init, Active
<1>4. Counting
  BY <1>3, FS_EmptySet DEF Init, Counting
<1>5. Closing
  BY DEF Init, Closing
<1>6. Undisturbed
  BY DEF Init, Undisturbed, NotDisturbed, Waits, IdleWaiter
<1> QED
  BY <1>1, <1>2, <1>4, <1>5, <1>6 DEF Inv

-----------------------------------------------------------------------------
(* Counting: wg is the number of goroutines that are on their way.         *)

\* The steps that leave the goroutines and the counter alone.
LEMMA CountingUnchanged ==
    ASSUME Counting, UNCHANGED <<informers, startedInformers, wg, run>>
    PROVE  Counting'
  BY DEF Counting, Active

LEMMA ForResourceCounting ==
    ASSUME Inv, NEW r \in Resources, ForResource(r)
    PROVE  Counting'
<1>1. IsFiniteSet(informers')
  BY FS_AddElement DEF Inv, Counting, ForResource
<1> QED
  BY <1>1 DEF Inv, Counting, Active, ForResource, runs

LEMMA StartCounting ==
    ASSUME Inv, NEW ch \in Chans, Start(ch)
    PROVE  Counting'
<1> DEFINE new == informers \ startedInformers
<1>1. /\ wg' = wg + Cardinality(new)
      /\ run' = [r \in Resources |-> IF r \in new THEN "launched" ELSE run[r]]
      /\ startedInformers' = startedInformers \union new
      /\ informers' = informers
  BY DEF Start, Counted
<1>2. new \subseteq Resources
  BY DEF Inv, TypeOK
<1>3. startedInformers' = {r \in Resources : run'[r] # "none"}
  BY <1>1, <1>2 DEF Inv, Counting
<1>4. Active' = Active \union new /\ Active \intersect new = {}
  BY <1>1, <1>2 DEF Inv, Counting, Active
<1>5. IsFiniteSet(Active) /\ IsFiniteSet(new)
  BY ActiveFinite, FS_Difference DEF Inv, Counting
<1>6. Cardinality(Active \union new) = Cardinality(Active) + Cardinality(new)
  <2>1. Cardinality(Active \union new)
          = Cardinality(Active) + Cardinality(new) - Cardinality(Active \intersect new)
    BY <1>5, FS_Union
  <2>2. Cardinality(Active) \in Nat /\ Cardinality(new) \in Nat
    BY <1>5, FS_CardinalityType
  <2> QED
    BY <1>4, <2>1, <2>2, FS_EmptySet
<1> QED
  BY <1>1, <1>3, <1>4, <1>6 DEF Inv, Counting

LEMMA RunLaunchCounting ==
    ASSUME Inv, NEW r \in Resources, RunLaunch(r)
    PROVE  Counting'
<1>1. run' = [run EXCEPT ![r] = "waiting"] /\ run \in [Resources -> RunStates] /\ run[r] = "launched"
  BY DEF RunLaunch, Inv, TypeOK
<1>2. Active' = Active
  BY <1>1 DEF Active
<1>3. {q \in Resources : run'[q] # "none"} = {q \in Resources : run[q] # "none"}
  BY <1>1
<1> QED
  BY <1>2, <1>3 DEF Inv, Counting, RunLaunch, factory

LEMMA RunStopCounting ==
    ASSUME Inv, NEW r \in Resources, RunStop(r)
    PROVE  Counting'
<1>1. run' = [run EXCEPT ![r] = "done"] /\ run \in [Resources -> RunStates] /\ run[r] = "waiting"
  BY DEF RunStop, Inv, TypeOK
<1>2. Active' = Active \ {r} /\ r \in Active
  BY <1>1 DEF Active
<1>3. {q \in Resources : run'[q] # "none"} = {q \in Resources : run[q] # "none"}
  BY <1>1
<1>4. Cardinality(Active \ {r}) = Cardinality(Active) - 1
  BY <1>2, ActiveFinite, FS_RemoveElement DEF Inv
<1> QED
  BY <1>2, <1>3, <1>4 DEF Inv, Counting, RunStop

\* No step of anyone makes the counter differ from the number of goroutines.
LEMMA LiveCounting == Inv /\ Live => Counting'
<1> SUFFICES ASSUME Inv, Live PROVE Counting'
  OBVIOUS
<1> USE CountingUnchanged DEF Inv, factory, runs
<1>1. CASE Call
  BY <1>1, ForResourceCounting, StartCounting
     DEF Call, CloseChan, SetNamespaces, Shutdown, WaitForCacheSync
<1>2. CASE SetProceeds
  BY <1>2 DEF SetProceeds, FinishSet, CallRemove, CallAdd
<1>3. ASSUME NEW r \in Resources, RunProceeds(r) \/ InstanceEnds(r) PROVE Counting'
  BY <1>3, RunLaunchCounting, RunStopCounting DEF RunProceeds, InstanceEnds
<1>4. ASSUME NEW r \in Resources, NEW ns \in Names, InstanceSyncs(r, ns) PROVE Counting'
  BY <1>4 DEF InstanceSyncs
<1>5. ASSUME NEW s \in Stoppers, ShutdownReturns(s) PROVE Counting'
  BY <1>5 DEF ShutdownReturns
<1>6. ASSUME NEW w \in Waiters, WaitProceeds(w) PROVE Counting'
  BY <1>6 DEF WaitProceeds, Poll, PollInstances, PollGivesUp
<1> QED
  BY <1>1, <1>2, <1>3, <1>4, <1>5, <1>6 DEF Live

-----------------------------------------------------------------------------
(* Types.                                                                  *)

\* The type of wg is a consequence of Counting; the rest is Typed.
Typed ==
    /\ informers \in SUBSET Resources
    /\ startedInformers \in SUBSET informers
    /\ shuttingDown \in BOOLEAN /\ panicked \in BOOLEAN
    /\ namespaces \in Sets
    /\ change # None => change \in Changes
    /\ tracked \in [Resources -> SUBSET Names]
    /\ run \in [Resources -> RunStates]
    /\ stopCh \in [Resources -> {None} \union Chans]
    /\ live \in [Resources -> SUBSET Names]
    /\ ending \in [Resources -> Nat]
    /\ synced \in [Resources -> SUBSET Names]
    /\ closedChans \in SUBSET Chans
    /\ shutdown \in [Stoppers -> {"idle", "waiting", "returned"}]

Waiting == waiter \in [Waiters -> [todo : SUBSET Resources, at : {None} \union Resources,
                                   initialized : BOOLEAN, ch : {None} \union Chans,
                                   disturbed : BOOLEAN, yes : SUBSET Resources]]

LEMMA TypeParts == TypeOK <=> Typed /\ Waiting /\ wg \in Nat
  BY DEF TypeOK, Typed, Waiting

LEMMA CountedType ==
    ASSUME Counting, Typed
    PROVE  wg \in Nat
<1>1. Active \subseteq informers
  BY DEF Counting, Active, Typed
<1>2. IsFiniteSet(Active)
  BY <1>1, FS_Subset DEF Counting
<1> QED
  BY <1>2, FS_CardinalityType DEF Counting

LEMMA CallTyped ==
    ASSUME Inv, Call
    PROVE  Typed'
<1> USE TypeParts DEF Typed, insts, runs, factory
<1>1. Typed
  BY DEF Inv
<1>2. ASSUME NEW r \in Resources, ForResource(r) PROVE Typed'
  <2>1. FirstNames(r) \subseteq Names
    BY <1>1, ElementsType DEF FirstNames, ReplayedNames, Names
  <2>2. tracked' \in [Resources -> SUBSET Names]
    BY <1>1, <1>2, <2>1 DEF ForResource
  <2> QED
    BY <1>1, <1>2, <2>2 DEF ForResource
<1>3. ASSUME NEW ch \in Chans, Start(ch) PROVE Typed'
  <2>1. run' \in [Resources -> RunStates] /\ stopCh' \in [Resources -> {None} \union Chans]
    BY <1>1, <1>3 DEF Start, RunStates
  <2> QED
    BY <1>1, <1>3, <2>1 DEF Start
<1>4. ASSUME NEW ch \in Chans, CloseChan(ch) PROVE Typed'
  BY <1>1, <1>4 DEF CloseChan
<1>5. ASSUME NEW s \in Sets, NEW byFactory \in BOOLEAN, SetNamespaces(s, byFactory)
      PROVE  Typed'
  <2>1. /\ Elements(namespaces) \subseteq Namespaces /\ Elements(s) \subseteq Namespaces
        /\ informers \ ClusterScoped \subseteq Namespaced
    BY <1>1, ElementsType DEF Namespaced
  <2>2. change' \in Changes
    BY <1>5, <2>1 DEF SetNamespaces, Changes
  <2> QED
    BY <1>1, <1>5, <2>2 DEF SetNamespaces
<1>6. ASSUME NEW s \in Stoppers, Shutdown(s) PROVE Typed'
  BY <1>1, <1>6 DEF Shutdown
<1>7. ASSUME NEW w \in Waiters, NEW ch \in Chans, WaitForCacheSync(w, ch) PROVE Typed'
  BY <1>1, <1>7 DEF WaitForCacheSync
<1> QED
  BY <1>2, <1>3, <1>4, <1>5, <1>6, <1>7 DEF Call

LEMMA SetProceedsTyped ==
    ASSUME Inv, SetProceeds
    PROVE  Typed'
<1> USE TypeParts DEF Typed, insts, runs, factory, Names
<1>1. Typed
  BY DEF Inv
<1>2. CASE FinishSet
  BY <1>1, <1>2 DEF FinishSet, SetFree, Changes
<1>3. ASSUME NEW r \in Resources, NEW ns \in Namespaces, CallRemove(r, ns) PROVE Typed'
  <2>1. change' \in Changes
    BY <1>1, <1>3 DEF CallRemove, SetFree, Changes
  <2>2. panicked' \in BOOLEAN
    BY <1>3 DEF CallRemove
  <2>3. /\ tracked' \in [Resources -> SUBSET Names] /\ live' \in [Resources -> SUBSET Names]
        /\ synced' \in [Resources -> SUBSET Names] /\ ending' \in [Resources -> Nat]
    BY <1>1, <1>3 DEF CallRemove
  <2> QED
    BY <1>1, <1>3, <2>1, <2>2, <2>3 DEF CallRemove
<1>4. ASSUME NEW r \in Resources, NEW ns \in Namespaces, CallAdd(r, ns) PROVE Typed'
  <2>1. change' \in Changes
    BY <1>1, <1>4 DEF CallAdd, SetFree, Changes
  <2>2. tracked' \in [Resources -> SUBSET Names] /\ live' \in [Resources -> SUBSET Names]
    BY <1>1, <1>4 DEF CallAdd
  <2> QED
    BY <1>1, <1>4, <2>1, <2>2 DEF CallAdd
<1> QED
  BY <1>2, <1>3, <1>4, Zenon DEF SetProceeds

LEMMA RunTyped ==
    ASSUME Inv, NEW r \in Resources, RunProceeds(r) \/ InstanceEnds(r)
    PROVE  Typed'
<1> USE TypeParts DEF Typed, insts, runs, factory
<1>1. Typed
  BY DEF Inv
<1>2. CASE RunLaunch(r)
  BY <1>1, <1>2 DEF RunLaunch, LaunchedNames, RunStates
<1>3. CASE RunStop(r)
  <2> DEFINE n == Cardinality(live[r] \intersect Namespaces)
  <2>1. n \in Nat
    BY LiveFinite
  <2>2. ending' = [ending EXCEPT ![r] = @ + n]
    BY <1>3 DEF RunStop
  <2> HIDE DEF n
  <2>3. ending' \in [Resources -> Nat]
    BY <1>1, <2>1, <2>2
  <2> QED
    BY <1>1, <1>3, <2>3 DEF RunStop, RunStates
<1>4. CASE InstanceEnds(r)
  BY <1>1, <1>4 DEF InstanceEnds
<1> QED
  BY <1>2, <1>3, <1>4 DEF RunProceeds

\* Every step keeps the types.
LEMMA LiveTyped == Inv /\ Live => Typed'
<1> SUFFICES ASSUME Inv, Live PROVE Typed'
  OBVIOUS
<1>1. Typed
  BY TypeParts DEF Inv
<1>2. CASE Call \/ SetProceeds
  BY <1>2, CallTyped, SetProceedsTyped
<1>3. ASSUME NEW r \in Resources, RunProceeds(r) \/ InstanceEnds(r) PROVE Typed'
  BY <1>3, RunTyped
<1>4. ASSUME NEW r \in Resources, NEW ns \in Names, InstanceSyncs(r, ns) PROVE Typed'
  BY <1>1, <1>4 DEF InstanceSyncs, Typed, factory, runs
<1>5. ASSUME NEW s \in Stoppers, ShutdownReturns(s) PROVE Typed'
  BY <1>1, <1>5 DEF ShutdownReturns, Typed, factory, insts, runs
<1>6. ASSUME NEW w \in Waiters, WaitProceeds(w) PROVE Typed'
  BY <1>1, <1>6 DEF WaitProceeds, Poll, PollInstances, PollGivesUp, Typed, factory, insts, runs
<1> QED
  BY <1>2, <1>3, <1>4, <1>5, <1>6 DEF Live

\* Every step keeps the types of the waiters.
LEMMA LiveWaiting == Inv /\ Live => Waiting'
<1> SUFFICES ASSUME Inv, Live PROVE Waiting'
  OBVIOUS
<1> USE TypeParts DEF Waiting
<1>1. Waiting /\ informers \subseteq Resources
  BY DEF Inv, TypeOK
<1>2. ASSUME NEW s \in Sets, NEW byFactory \in BOOLEAN, SetNamespaces(s, byFactory)
      PROVE  Waiting'
  BY <1>1, <1>2 DEF SetNamespaces, IdleWaiter
<1>3. ASSUME NEW w \in Waiters, NEW ch \in Chans, WaitForCacheSync(w, ch) PROVE Waiting'
  BY <1>1, <1>3 DEF WaitForCacheSync, IdleWaiter
<1>4. CASE Call
  BY <1>1, <1>2, <1>3, <1>4 DEF Call, ForResource, Start, CloseChan, Shutdown
<1>5. CASE SetProceeds
  BY <1>1, <1>5 DEF SetProceeds, FinishSet, CallRemove, CallAdd
<1>6. ASSUME NEW r \in Resources, RunProceeds(r) \/ InstanceEnds(r) PROVE Waiting'
  BY <1>1, <1>6 DEF RunProceeds, RunLaunch, RunStop, InstanceEnds
<1>7. ASSUME NEW r \in Resources, NEW ns \in Names, InstanceSyncs(r, ns) PROVE Waiting'
  BY <1>1, <1>7 DEF InstanceSyncs
<1>8. ASSUME NEW s \in Stoppers, ShutdownReturns(s) PROVE Waiting'
  BY <1>1, <1>8 DEF ShutdownReturns
<1>9. ASSUME NEW w \in Waiters, NEW r \in Resources,
             Poll(w, r) \/ PollInstances(w, r) \/ PollGivesUp(w, r)
      PROVE  Waiting'
  <2>1. CASE Poll(w, r)
    <3> DEFINE set == namespaces # None
    <3>1. set \in BOOLEAN
      OBVIOUS
    <3>2. waiter' = [waiter EXCEPT ![w].at = r, ![w].initialized = set]
      BY <2>1 DEF Poll
    <3> HIDE DEF set
    <3> QED
      BY <1>1, <3>1, <3>2
  <2>2. CASE PollInstances(w, r)
    <3>1. CASE InstancesSynced(r)
      <4>1. waiter' = [waiter EXCEPT ![w].initialized = FALSE, ![w].at = None,
                                     ![w].todo = @ \ {r}, ![w].yes = @ \union {r}]
        BY <2>2, <3>1 DEF PollInstances
      <4> DEFINE W == [todo : SUBSET Resources, at : {None} \union Resources,
                       initialized : BOOLEAN, ch : {None} \union Chans,
                       disturbed : BOOLEAN, yes : SUBSET Resources]
                 v == [waiter[w] EXCEPT !.initialized = FALSE, !.at = None,
                                        !.todo = @ \ {r}, !.yes = @ \union {r}]
      <4>2. waiter \in [Waiters -> W]
        BY <1>1
      <4>3. v \in W
        BY <1>1
      <4>4. waiter' = [waiter EXCEPT ![w] = v]
        BY <1>1, <4>1
      <4> HIDE DEF v, W
      <4>5. waiter' \in [Waiters -> W]
        BY <4>2, <4>3, <4>4
      <4> QED
        BY <4>5 DEF W
    <3>2. CASE ~InstancesSynced(r)
      <4>1. waiter' = [waiter EXCEPT ![w].initialized = FALSE, ![w].at = r]
        BY <2>2, <3>2 DEF PollInstances
      <4> QED
        BY <1>1, <4>1
    <3> QED
      BY <3>1, <3>2
  <2>3. CASE PollGivesUp(w, r)
    BY <1>1, <2>3 DEF PollGivesUp
  <2> QED
    BY <1>9, <2>1, <2>2, <2>3
<1> QED
  BY <1>4, <1>5, <1>6, <1>7, <1>8, <1>9 DEF Live, WaitProceeds

-----------------------------------------------------------------------------
(* EveryNameIsWatched: the names a running informer tracks are live.       *)

LEMMA LiveWatched == Inv /\ Live => EveryNameIsWatched'
<1> SUFFICES ASSUME Inv, Live PROVE EveryNameIsWatched'
  OBVIOUS
<1> USE DEF EveryNameIsWatched, insts, runs
<1>1. /\ EveryNameIsWatched
      /\ tracked \in [Resources -> SUBSET Names] /\ live \in [Resources -> SUBSET Names]
      /\ run \in [Resources -> RunStates]
      /\ \A r \in Resources : run[r] # "none" => r \in informers
  BY DEF Inv, TypeOK, Counting
<1>2. ASSUME NEW r \in Resources, ForResource(r) PROVE EveryNameIsWatched'
  BY <1>1, <1>2 DEF ForResource
<1>3. ASSUME NEW ch \in Chans, Start(ch) PROVE EveryNameIsWatched'
  BY <1>1, <1>3 DEF Start
<1>4. CASE Call
  BY <1>1, <1>2, <1>3, <1>4 DEF Call, CloseChan, SetNamespaces, Shutdown, WaitForCacheSync
<1>5. ASSUME NEW r \in Resources, NEW ns \in Namespaces, CallRemove(r, ns)
      PROVE  EveryNameIsWatched'
  BY <1>1, <1>5 DEF CallRemove
<1>6. ASSUME NEW r \in Resources, NEW ns \in Namespaces, CallAdd(r, ns)
      PROVE  EveryNameIsWatched'
  BY <1>1, <1>6 DEF CallAdd
<1>7. CASE SetProceeds
  BY <1>1, <1>5, <1>6, <1>7 DEF SetProceeds, FinishSet
<1>8. ASSUME NEW r \in Resources, RunProceeds(r) \/ InstanceEnds(r)
      PROVE  EveryNameIsWatched'
  BY <1>1, <1>8 DEF RunProceeds, RunLaunch, RunStop, InstanceEnds, LaunchedNames
<1>9. CASE \/ \E r \in Resources, ns \in Names : InstanceSyncs(r, ns)
           \/ \E s \in Stoppers : ShutdownReturns(s)
           \/ \E w \in Waiters : WaitProceeds(w)
  BY <1>1, <1>9 DEF InstanceSyncs, ShutdownReturns, WaitProceeds, Poll, PollInstances, PollGivesUp
<1> QED
  BY <1>4, <1>7, <1>8, <1>9 DEF Live

-----------------------------------------------------------------------------
(* Closing: after a Shutdown has returned nothing is on its way.           *)

\* Once the flag is set, no step adds to the goroutines.
LEMMA ActiveShrinks ==
    ASSUME Inv, Live, shuttingDown
    PROVE  Active' \subseteq Active
<1>1. run \in [Resources -> RunStates]
  BY DEF Inv, TypeOK
<1>2. CASE UNCHANGED run
  BY <1>2 DEF Active
<1>3. ASSUME NEW r \in Resources, RunProceeds(r) PROVE Active' \subseteq Active
  BY <1>1, <1>3 DEF Active, RunProceeds, RunLaunch, RunStop
<1> QED
  BY <1>2, <1>3
     DEF Live, Call, ForResource, Start, MayStart, CloseChan, SetNamespaces, Shutdown,
         WaitForCacheSync, SetProceeds, FinishSet, CallRemove, CallAdd, InstanceEnds,
         InstanceSyncs, ShutdownReturns, WaitProceeds, Poll, PollInstances, PollGivesUp, runs

\* The counter is zero only when every goroutine has returned.
LEMMA NoneCounted ==
    ASSUME Inv, wg = 0
    PROVE  Active = {}
  BY ActiveFinite, FS_EmptySet DEF Inv, Counting

LEMMA LiveClosing == Inv /\ Live => Closing'
<1> SUFFICES ASSUME Inv, Live, NEW s \in Stoppers
             PROVE  /\ shutdown'[s] # "idle" => shuttingDown'
                    /\ shutdown'[s] = "returned" => Active' = {}
  BY DEF Closing
<1>1. /\ shutdown[s] # "idle" => shuttingDown
      /\ shutdown[s] = "returned" => Active = {}
      /\ shutdown \in [Stoppers -> {"idle", "waiting", "returned"}]
  BY DEF Inv, Closing, TypeOK
<1>2. shuttingDown => shuttingDown'
  BY DEF Live, Call, ForResource, Start, MayStart, CloseChan, SetNamespaces, Shutdown,
         WaitForCacheSync, SetProceeds, FinishSet, CallRemove, CallAdd, InstanceEnds,
         InstanceSyncs, ShutdownReturns, WaitProceeds, Poll, PollInstances, PollGivesUp,
         RunProceeds, RunLaunch, RunStop, factory
<1>3. CASE shutdown'[s] = shutdown[s]
  BY <1>1, <1>2, <1>3, ActiveShrinks
<1>4. ASSUME NEW t \in Stoppers, Shutdown(t)
      PROVE  shutdown'[s] = shutdown[s] \/ (shuttingDown' /\ shutdown'[s] = "waiting")
  <2>1. shutdown' = [shutdown EXCEPT ![t] = "waiting"] /\ shuttingDown'
    BY <1>4 DEF Shutdown
  <2>2. shutdown'[s] = shutdown[s] \/ shutdown'[s] = "waiting"
    BY <1>1, <2>1
  <2> QED
    BY <2>1, <2>2
<1>5. ASSUME NEW t \in Stoppers, ShutdownReturns(t)
      PROVE  shutdown'[s] = shutdown[s] \/ (shuttingDown' /\ Active' = {})
  <2>1. wg = 0 /\ UNCHANGED run /\ shutdown[t] = "waiting" /\ shuttingDown' = shuttingDown
    BY <1>5 DEF ShutdownReturns, runs, factory
  <2>2. Active' = {} /\ shuttingDown'
    BY <2>1, NoneCounted DEF Active, Inv, Closing
  <2> QED
    BY <2>2
<1>6. CASE UNCHANGED shutdown
  BY <1>3, <1>6
<1> QED
  BY <1>3, <1>4, <1>5, <1>6
     DEF Live, Call, ForResource, Start, CloseChan, SetNamespaces,
         WaitForCacheSync, SetProceeds, FinishSet, CallRemove, CallAdd, InstanceEnds,
         InstanceSyncs, WaitProceeds, Poll, PollInstances, PollGivesUp,
         RunProceeds, RunLaunch, RunStop

-----------------------------------------------------------------------------
(* Following: where every informer is between two calls of SetNamespaces.  *)

\* Nothing that Following speaks of.
LEMMA FollowingUnchanged ==
    ASSUME Following, UNCHANGED <<informers, tracked, namespaces, change>>
    PROVE  Following'
  BY DEF Following, CallsLeft, Expected, HalfWay

LEMMA ForResourceFollowing ==
    ASSUME Inv, NEW r \in Resources, ForResource(r)
    PROVE  Following'
<1>1. /\ r \in ClusterScoped \/ change = None
      /\ change' = change /\ namespaces' = namespaces /\ informers' = informers \union {r}
  BY DEF ForResource, SetFree
<1>2. \A q \in Resources : tracked'[q] = IF q = r THEN FirstNames(r) ELSE tracked[q]
  BY DEF ForResource, Inv, TypeOK
<1>3. \A q : HalfWay(q)' = HalfWay(q)
  BY <1>1 DEF HalfWay, Elements
<1>4. CallsLeft'
  <2>1. informers \ ClusterScoped \subseteq informers' \ ClusterScoped
    BY <1>1
  <2>2. change # None =>
          /\ change.removes \subseteq (informers \ ClusterScoped) \X
                                        (Elements(namespaces) \ Elements(change.target))
          /\ change.adds \subseteq (informers \ ClusterScoped) \X
                                     (Elements(change.target) \ Elements(namespaces))
    BY DEF Inv, Following, CallsLeft
  <2> QED
    BY <1>1, <2>1, <2>2 DEF CallsLeft, Elements
<1>5. ASSUME NEW q \in Resources PROVE tracked'[q] = Expected(q)'
  <2>1. tracked[q] = Expected(q)
    BY DEF Inv, Following
  <2>2. CASE q = r
    BY <1>1, <1>2, <2>2 DEF Expected, FirstNames, ReplayedNames, Elements
  <2>3. CASE q # r
    BY <1>1, <1>2, <1>3, <2>1, <2>3 DEF Expected, Elements
  <2> QED
    BY <2>2, <2>3
<1> QED
  BY <1>4, <1>5 DEF Following

LEMMA SetNamespacesFollowing ==
    ASSUME Inv, NEW s \in Sets, NEW byFactory \in BOOLEAN, SetNamespaces(s, byFactory)
    PROVE  Following'
<1>1. /\ change = None
      /\ change' = [byFactory |-> byFactory, target |-> s,
                    removes |-> (informers \ ClusterScoped) \X (Elements(namespaces) \ Elements(s)),
                    adds |-> (informers \ ClusterScoped) \X (Elements(s) \ Elements(namespaces))]
      /\ UNCHANGED <<informers, tracked, namespaces>>
  BY DEF SetNamespaces, SetFree, factory, insts
<1>2. /\ change'.target = s
      /\ change'.removes = (informers \ ClusterScoped) \X (Elements(namespaces) \ Elements(s))
      /\ change'.adds = (informers \ ClusterScoped) \X (Elements(s) \ Elements(namespaces))
  BY <1>1
<1>3. CallsLeft'
  BY <1>1, <1>2 DEF CallsLeft, Elements
<1>4. ASSUME NEW r \in Resources PROVE tracked'[r] = Expected(r)'
  <2>1. tracked[r] = Expected(r)
    BY DEF Inv, Following
  <2>2. CASE r \notin informers \/ r \in ClusterScoped
    BY <1>1, <2>1, <2>2 DEF Expected
  <2>3. CASE r \in informers /\ r \notin ClusterScoped
    <3>1. \A ns : /\ <<r, ns>> \in change'.removes <=> ns \in Elements(namespaces) \ Elements(s)
                  /\ <<r, ns>> \in change'.adds <=> ns \in Elements(s) \ Elements(namespaces)
      BY <1>2, <2>3
    <3>2. Elements(namespaces) \subseteq Namespaces
      BY ElementsType DEF Inv, TypeOK
    <3>3. HalfWay(r)' = Elements(namespaces)
      BY <1>1, <1>2, <3>1, <3>2 DEF HalfWay, Elements
    <3>4. Expected(r)' = Elements(namespaces)
      BY <1>1, <2>3, <3>3 DEF Expected, Elements
    <3> QED
      BY <1>1, <2>1, <2>3, <3>4 DEF Expected
  <2> QED
    BY <2>2, <2>3
<1> QED
  BY <1>3, <1>4 DEF Following

LEMMA CallRemoveFollowing ==
    ASSUME Inv, NEW r \in Resources, NEW ns \in Namespaces, CallRemove(r, ns)
    PROVE  Following'
<1>1. /\ change # None /\ change \in Changes
      /\ <<r, ns>> \in change.removes
      /\ UNCHANGED <<informers, namespaces>>
  BY DEF CallRemove, SetFree, Inv, TypeOK, factory
<1>2. /\ change' \in Changes
      /\ change'.target = change.target /\ change'.adds = change.adds
      /\ change'.removes = change.removes \ {<<r, ns>>}
  BY <1>1 DEF CallRemove, Changes
<1>3. change' # None
  BY <1>2, ChangeAssumption
<1>4. CallsLeft'
  BY <1>1, <1>2, <1>3 DEF Inv, Following, CallsLeft, Elements
<1>5. ASSUME NEW q \in Resources PROVE tracked'[q] = Expected(q)'
  <2>1. tracked[q] = Expected(q)
    BY DEF Inv, Following
  <2>2. tracked'[q] = IF q = r THEN tracked[q] \ {ns} ELSE tracked[q]
    BY DEF CallRemove, Inv, TypeOK
  <2>3. CASE q \notin informers \/ q \in ClusterScoped
    <3>1. q # r
      BY <1>1, <2>3 DEF Inv, Following, CallsLeft
    <3> QED
      BY <1>1, <2>1, <2>2, <2>3, <3>1 DEF Expected
  <2>4. CASE q \in informers /\ q \notin ClusterScoped
    <3>1. ns \in Elements(namespaces) \ Elements(change.target)
      BY <1>1 DEF Inv, Following, CallsLeft
    <3>2. \A m : <<q, m>> \in change'.removes <=>
                    <<q, m>> \in change.removes /\ ~(q = r /\ m = ns)
      BY <1>2
    <3>3. HalfWay(q)' = IF q = r THEN HalfWay(q) \ {ns} ELSE HalfWay(q)
      BY <1>1, <1>2, <3>1, <3>2 DEF HalfWay, Elements
    <3> QED
      BY <1>1, <1>3, <2>1, <2>2, <2>4, <3>3 DEF Expected
  <2> QED
    BY <2>3, <2>4
<1> QED
  BY <1>4, <1>5 DEF Following

LEMMA CallAddFollowing ==
    ASSUME Inv, NEW r \in Resources, NEW ns \in Namespaces, CallAdd(r, ns)
    PROVE  Following'
<1>1. /\ change # None /\ change \in Changes
      /\ <<r, ns>> \in change.adds
      /\ UNCHANGED <<informers, namespaces>>
  BY DEF CallAdd, SetFree, Inv, TypeOK, factory
<1>2. /\ change' \in Changes
      /\ change'.target = change.target /\ change'.removes = change.removes
      /\ change'.adds = change.adds \ {<<r, ns>>}
  BY <1>1 DEF CallAdd, Changes
<1>3. change' # None
  BY <1>2, ChangeAssumption
<1>4. CallsLeft'
  BY <1>1, <1>2, <1>3 DEF Inv, Following, CallsLeft, Elements
<1>5. ASSUME NEW q \in Resources PROVE tracked'[q] = Expected(q)'
  <2>1. tracked[q] = Expected(q)
    BY DEF Inv, Following
  <2>2. tracked'[q] = IF q = r THEN tracked[q] \union {ns} ELSE tracked[q]
    BY DEF CallAdd, Inv, TypeOK
  <2>3. CASE q \notin informers \/ q \in ClusterScoped
    <3>1. q # r
      BY <1>1, <2>3 DEF Inv, Following, CallsLeft
    <3> QED
      BY <1>1, <2>1, <2>2, <2>3, <3>1 DEF Expected
  <2>4. CASE q \in informers /\ q \notin ClusterScoped
    <3>1. ns \in Elements(change.target) \ Elements(namespaces)
      BY <1>1 DEF Inv, Following, CallsLeft
    <3>2. \A m : <<q, m>> \in change'.adds <=>
                    <<q, m>> \in change.adds /\ ~(q = r /\ m = ns)
      BY <1>2
    <3>3. HalfWay(q)' = IF q = r THEN HalfWay(q) \union {ns} ELSE HalfWay(q)
      BY <1>1, <1>2, <3>1, <3>2 DEF HalfWay, Elements
    <3> QED
      BY <1>1, <1>3, <2>1, <2>2, <2>4, <3>3 DEF Expected
  <2> QED
    BY <2>3, <2>4
<1> QED
  BY <1>4, <1>5 DEF Following

LEMMA FinishSetFollowing ==
    ASSUME Inv, FinishSet
    PROVE  Following'
<1>1. /\ change # None /\ change \in Changes /\ change' = None
      /\ change.removes = {} /\ change.adds = {}
      /\ UNCHANGED <<informers, tracked>> /\ namespaces' = change.target
  BY DEF FinishSet, SetFree, Inv, TypeOK, factory, insts
<1>2. Elements(change.target) \subseteq Namespaces
  BY <1>1, ElementsType DEF Changes
<1>3. \A r : HalfWay(r) = Elements(change.target)
  BY <1>1, <1>2 DEF HalfWay
<1>4. \A r \in Resources : tracked[r] = Expected(r)
  BY DEF Inv, Following
<1> QED
  BY <1>1, <1>3, <1>4 DEF Following, CallsLeft, Expected, Elements

\* Every step keeps the informers where the loops of SetNamespaces have got to.
LEMMA LiveFollowing == Inv /\ Live => Following'
<1> SUFFICES ASSUME Inv, Live PROVE Following'
  OBVIOUS
<1> USE FollowingUnchanged DEF Inv, factory, insts
<1>1. CASE Call
  BY <1>1, ForResourceFollowing, SetNamespacesFollowing
     DEF Call, Start, CloseChan, Shutdown, WaitForCacheSync
<1>2. CASE SetProceeds
  BY <1>2, CallRemoveFollowing, CallAddFollowing, FinishSetFollowing DEF SetProceeds
<1>3. ASSUME NEW r \in Resources, RunProceeds(r) \/ InstanceEnds(r) PROVE Following'
  BY <1>3 DEF RunProceeds, RunLaunch, RunStop, InstanceEnds
<1>4. ASSUME NEW r \in Resources, NEW ns \in Names, InstanceSyncs(r, ns) PROVE Following'
  BY <1>4 DEF InstanceSyncs
<1>5. ASSUME NEW s \in Stoppers, ShutdownReturns(s) PROVE Following'
  BY <1>5 DEF ShutdownReturns
<1>6. ASSUME NEW w \in Waiters, WaitProceeds(w) PROVE Following'
  BY <1>6 DEF WaitProceeds, Poll, PollInstances, PollGivesUp
<1> QED
  BY <1>1, <1>2, <1>3, <1>4, <1>5, <1>6 DEF Live

-----------------------------------------------------------------------------
(* Undisturbed: what a waiter has found synced still is.                   *)

\* Nothing that Undisturbed speaks of, except that more may have synced and more
\* informers may have been made.
LEMMA UndisturbedUnchanged ==
    ASSUME Inv, UNCHANGED <<namespaces, change, waiter>>,
           informers \subseteq informers',
           \A r \in informers : tracked'[r] = tracked[r] /\ synced[r] \subseteq synced'[r]
    PROVE  Undisturbed'
<1> SUFFICES ASSUME NEW w \in Waiters
             PROVE  /\ ~Waits(w)' => waiter'[w] = IdleWaiter
                    /\ waiter'[w].todo \subseteq informers' /\ waiter'[w].yes \subseteq informers'
                    /\ waiter'[w].initialized => waiter'[w].at \notin ClusterScoped
                    /\ NotDisturbed(w)' =>
                         /\ change' = None
                         /\ waiter'[w].initialized => namespaces' # None
                         /\ \A r \in waiter'[w].yes :
                               /\ tracked'[r] \subseteq synced'[r]
                               /\ r \notin ClusterScoped => namespaces' # None
  BY DEF Undisturbed
<1>1. NotDisturbed(w)' <=> NotDisturbed(w)
  BY DEF NotDisturbed, Waits
<1> QED
  BY <1>1 DEF Inv, Undisturbed, Waits

\* While SetNamespaces is under way nobody is undisturbed.
LEMMA UndisturbedBusy ==
    ASSUME Inv, change # None, UNCHANGED <<informers, waiter>>
    PROVE  Undisturbed'
<1> SUFFICES ASSUME NEW w \in Waiters
             PROVE  /\ ~Waits(w)' => waiter'[w] = IdleWaiter
                    /\ waiter'[w].todo \subseteq informers' /\ waiter'[w].yes \subseteq informers'
                    /\ waiter'[w].initialized => waiter'[w].at \notin ClusterScoped
                    /\ ~NotDisturbed(w)'
  BY DEF Undisturbed
<1> QED
  BY DEF Inv, Undisturbed, NotDisturbed, Waits

LEMMA SetNamespacesUndisturbed ==
    ASSUME Inv, NEW s \in Sets, NEW byFactory \in BOOLEAN, SetNamespaces(s, byFactory)
    PROVE  Undisturbed'
<1>1. /\ waiter' = [w \in Waiters |-> IF waiter[w] = IdleWaiter THEN IdleWaiter
                                      ELSE [waiter[w] EXCEPT !.disturbed = TRUE]]
      /\ UNCHANGED informers
  BY DEF SetNamespaces, factory
<1> SUFFICES ASSUME NEW w \in Waiters
             PROVE  /\ ~Waits(w)' => waiter'[w] = IdleWaiter
                    /\ waiter'[w].todo \subseteq informers' /\ waiter'[w].yes \subseteq informers'
                    /\ waiter'[w].initialized => waiter'[w].at \notin ClusterScoped
                    /\ ~NotDisturbed(w)'
  BY DEF Undisturbed
<1>2. CASE waiter[w] = IdleWaiter
  BY <1>1, <1>2 DEF IdleWaiter, Waits, NotDisturbed
<1>3. CASE waiter[w] # IdleWaiter
  BY <1>1, <1>3 DEF Inv, TypeOK, Undisturbed, Waits, NotDisturbed
<1> QED
  BY <1>2, <1>3

\* A step of one waiter leaves the others alone.
LEMMA OtherWaiters ==
    ASSUME Inv, NEW w \in Waiters,
           UNCHANGED <<informers, namespaces, change, tracked, synced>>,
           waiter' \in [Waiters -> [todo : SUBSET Resources, at : {None} \union Resources,
                                    initialized : BOOLEAN, ch : {None} \union Chans,
                                    disturbed : BOOLEAN, yes : SUBSET Resources]],
           \A u \in Waiters \ {w} : waiter'[u] = waiter[u],
           waiter'[w].ch # None,
           waiter'[w].todo \subseteq informers, waiter'[w].yes \subseteq informers,
           waiter'[w].initialized => waiter'[w].at \notin ClusterScoped,
           ~waiter'[w].disturbed =>
              /\ change = None
              /\ waiter'[w].initialized => namespaces # None
              /\ \A r \in waiter'[w].yes : /\ tracked[r] \subseteq synced[r]
                                           /\ r \notin ClusterScoped => namespaces # None
    PROVE  Undisturbed'
  BY DEF Inv, Undisturbed, NotDisturbed, Waits

LEMMA WaitForCacheSyncUndisturbed ==
    ASSUME Inv, NEW w \in Waiters, NEW ch \in Chans, WaitForCacheSync(w, ch), Waiting'
    PROVE  Undisturbed'
<1>1. /\ \A u \in Waiters \ {w} : waiter'[u] = waiter[u]
      /\ waiter'[w] = [IdleWaiter EXCEPT !.todo = informers \intersect startedInformers,
                                          !.ch = ch, !.disturbed = ~SetFree]
  BY DEF WaitForCacheSync, Inv, TypeOK
<1>2. /\ waiter'[w].ch # None /\ waiter'[w].todo \subseteq informers
      /\ waiter'[w].yes = {} /\ ~waiter'[w].initialized
      /\ ~waiter'[w].disturbed => change = None
  BY <1>1, FactoryAssumption DEF IdleWaiter, SetFree
<1>3. UNCHANGED <<informers, namespaces, change, tracked, synced>>
  BY DEF WaitForCacheSync, factory, insts
<1> QED
  BY <1>1, <1>2, <1>3, OtherWaiters DEF Waiting

LEMMA PollUndisturbed ==
    ASSUME Inv, NEW w \in Waiters, NEW r \in Resources, Poll(w, r), Waiting'
    PROVE  Undisturbed'
<1>1. /\ \A u \in Waiters \ {w} : waiter'[u] = waiter[u]
      /\ waiter'[w] = [waiter[w] EXCEPT !.at = r, !.initialized = (namespaces # None)]
      /\ r \in waiter[w].todo \ ClusterScoped /\ change = None
  BY DEF Poll, Inv, TypeOK, SetFree
<1>2. Waits(w)
  BY <1>1 DEF Inv, Undisturbed, IdleWaiter
<1>3. UNCHANGED <<informers, namespaces, change, tracked, synced>>
  BY DEF Poll, factory, insts
<1>4. /\ waiter'[w].at = r /\ (waiter'[w].initialized => namespaces # None)
      /\ waiter'[w].todo = waiter[w].todo /\ waiter'[w].yes = waiter[w].yes
      /\ waiter'[w].ch = waiter[w].ch /\ waiter'[w].disturbed = waiter[w].disturbed
  <2> DEFINE set == namespaces # None
  <2>1. set \in BOOLEAN
    OBVIOUS
  <2>2. waiter'[w] = [waiter[w] EXCEPT !.at = r, !.initialized = set]
    BY <1>1
  <2>3. waiter[w] \in [todo : SUBSET Resources, at : {None} \union Resources,
                       initialized : BOOLEAN, ch : {None} \union Chans,
                       disturbed : BOOLEAN, yes : SUBSET Resources]
    BY DEF Inv, TypeOK
  <2>4. waiter'[w].initialized = set
    <3> HIDE DEF set
    <3> QED
      BY <2>1, <2>2, <2>3
  <2>5. waiter'[w].initialized => namespaces # None
    BY <2>4
  <2>6. /\ waiter'[w].at = r
        /\ waiter'[w].todo = waiter[w].todo /\ waiter'[w].yes = waiter[w].yes
        /\ waiter'[w].ch = waiter[w].ch /\ waiter'[w].disturbed = waiter[w].disturbed
    <3> HIDE DEF set
    <3> QED
      BY <2>2, <2>3
  <2> QED
    BY <2>5, <2>6
<1>5. waiter[w].todo \subseteq informers /\ waiter[w].yes \subseteq informers
  BY DEF Inv, Undisturbed
<1>6. ~waiter[w].disturbed =>
        \A q \in waiter[w].yes : /\ tracked[q] \subseteq synced[q]
                                 /\ q \notin ClusterScoped => namespaces # None
  BY <1>2 DEF Inv, Undisturbed, NotDisturbed
<1> QED
  BY <1>1, <1>2, <1>3, <1>4, <1>5, <1>6, OtherWaiters DEF Waiting, Waits

LEMMA PollInstancesUndisturbed ==
    ASSUME Inv, NEW w \in Waiters, NEW r \in Resources, PollInstances(w, r), Waiting'
    PROVE  Undisturbed'
<1>1. /\ \A u \in Waiters \ {w} : waiter'[u] = waiter[u]
      /\ ~waiter'[w].initialized /\ waiter'[w].todo \subseteq waiter[w].todo
      /\ waiter'[w].ch = waiter[w].ch /\ waiter'[w].disturbed = waiter[w].disturbed
      /\ waiter'[w].yes = IF InstancesSynced(r) THEN waiter[w].yes \union {r} ELSE waiter[w].yes
      /\ r \in waiter[w].todo
      /\ r \notin ClusterScoped => waiter[w].initialized
  <2>1. CASE InstancesSynced(r)
    BY <2>1 DEF PollInstances, Inv, TypeOK
  <2>2. CASE ~InstancesSynced(r)
    BY <2>2 DEF PollInstances, Inv, TypeOK
  <2> QED
    BY <2>1, <2>2
<1>2. Waits(w)
  BY <1>1 DEF Inv, Undisturbed, IdleWaiter
<1>3. UNCHANGED <<informers, namespaces, change, tracked, synced>>
  BY DEF PollInstances, factory, insts
<1>4. waiter'[w].todo \subseteq informers /\ waiter'[w].yes \subseteq informers
  BY <1>1 DEF Inv, Undisturbed
<1>5. ~waiter[w].disturbed =>
        /\ change = None
        /\ \A q \in waiter'[w].yes : /\ tracked[q] \subseteq synced[q]
                                     /\ q \notin ClusterScoped => namespaces # None
  BY <1>1, <1>2 DEF Inv, Undisturbed, NotDisturbed, InstancesSynced
<1> QED
  BY <1>1, <1>2, <1>3, <1>4, <1>5, OtherWaiters DEF Waiting, Waits

LEMMA PollGivesUpUndisturbed ==
    ASSUME Inv, NEW w \in Waiters, NEW r \in Resources, PollGivesUp(w, r), Waiting'
    PROVE  Undisturbed'
<1>1. /\ \A u \in Waiters \ {w} : waiter'[u] = waiter[u]
      /\ ~waiter'[w].initialized /\ waiter'[w].todo \subseteq waiter[w].todo
      /\ waiter'[w].ch = waiter[w].ch /\ waiter'[w].disturbed = waiter[w].disturbed
      /\ waiter'[w].yes = waiter[w].yes
  BY DEF PollGivesUp, Inv, TypeOK
<1>2. waiter[w].at = r /\ r # None
  BY FactoryAssumption DEF PollGivesUp
<1>3. Waits(w)
  BY <1>2 DEF Inv, Undisturbed, IdleWaiter
<1>4. UNCHANGED <<informers, namespaces, change, tracked, synced>>
  BY DEF PollGivesUp, factory, insts
<1>5. waiter'[w].todo \subseteq informers /\ waiter'[w].yes \subseteq informers
  BY <1>1 DEF Inv, Undisturbed
<1>6. ~waiter[w].disturbed =>
        /\ change = None
        /\ \A q \in waiter[w].yes : /\ tracked[q] \subseteq synced[q]
                                    /\ q \notin ClusterScoped => namespaces # None
  BY <1>3 DEF Inv, Undisturbed, NotDisturbed
<1> QED
  BY <1>1, <1>3, <1>4, <1>5, <1>6, OtherWaiters DEF Waiting, Waits

\* Every step keeps what undisturbed waiters have found.
LEMMA LiveUndisturbed == Inv /\ Live /\ Waiting' => Undisturbed'
<1> SUFFICES ASSUME Inv, Live, Waiting' PROVE Undisturbed'
  OBVIOUS
<1> USE DEF factory, insts
<1>1. ASSUME NEW r \in Resources, ForResource(r) PROVE Undisturbed'
  BY <1>1, UndisturbedUnchanged DEF ForResource, Inv, TypeOK
<1>2. ASSUME NEW ch \in Chans, Start(ch) PROVE Undisturbed'
  BY <1>2, UndisturbedUnchanged DEF Start
<1>3. ASSUME NEW ch \in Chans, CloseChan(ch) PROVE Undisturbed'
  BY <1>3, UndisturbedUnchanged DEF CloseChan
<1>4. ASSUME NEW s \in Stoppers, Shutdown(s) PROVE Undisturbed'
  BY <1>4, UndisturbedUnchanged DEF Shutdown
<1>5. CASE Call
  BY <1>1, <1>2, <1>3, <1>4, <1>5, SetNamespacesUndisturbed, WaitForCacheSyncUndisturbed DEF Call
<1>6. CASE SetProceeds
  BY <1>6, UndisturbedBusy DEF SetProceeds, FinishSet, CallRemove, CallAdd, SetFree
<1>7. ASSUME NEW r \in Resources, RunProceeds(r) \/ InstanceEnds(r) PROVE Undisturbed'
  BY <1>7, UndisturbedUnchanged DEF RunProceeds, RunLaunch, RunStop, InstanceEnds
<1>8. ASSUME NEW r \in Resources, NEW ns \in Names, InstanceSyncs(r, ns) PROVE Undisturbed'
  <2>1. \A q \in Resources : synced[q] \subseteq synced'[q]
    BY <1>8 DEF InstanceSyncs, Inv, TypeOK
  <2> QED
    BY <1>8, <2>1, UndisturbedUnchanged DEF InstanceSyncs, Inv, TypeOK
<1>9. ASSUME NEW s \in Stoppers, ShutdownReturns(s) PROVE Undisturbed'
  BY <1>9, UndisturbedUnchanged DEF ShutdownReturns
<1>10. ASSUME NEW w \in Waiters, WaitProceeds(w) PROVE Undisturbed'
  BY <1>10, PollUndisturbed, PollInstancesUndisturbed, PollGivesUpUndisturbed DEF WaitProceeds
<1> QED
  BY <1>5, <1>6, <1>7, <1>8, <1>9, <1>10 DEF Live

-----------------------------------------------------------------------------
(* The theorems.                                                           *)

LEMMA NextInv == Inv /\ [Next]_vars => Inv'
<1> SUFFICES ASSUME Inv, [Next]_vars PROVE Inv'
  OBVIOUS
<1>1. CASE Live
  <2>1. Typed' /\ Waiting' /\ Counting'
    BY <1>1, LiveTyped, LiveWaiting, LiveCounting
  <2>2. (wg \in Nat)'
    BY <2>1, CountedType, PTL
  <2>3. TypeOK'
    BY <2>1, <2>2, TypeParts, PTL
  <2> QED
    BY <1>1, <2>1, <2>3, LiveFollowing, LiveWatched, LiveClosing, LiveUndisturbed DEF Inv
<1>2. CASE UNCHANGED vars
  BY <1>2 DEF Inv, TypeOK, Following, CallsLeft, Expected, HalfWay, Counting, Active,
              EveryNameIsWatched, Closing, Undisturbed, NotDisturbed, Waits,
              vars, factory, insts, runs
<1> QED
  BY <1>1, <1>2 DEF Next

\* The inductive invariant of the factory.
THEOREM InvHolds == Spec => []Inv
  BY InitInv, NextInv, PTL DEF Spec

\* Every variable of the factory keeps its type; the WaitGroup never goes negative,
\* which would make wg.Done() panic.
THEOREM TypesHold == Spec => []TypeOK
  BY InvHolds, PTL DEF Inv

\* When no SetNamespaces is under way all the informers of the factory track the
\* names of the set, however ForResource and SetNamespaces came one after the other.
THEOREM AllFollowHolds == Spec => []AllFollow
<1>1. Inv => AllFollow
  BY DEF Inv, TypeOK, Following, Expected, AllFollow, SetFree
<1> QED
  BY <1>1, InvHolds, PTL

\* Start, Run and SetNamespaces never lose a name between them: once an informer
\* runs, each name that it tracks has an instance running.
THEOREM EveryNameIsWatchedHolds == Spec => []EveryNameIsWatched
  BY InvHolds, PTL DEF Inv

\* After Shutdown has returned, no goroutine launched by Start runs, or ever will.
THEOREM ShutdownIsQuietHolds == Spec => []ShutdownIsQuiet
<1>1. Inv => ShutdownIsQuiet
  BY DEF Inv, TypeOK, RunStates, Closing, Active, ShutdownIsQuiet
<1> QED
  BY <1>1, InvHolds, PTL

\* What WaitForCacheSync reports as synced at the end still is, when the set was
\* not changed meanwhile.
THEOREM WaitedAreSyncedHolds == Spec => []WaitedAreSynced
<1>1. Inv => WaitedAreSynced
  <2> SUFFICES ASSUME Inv, NEW w \in Waiters, waiter[w].ch # None, ~waiter[w].disturbed,
                      NEW r \in waiter[w].yes
               PROVE  IF r \in ClusterScoped THEN Cluster \in synced[r]
                      ELSE namespaces # None /\ Elements(namespaces) \subseteq synced[r]
    BY DEF WaitedAreSynced
  <2>1. /\ change = None /\ r \in informers /\ r \in Resources
        /\ tracked[r] \subseteq synced[r]
        /\ r \notin ClusterScoped => namespaces # None
    BY DEF Inv, Undisturbed, NotDisturbed, Waits, TypeOK
  <2>2. tracked[r] = IF r \in ClusterScoped THEN {Cluster} ELSE Elements(namespaces)
    BY <2>1 DEF Inv, Following, Expected
  <2> QED
    BY <2>1, <2>2
<1> QED
  BY <1>1, InvHolds, PTL
=============================================================================
