-------------------------- MODULE CacheReaderProofs --------------------------
(***************************************************************************)
(* Proofs about EventDelivery and CacheReader, for any objects, instances  *)
(* and readers.                                                            *)
(*                                                                         *)
(* Everything rests on one fact about SetNamespaces: it removes before it  *)
(* adds, so that no two tracked names cover the same object, not even in   *)
(* the middle of a transition between NamespaceAll and single names.  What *)
(* the handler knows of an object is then a matter of one instance, and so *)
(* is what a reader gets.                                                  *)
(***************************************************************************)
EXTENDS CacheReader, FiniteSetTheorems, TLAPS

\* The names that the informer is to track.
Wanted == IF target = None THEN namespaces ELSE target

\* A call of SetNamespaces removes names, one at a time, and adds then; there is an
\* instance for each name it has still to add.
CallProceeds ==
    /\ namespaces \in Arguments
    /\ target = None => LockFree /\ toRemove = {} /\ toAdd = {}
    /\ target # None => /\ target \in Arguments
                        /\ toRemove \subseteq namespaces \ target
                        /\ toAdd \subseteq target \ namespaces
    /\ ~LockFree => target # None /\ removing \in (namespaces \ target) \ toRemove
    /\ toRemove # {} \/ ~LockFree => toAdd = target \ namespaces
    /\ Cardinality(toAdd) <= Cardinality(Unused)

\* Which names are tracked is a matter of how far the call is.
NamesFollow ==
    \A ns \in Names :
        Tracks(ns) <=> ns = removing \/ ns \in toRemove \/ ns \in Wanted \ toAdd

\* A tracked instance was made for its name; it runs until the name is removed, and
\* no other one runs.
InstancesFollow ==
    /\ \A ns \in Names : Tracks(ns) =>
          /\ scope[informers[ns]] = ns
          /\ life[informers[ns]] = "running" <=> ns # removing
    /\ \A i \in Instances : life[i] = "running" => scope[i] \in Names /\ informers[scope[i]] = i
    /\ \A i \in Instances : life[i] = "unused" <=> scope[i] = None

\* An instance has and reports only what the watch on its name returns.
StoresInScope ==
    \A i \in Instances :
        /\ \A o \in store[i] : o \in ObjectsOf(scope[i])
        /\ \A k \in DOMAIN queue[i] : queue[i][k].object \in ObjectsOf(scope[i])
        /\ life[i] = "unused" => store[i] = {}

\* Events are queued for a registered handler only.
HandlerListens ==
    /\ ~registered => listening = {} /\ view = {}
    /\ \A i \in Instances : registered /\ life[i] = "running" => i \in listening
    /\ \A i \in Instances : queue[i] # <<>> => i \in listening /\ life[i] \in {"running", "stopping"}
    /\ LockFree => toDelete = {}
    /\ ~LockFree => \A o \in toDelete : o \in ObjectsOf(removing)

\* The objects of a queue's events, and those that the handler knows when the queue
\* has been delivered to it if it knew those in v before.
ObjectsIn(q) == {q[k].object : k \in DOMAIN q}
After(q, v) ==
    {o \in Objects :
        \/ \E k \in DOMAIN q : /\ q[k] = Event("add", o)
                              /\ \A l \in DOMAIN q : l > k => q[l].object # o
        \/ o \in v /\ o \notin ObjectsIn(q)}

\* The undisturbed objects.
Calm == {o \in Objects : /\ o \notin late
                         /\ \A i \in Instances : life[i] = "stopping" => o \notin ObjectsIn(queue[i])}

\* What RemovalIsAnnounced says, while a removal is under way, too.
ViewCovered ==
    \A o \in view : o \in Calm =>
        \/ o \in toDelete
        \/ \E i \in Instances : life[i] = "running" /\ o \in ObjectsOf(scope[i])

\* What HandlerKeepsUp says, of the running instances.
RunningReport ==
    registered =>
        \A i \in Instances : life[i] = "running" =>
            \A o \in ObjectsOf(scope[i]) :
                o \in Calm => (o \in After(queue[i], view) <=> o \in store[i])

Inv ==
    /\ TypeOK
    /\ CallProceeds
    /\ NamesFollow
    /\ InstancesFollow
    /\ StoresInScope
    /\ HandlerListens
    /\ ViewCovered
    /\ RunningReport

-----------------------------------------------------------------------------
(* Names and objects.                                                      *)

\* The names of an argument of SetNamespaces cover no object twice.
LEMMA ArgumentsApart ==
    ASSUME NEW s \in Arguments, NEW n \in s, NEW m \in s, NEW o,
           o \in ObjectsOf(n), o \in ObjectsOf(m)
    PROVE  n = m
<1>1. CASE s = {All}
  BY <1>1
<1>2. CASE s \in SUBSET Objects
  BY <1>2, DeliveryAssumption DEF ObjectsOf
<1> QED
  BY <1>1, <1>2 DEF Arguments

\* Neither are the tracked names, as a call removes before it adds.
LEMMA TrackedWithinOne ==
    ASSUME CallProceeds, NamesFollow
    PROVE  \E s \in Arguments : \A ns \in Names : Tracks(ns) => ns \in s
<1>1. CASE toRemove # {} \/ ~LockFree
  <2>1. target # None /\ toAdd = target \ namespaces /\ toRemove \subseteq namespaces
    BY <1>1 DEF CallProceeds
  <2>2. ~LockFree => removing \in namespaces
    BY DEF CallProceeds
  <2>3. \A ns \in Names : Tracks(ns) => ns \in namespaces
    BY <2>1, <2>2, DeliveryAssumption DEF NamesFollow, Wanted, LockFree, Names
  <2> QED
    BY <2>3 DEF CallProceeds
<1>2. CASE toRemove = {} /\ LockFree
  <2>1. Wanted \in Arguments
    BY DEF CallProceeds, Wanted
  <2>2. \A ns \in Names : Tracks(ns) => ns \in Wanted
    BY <1>2, DeliveryAssumption DEF NamesFollow, LockFree, Names
  <2> QED
    BY <2>1, <2>2
<1> QED
  BY <1>1, <1>2

LEMMA NamesApart ==
    ASSUME CallProceeds, NamesFollow,
           NEW n \in Names, NEW m \in Names, Tracks(n), Tracks(m),
           NEW o, o \in ObjectsOf(n), o \in ObjectsOf(m)
    PROVE  n = m
<1>1. PICK s \in Arguments : \A ns \in Names : Tracks(ns) => ns \in s
  BY TrackedWithinOne
<1>2. n \in s /\ m \in s
  BY <1>1
<1> QED
  BY <1>2, ArgumentsApart

\* A tracked instance and its name.
LEMMA TrackedInstance ==
    ASSUME TypeOK, InstancesFollow, NEW i \in Tracked
    PROVE  /\ i \in Instances
           /\ scope[i] \in Names
           /\ Tracks(scope[i])
           /\ informers[scope[i]] = i
           /\ life[i] = "running" <=> scope[i] # removing
  BY DEF Tracked, Tracks, TypeOK, InstancesFollow

LEMMA TrackedName ==
    ASSUME TypeOK, InstancesFollow, NEW ns \in Names, Tracks(ns)
    PROVE  informers[ns] \in Tracked /\ informers[ns] \in Instances /\ scope[informers[ns]] = ns
  BY DEF Tracked, Tracks, TypeOK, InstancesFollow

\* No two tracked instances cover the same object.
LEMMA InstancesApart ==
    ASSUME TypeOK, CallProceeds, NamesFollow, InstancesFollow,
           NEW i \in Tracked, NEW j \in Tracked,
           NEW o, o \in ObjectsOf(scope[i]), o \in ObjectsOf(scope[j])
    PROVE  i = j
<1>1. scope[i] = scope[j]
  BY TrackedInstance, NamesApart
<1> QED
  BY <1>1, TrackedInstance

LEMMA ObjectsOfName ==
    ASSUME NEW ns \in Names
    PROVE  ObjectsOf(ns) \subseteq Objects
  BY DEF ObjectsOf, Names

LEMMA ArgumentNames ==
    ASSUME NEW s \in Arguments
    PROVE  s \subseteq Names /\ s # None /\ IsFiniteSet(s)
<1>1. s \in SUBSET Names /\ s # None
  BY DeliveryAssumption DEF Arguments, Names
<1>2. IsFiniteSet({All})
  BY FS_Singleton
<1>3. s \in SUBSET Objects => IsFiniteSet(s)
  BY DeliveryAssumption, FS_Subset
<1> QED
  BY <1>1, <1>2, <1>3 DEF Arguments

\* A name to add finds an instance.
LEMMA InstanceLeft ==
    ASSUME TypeOK, CallProceeds, NEW ns \in toAdd
    PROVE  /\ (CHOOSE j \in Unused : TRUE) \in Unused
           /\ IsFiniteSet(Unused) /\ IsFiniteSet(toAdd)
<1>1. IsFiniteSet(Unused)
  BY DeliveryAssumption, FS_Subset DEF Unused
<1>2. IsFiniteSet(toAdd)
  <2>1. target # None /\ toAdd \in SUBSET target
    BY DEF CallProceeds
  <2>2. IsFiniteSet(target)
    BY <2>1, ArgumentNames DEF CallProceeds
  <2> QED
    BY <2>1, <2>2, FS_Subset
<1>3. Cardinality(toAdd) # 0 /\ Cardinality(toAdd) \in Nat /\ Cardinality(Unused) \in Nat
  BY <1>1, <1>2, FS_EmptySet, FS_CardinalityType
<1>4. Cardinality(Unused) # 0
  BY <1>3 DEF CallProceeds
<1>5. Unused # {}
  BY <1>4, FS_EmptySet
<1> QED
  BY <1>1, <1>2, <1>5

\* What AddNamespace does, with the instance it takes.
AddWith(ns, i) ==
    /\ i \in Unused
    /\ life' = [life EXCEPT ![i] = "running"]
    /\ scope' = [scope EXCEPT ![i] = ns]
    /\ informers' = [informers EXCEPT ![ns] = i]
    /\ listening' = NewListeners(i)

LEMMA AddTakesInstance ==
    ASSUME TypeOK, CallProceeds, NEW ns \in Names, AddNamespace(ns)
    PROVE  \E i \in Instances : AddWith(ns, i)
<1> DEFINE i == CHOOSE j \in Unused : TRUE
<1>1. i \in Unused
  BY InstanceLeft DEF AddNamespace
<1>2. AddWith(ns, i)
  BY <1>1 DEF AddNamespace, AddWith
<1> QED
  BY <1>1, <1>2 DEF Unused

-----------------------------------------------------------------------------
(* Types.                                                                  *)

LEMMA ReplayTypes ==
    ASSUME NEW i \in Instances, store[i] \in SUBSET Objects, NEW q \in Replays(i)
    PROVE  q \in Seq(Events)
<1>1. IsFiniteSet(store[i])
  BY DeliveryAssumption, FS_Subset
<1>2. Cardinality(store[i]) \in Nat
  BY <1>1, FS_CardinalityType
<1>3. PICK order \in SetToSeqs(store[i]) : q = [k \in DOMAIN order |-> Event("add", order[k])]
  BY DEF Replays
<1>4. order \in [1..Cardinality(store[i]) -> store[i]]
  BY <1>3 DEF SetToSeqs
<1> DEFINE n == Cardinality(store[i])
<1> HIDE DEF n
<1>5. order \in [1..n -> Objects] /\ n \in Nat
  BY <1>2, <1>4 DEF n
<1>6. q \in [1..n -> Events]
  BY <1>3, <1>5 DEF Event, Events
<1> QED
  BY <1>5, <1>6

LEMMA AddNamespaceType ==
    ASSUME TypeOK, CallProceeds, NEW ns \in Names, AddNamespace(ns)
    PROVE  TypeOK'
<1>1. PICK i \in Instances : AddWith(ns, i)
  BY AddTakesInstance
<1>2. /\ UNCHANGED <<namespaces, target, toRemove, calls, registered, removing, toDelete, store, queue,
                     server, changes, view, late>>
      /\ toAdd' = toAdd \ {ns}
  BY DEF AddNamespace, removal, outside, told
<1>3. /\ informers' \in [Names -> Instances \union {None}]
      /\ life' \in [Instances -> Lives]
      /\ scope' \in [Instances -> Names \union {None}]
      /\ listening' \in SUBSET Instances
  BY <1>1 DEF AddWith, TypeOK, Lives, NewListeners
<1> QED
  BY <1>2, <1>3 DEF TypeOK

LEMMA AddEventHandlerType ==
    ASSUME TypeOK, AddEventHandler
    PROVE  TypeOK'
<1>1. PICK replay \in [Tracked -> UNION {Replays(i) : i \in Tracked}] :
        /\ \A i \in Tracked : replay[i] \in Replays(i)
        /\ queue' = [i \in Instances |-> IF i \in Tracked THEN replay[i] ELSE queue[i]]
  BY DEF AddEventHandler
<1>2. \A i \in Tracked : replay[i] \in Seq(Events)
  <2> SUFFICES ASSUME NEW i \in Tracked PROVE replay[i] \in Seq(Events)
    OBVIOUS
  <2>1. i \in Instances /\ store[i] \in SUBSET Objects
    BY DEF Tracked, Tracks, TypeOK
  <2> QED
    BY <1>1, <2>1, ReplayTypes
<1>3. queue' \in [Instances -> Seq(Events)]
  BY <1>1, <1>2 DEF TypeOK
<1>4. listening' \in SUBSET Instances
  BY DEF AddEventHandler, Tracked, Tracks, TypeOK
<1> QED
  BY <1>3, <1>4 DEF AddEventHandler, TypeOK, set, removal, outside, told

LEMMA WatchType ==
    ASSUME TypeOK, NEW i \in Instances, NEW o \in Objects, Watch(i, o)
    PROVE  TypeOK'
<1>1. Event(IF o \in server THEN "add" ELSE "delete", o) \in Events
  BY DEF Event, Events
<1>2. queue' \in [Instances -> Seq(Events)]
  BY <1>1 DEF Watch, TypeOK
<1>3. store' \in [Instances -> SUBSET Objects]
  BY DEF Watch, TypeOK
<1> QED
  BY <1>2, <1>3 DEF Watch, TypeOK, set, removal, outside, told

LEMMA DeliverType ==
    ASSUME TypeOK, NEW i \in Instances, Deliver(i)
    PROVE  TypeOK'
<1>1. Head(queue[i]) \in Events /\ Tail(queue[i]) \in Seq(Events)
  BY DEF Deliver, TypeOK
<1>2. queue' \in [Instances -> Seq(Events)]
  BY <1>1 DEF Deliver, TypeOK
<1>3. view' \in SUBSET Objects /\ late' \in SUBSET Objects
  BY <1>1 DEF Deliver, TypeOK, Events
<1> QED
  BY <1>2, <1>3 DEF Deliver, TypeOK, set, removal, outside, told

LEMMA EndType ==
    ASSUME TypeOK, NEW i \in Instances, End(i)
    PROVE  TypeOK'
<1>1. \A k \in DOMAIN queue[i] : queue[i][k] \in Events
  BY DEF TypeOK
<1>2. Queued(i) \subseteq Objects
  BY <1>1 DEF Queued, ToSet, Events
<1>3. /\ life' \in [Instances -> Lives]
      /\ queue' \in [Instances -> Seq(Events)]
      /\ late' \in SUBSET Objects
  BY <1>2 DEF End, TypeOK, Lives
<1> QED
  BY <1>3 DEF End, TypeOK, set, removal, outside

LEMMA SetType ==
    ASSUME TypeOK, CallProceeds, SetProceeds \/ \E s \in Arguments : SetNamespaces(s)
    PROVE  TypeOK'
<1>1. ASSUME NEW s \in Arguments, SetNamespaces(s)
      PROVE  TypeOK'
  BY <1>1, ArgumentNames DEF SetNamespaces, TypeOK, removal, instance, outside, told
<1>2. ASSUME NEW ns \in Names, BeginRemove(ns)
      PROVE  TypeOK'
  <2>1. informers[ns] \in Instances
    BY <1>2 DEF BeginRemove, Tracks, TypeOK
  <2>2. life' \in [Instances -> Lives] /\ toDelete' \in SUBSET Objects
    BY <1>2, <2>1 DEF BeginRemove, DeletesFor, TypeOK, Lives
  <2> QED
    BY <1>2, <2>2 DEF BeginRemove, TypeOK, outside, told
<1>3. ASSUME NEW o \in Objects, SendDelete(o)
      PROVE  TypeOK'
  BY <1>3 DEF SendDelete, TypeOK, set, instance, outside
<1>4. CASE EndRemove
  <2>1. informers' \in [Names -> Instances \union {None}]
    BY <1>4 DEF EndRemove, Forgotten, TypeOK
  <2> QED
    BY <1>4, <2>1 DEF EndRemove, TypeOK, set, instance, outside, told
<1>5. CASE FinishSet
  <2>1. target' = None /\ namespaces' = target /\ target \in Arguments
    BY <1>5 DEF FinishSet, CallProceeds
  <2>2. namespaces' \in SUBSET Names /\ (All \in namespaces' => namespaces' = {All})
    BY <2>1, ArgumentNames, DeliveryAssumption DEF Arguments
  <2> QED
    BY <1>5, <2>1, <2>2 DEF FinishSet, TypeOK, removal, instance, outside, told
<1> QED
  BY <1>1, <1>2, <1>3, <1>4, <1>5, AddNamespaceType DEF SetProceeds

LEMMA NextType ==
    ASSUME TypeOK, CallProceeds, [Next]_vars
    PROVE  TypeOK'
<1>1. ASSUME NEW o \in Objects, ServerChanges(o)
      PROVE  TypeOK'
  BY <1>1 DEF ServerChanges, TypeOK, set, removal, instance, told
<1>2. CASE UNCHANGED vars
  BY <1>2 DEF TypeOK, vars, set, removal, instance, outside, told
<1> QED
  BY <1>1, <1>2, SetType, AddEventHandlerType, WatchType, DeliverType, EndType DEF Next, Progress

-----------------------------------------------------------------------------
(* The names and their instances.                                          *)

\* Which instances are unused is not changed but by AddNamespace.
LEMMA UnusedStays ==
    ASSUME TypeOK, InstancesFollow,
           \/ UNCHANGED life
           \/ \E i \in Instances :
                 /\ life[i] # "unused"
                 /\ \E l \in {"stopping", "ended"} : life' = [life EXCEPT ![i] = l]
    PROVE  Unused' = Unused
<1>1. \A j \in Instances : life'[j] = "unused" <=> life[j] = "unused"
  BY DEF TypeOK
<1> QED
  BY <1>1 DEF Unused

LEMMA AddNamespaceCall ==
    ASSUME TypeOK, CallProceeds, NamesFollow, InstancesFollow, NEW ns \in Names, AddNamespace(ns)
    PROVE  CallProceeds'
<1>1. PICK i \in Instances : AddWith(ns, i)
  BY AddTakesInstance
<1>2. /\ ns \in toAdd /\ LockFree /\ toRemove = {}
      /\ toAdd' = toAdd \ {ns}
      /\ UNCHANGED <<namespaces, target, toRemove, removing>>
  BY DEF AddNamespace, RemovalsDone, removal
<1>3. Unused' = Unused \ {i} /\ i \in Unused
  BY <1>1 DEF AddWith, Unused, TypeOK
<1>4. Cardinality(toAdd') <= Cardinality(Unused')
  <2>1. IsFiniteSet(toAdd) /\ IsFiniteSet(Unused)
    BY <1>2, InstanceLeft
  <2>2. /\ Cardinality(toAdd') = Cardinality(toAdd) - 1
        /\ Cardinality(Unused') = Cardinality(Unused) - 1
    BY <1>2, <1>3, <2>1, FS_RemoveElement
  <2>3. Cardinality(toAdd) \in Nat /\ Cardinality(Unused) \in Nat
    BY <2>1, FS_CardinalityType
  <2> QED
    BY <2>2, <2>3 DEF CallProceeds
<1> QED
  BY <1>2, <1>4 DEF CallProceeds, LockFree

LEMMA NextCall ==
    ASSUME TypeOK, CallProceeds, NamesFollow, InstancesFollow, [Next]_vars
    PROVE  CallProceeds'
<1>1. CASE UNCHANGED <<set, removal>> /\ Unused' = Unused
  BY <1>1 DEF CallProceeds, LockFree, set, removal
<1>2. ASSUME NEW s \in Arguments, SetNamespaces(s)
      PROVE  CallProceeds'
  <2>1. /\ target = None /\ LockFree
        /\ target' = s /\ toRemove' = namespaces \ s /\ toAdd' = s \ namespaces
        /\ UNCHANGED <<namespaces, removing, life>>
        /\ Cardinality(s \ namespaces) <= Cardinality(Unused)
    BY <1>2 DEF SetNamespaces, CallProceeds, removal, instance
  <2>2. Unused' = Unused
    BY <2>1 DEF Unused
  <2> QED
    BY <2>1, <2>2, ArgumentNames DEF CallProceeds, LockFree
<1>3. ASSUME NEW ns \in Names, BeginRemove(ns)
      PROVE  CallProceeds'
  <2>1. /\ ns \in toRemove /\ toRemove' = toRemove \ {ns} /\ removing' = ns
        /\ UNCHANGED <<namespaces, target, toAdd>>
    BY <1>3 DEF BeginRemove
  <2>2. /\ informers[ns] \in Instances /\ life[informers[ns]] # "unused"
        /\ life' = [life EXCEPT ![informers[ns]] = "stopping"]
    <3>1. Tracks(ns) /\ life' = [life EXCEPT ![informers[ns]] = "stopping"]
      BY <1>3 DEF BeginRemove
    <3>2. informers[ns] \in Instances /\ scope[informers[ns]] = ns
      BY <3>1, TrackedName
    <3> QED
      BY <3>1, <3>2, DeliveryAssumption DEF InstancesFollow, Names
  <2>3. Unused' = Unused
    BY <2>2, UnusedStays
  <2> QED
    BY <2>1, <2>3 DEF CallProceeds, LockFree
<1>4. CASE EndRemove
  <2>1. /\ removing' = None /\ removing # None
        /\ UNCHANGED <<set, life>>
    BY <1>4 DEF EndRemove, instance, LockFree
  <2>2. Unused' = Unused
    BY <2>1 DEF Unused
  <2> QED
    BY <2>1, <2>2 DEF CallProceeds, LockFree, set
<1>5. CASE FinishSet
  <2>1. /\ target # None /\ LockFree /\ toRemove = {} /\ toAdd = {}
        /\ namespaces' = target /\ target' = None
        /\ UNCHANGED <<toRemove, toAdd, removing, life>>
    BY <1>5 DEF FinishSet, removal, instance
  <2>2. Unused' = Unused
    BY <2>1 DEF Unused
  <2> QED
    BY <2>1, <2>2 DEF CallProceeds, LockFree
<1>6. ASSUME NEW o \in Objects, SendDelete(o)
      PROVE  CallProceeds'
  <2>1. UNCHANGED <<set, removing, life>>
    BY <1>6 DEF SendDelete, instance
  <2>2. Unused' = Unused
    BY <2>1 DEF Unused
  <2> QED
    BY <2>1, <2>2 DEF CallProceeds, LockFree, set
<1>7. CASE \/ AddEventHandler \/ UNCHANGED vars
           \/ \E o \in Objects : ServerChanges(o)
           \/ \E i \in Instances : Progress(i)
  <2>1. UNCHANGED <<set, removal>>
    BY <1>7 DEF AddEventHandler, ServerChanges, Progress, Watch, Deliver, End, vars
  <2>2. CASE UNCHANGED life
    BY <1>1, <2>1, <2>2, UnusedStays
  <2>3. ASSUME NEW i \in Instances, End(i)
        PROVE  Unused' = Unused
    <3>1. life[i] # "unused" /\ life' = [life EXCEPT ![i] = "ended"]
      BY <2>3 DEF End
    <3> QED
      BY <3>1, UnusedStays
  <2> QED
    BY <1>1, <1>7, <2>1, <2>2, <2>3
       DEF AddEventHandler, ServerChanges, Progress, Watch, Deliver, vars, instance
<1> QED
  BY <1>2, <1>3, <1>4, <1>5, <1>6, <1>7, AddNamespaceCall DEF Next, SetProceeds

LEMMA NextNames ==
    ASSUME TypeOK, CallProceeds, NamesFollow, [Next]_vars
    PROVE  NamesFollow'
<1>0. None \notin Names
  BY DeliveryAssumption DEF Names
<1>1. CASE UNCHANGED <<set, removing, informers>>
  BY <1>1 DEF NamesFollow, Tracks, Wanted, set
<1>2. ASSUME NEW s \in Arguments, SetNamespaces(s)
      PROVE  NamesFollow'
  <2>1. /\ target = None /\ toRemove = {} /\ toAdd = {} /\ removing = None
        /\ target' = s /\ toRemove' = namespaces \ s /\ toAdd' = s \ namespaces
        /\ UNCHANGED <<namespaces, removing, informers>>
    BY <1>2 DEF SetNamespaces, CallProceeds, removal, LockFree
  <2>2. Wanted = namespaces /\ Wanted' = s
    BY <2>1, ArgumentNames DEF Wanted
  <2> QED
    BY <1>0, <2>1, <2>2 DEF NamesFollow, Tracks
<1>3. ASSUME NEW ns \in Names, BeginRemove(ns)
      PROVE  NamesFollow'
  <2>1. /\ removing = None /\ ns \in toRemove /\ toRemove' = toRemove \ {ns} /\ removing' = ns
        /\ UNCHANGED <<namespaces, target, toAdd, informers>>
    BY <1>3 DEF BeginRemove, LockFree
  <2> QED
    BY <1>0, <2>1 DEF NamesFollow, Tracks, Wanted
<1>4. CASE EndRemove
  <2>1. /\ removing' = None /\ removing # None
        /\ informers' = [informers EXCEPT ![removing] = None]
        /\ UNCHANGED set
    BY <1>4 DEF EndRemove, Forgotten, LockFree
  <2>2. /\ target # None /\ removing \notin toRemove /\ removing \notin target
        /\ removing \in Names
    BY <2>1, ArgumentNames DEF CallProceeds, LockFree
  <2>3. \A ns \in Names : Tracks(ns)' <=> Tracks(ns) /\ ns # removing
    BY <2>1, <2>2 DEF Tracks, TypeOK
  <2> QED
    BY <1>0, <2>1, <2>2, <2>3 DEF NamesFollow, Wanted, set
<1>5. CASE FinishSet
  <2>1. /\ target # None /\ toRemove = {} /\ toAdd = {}
        /\ namespaces' = target /\ target' = None
        /\ UNCHANGED <<toRemove, toAdd, removing, informers>>
    BY <1>5 DEF FinishSet, removal
  <2> QED
    BY <2>1 DEF NamesFollow, Tracks, Wanted
<1>6. ASSUME NEW ns \in Names, AddNamespace(ns)
      PROVE  NamesFollow'
  <2>1. PICK i \in Instances : AddWith(ns, i)
    BY <1>6, AddTakesInstance
  <2>2. /\ ns \in toAdd /\ toAdd' = toAdd \ {ns}
        /\ UNCHANGED <<namespaces, target, toRemove, removing>>
    BY <1>6 DEF AddNamespace, removal
  <2>3. \A m \in Names : Tracks(m)' <=> Tracks(m) \/ m = ns
    BY <2>1, DeliveryAssumption DEF AddWith, Tracks, TypeOK
  <2>4. target # None /\ ns \in target
    BY <2>2 DEF CallProceeds
  <2> QED
    BY <2>2, <2>3, <2>4 DEF NamesFollow, Wanted
<1>7. CASE \/ AddEventHandler \/ UNCHANGED vars
           \/ \E o \in Objects : ServerChanges(o) \/ SendDelete(o)
           \/ \E i \in Instances : Progress(i)
  BY <1>1, <1>7
     DEF AddEventHandler, ServerChanges, SendDelete, Progress, Watch, Deliver, End, vars, removal
<1> QED
  BY <1>2, <1>3, <1>4, <1>5, <1>6, <1>7 DEF Next, SetProceeds

LEMMA AddNamespaceInstances ==
    ASSUME TypeOK, CallProceeds, NamesFollow, InstancesFollow, NEW ns \in Names, AddNamespace(ns)
    PROVE  InstancesFollow'
<1>1. PICK i \in Instances : AddWith(ns, i)
  BY AddTakesInstance
<1>2. ns \in toAdd /\ removing = None /\ toRemove = {} /\ UNCHANGED removing
  BY DEF AddNamespace, removal, RemovalsDone, LockFree
<1>3. None \notin Names
  BY DeliveryAssumption DEF Names
<1>4. ~Tracks(ns)
  BY <1>2, <1>3 DEF NamesFollow
<1>5. life[i] = "unused" /\ scope[i] = None
  BY <1>1 DEF AddWith, Unused, InstancesFollow
<1>6. \A m \in Names : Tracks(m) => informers[m] \in Instances /\ informers[m] # i
  BY <1>3, <1>5, TrackedName
<1>7. /\ life' = [life EXCEPT ![i] = "running"] /\ scope' = [scope EXCEPT ![i] = ns]
      /\ informers' = [informers EXCEPT ![ns] = i]
      /\ life \in [Instances -> Lives] /\ scope \in [Instances -> Names \union {None}]
      /\ informers \in [Names -> Instances \union {None}]
  BY <1>1 DEF AddWith, TypeOK
<1>8. ASSUME NEW m \in Names, Tracks(m)'
      PROVE  scope'[informers'[m]] = m /\ (life'[informers'[m]] = "running" <=> m # removing')
  <2>1. CASE m = ns
    BY <1>2, <1>3, <1>7, <2>1
  <2>2. CASE m # ns
    BY <1>2, <1>6, <1>7, <1>8, <2>2 DEF InstancesFollow, Tracks
  <2> QED
    BY <2>1, <2>2
<1>9. ASSUME NEW j \in Instances, life'[j] = "running"
      PROVE  scope'[j] \in Names /\ informers'[scope'[j]] = j
  <2>1. CASE j = i
    BY <1>7, <2>1
  <2>2. CASE j # i
    <3>1. scope'[j] = scope[j] /\ scope[j] \in Names /\ informers[scope[j]] = j
      BY <1>7, <1>9, <2>2 DEF InstancesFollow
    <3>2. scope[j] # ns
      BY <1>4, <3>1, DeliveryAssumption DEF Tracks
    <3> QED
      BY <1>7, <3>1, <3>2
  <2> QED
    BY <2>1, <2>2
<1>10. \A j \in Instances : life'[j] = "unused" <=> scope'[j] = None
  BY <1>3, <1>7 DEF InstancesFollow
<1> QED
  BY <1>8, <1>9, <1>10 DEF InstancesFollow

LEMMA NextInstances ==
    ASSUME TypeOK, CallProceeds, NamesFollow, InstancesFollow, [Next]_vars
    PROVE  InstancesFollow'
<1>0. None \notin Names /\ None \notin Instances
  BY DeliveryAssumption DEF Names
<1>1. CASE UNCHANGED <<informers, removing, scope, life>>
  BY <1>1 DEF InstancesFollow, Tracks
<1>2. ASSUME NEW ns \in Names, BeginRemove(ns)
      PROVE  InstancesFollow'
  <2>1. /\ Tracks(ns) /\ removing = None /\ removing' = ns
        /\ life' = [life EXCEPT ![informers[ns]] = "stopping"]
        /\ UNCHANGED <<informers, scope>>
    BY <1>2 DEF BeginRemove, LockFree
  <2>2. informers[ns] \in Instances /\ scope[informers[ns]] = ns
    BY <2>1, TrackedName
  <2>3. \A m \in Names : Tracks(m) => informers[m] \in Instances /\ scope[informers[m]] = m
    BY TrackedName
  <2>4. \A m \in Names : Tracks(m) => (informers[m] = informers[ns] <=> m = ns)
    BY <2>2, <2>3
  <2>5. \A m \in Names : Tracks(m) => (life'[informers[m]] = "running" <=> m # ns)
    BY <1>0, <2>1, <2>2, <2>3, <2>4 DEF InstancesFollow, TypeOK
  <2>6. \A j \in Instances : life'[j] = "running" => life[j] = "running"
    BY <2>1 DEF TypeOK
  <2>7. \A j \in Instances : life'[j] = "unused" <=> life[j] = "unused"
    BY <1>0, <2>1, <2>2 DEF InstancesFollow, TypeOK
  <2> QED
    BY <2>1, <2>5, <2>6, <2>7 DEF InstancesFollow, Tracks
<1>3. CASE EndRemove
  <2>1. /\ removing # None /\ removing' = None
        /\ informers' = [informers EXCEPT ![removing] = None]
        /\ UNCHANGED <<scope, life>>
    BY <1>3 DEF EndRemove, Forgotten, LockFree, instance
  <2>2. \A m \in Names : Tracks(m)' <=> Tracks(m) /\ m # removing
    BY <2>1 DEF Tracks, TypeOK
  <2>3. \A m \in Names \ {removing} : informers'[m] = informers[m]
    BY <2>1 DEF TypeOK
  <2>4. \A m \in Names : Tracks(m)' =>
          scope[informers'[m]] = m /\ (life[informers'[m]] = "running" <=> m # None)
    BY <1>0, <2>2, <2>3 DEF InstancesFollow
  <2>5. ASSUME NEW j \in Instances, life[j] = "running"
        PROVE  scope[j] \in Names /\ informers'[scope[j]] = j
    <3>1. scope[j] \in Names /\ informers[scope[j]] = j /\ Tracks(scope[j])
      BY <1>0, <2>5 DEF InstancesFollow, Tracks
    <3>2. scope[j] # removing
      BY <2>5, <3>1 DEF InstancesFollow
    <3> QED
      BY <2>3, <3>1, <3>2
  <2> QED
    BY <2>1, <2>4, <2>5 DEF InstancesFollow
<1>4. ASSUME NEW i \in Instances, End(i)
      PROVE  InstancesFollow'
  <2>1. /\ life[i] = "stopping" /\ life' = [life EXCEPT ![i] = "ended"]
        /\ UNCHANGED <<informers, removing, scope>>
    BY <1>4 DEF End, removal
  <2>2. \A j \in Instances : /\ life'[j] = "running" <=> life[j] = "running"
                             /\ life'[j] = "unused" <=> life[j] = "unused"
    BY <2>1 DEF TypeOK
  <2>3. \A m \in Names : Tracks(m) => informers[m] \in Instances
    BY TrackedName
  <2> QED
    BY <2>1, <2>2, <2>3 DEF InstancesFollow, Tracks
<1>5. CASE \/ AddEventHandler \/ UNCHANGED vars \/ FinishSet
           \/ \E s \in Arguments : SetNamespaces(s)
           \/ \E o \in Objects : ServerChanges(o) \/ SendDelete(o)
           \/ \E i \in Instances : Deliver(i) \/ \E o \in Objects : Watch(i, o)
  BY <1>1, <1>5
     DEF AddEventHandler, FinishSet, SetNamespaces, ServerChanges, SendDelete, Watch, Deliver, vars,
         removal, instance
<1> QED
  BY <1>2, <1>3, <1>4, <1>5, AddNamespaceInstances DEF Next, SetProceeds, Progress

-----------------------------------------------------------------------------
(* Stores and queues.                                                      *)

LEMMA AppendAt ==
    ASSUME NEW q \in Seq(Events), NEW e \in Events
    PROVE  /\ DOMAIN Append(q, e) = DOMAIN q \union {Len(q) + 1}
           /\ Len(q) + 1 \notin DOMAIN q /\ \A k \in DOMAIN q : k \in Nat /\ k < Len(q) + 1
           /\ Append(q, e)[Len(q) + 1] = e
           /\ \A k \in DOMAIN q : Append(q, e)[k] = q[k]
  OBVIOUS

LEMMA TailAt ==
    ASSUME NEW q \in Seq(Events), q # <<>>
    PROVE  /\ DOMAIN Tail(q) = 1..(Len(q) - 1) /\ DOMAIN q = 1..Len(q) /\ Len(q) \in Nat \ {0}
           /\ Head(q) = q[1]
           /\ \A k \in DOMAIN Tail(q) : Tail(q)[k] = q[k + 1]
  OBVIOUS

\* A replay has each object of the store once, and nothing else.
LEMMA ReplayAt ==
    ASSUME NEW i \in Instances, store[i] \in SUBSET Objects, NEW q \in Replays(i)
    PROVE  /\ \A k \in DOMAIN q : \E o \in store[i] : q[k] = Event("add", o)
           /\ \A o \in store[i] : \E k \in DOMAIN q : q[k] = Event("add", o)
           /\ \A k, l \in DOMAIN q : k # l => q[k].object # q[l].object
<1>1. IsFiniteSet(store[i])
  BY DeliveryAssumption, FS_Subset
<1> DEFINE n == Cardinality(store[i])
<1>2. n \in Nat
  BY <1>1, FS_CardinalityType
<1>3. PICK order \in SetToSeqs(store[i]) : q = [k \in DOMAIN order |-> Event("add", order[k])]
  BY DEF Replays
<1>4. /\ order \in [1..n -> store[i]]
      /\ \A k, l \in 1..n : k # l => order[k] # order[l]
  BY <1>3 DEF SetToSeqs
<1>5. order \in Injection(1..n, store[i])
  BY <1>4 DEF Injection, IsInjective
<1>6. Cardinality(1..n) = n
  BY <1>2, FS_Interval
<1>7. order \in Surjection(1..n, store[i])
  BY <1>1, <1>5, <1>6, FS_Injection
<1>8. \A o \in store[i] : \E k \in 1..n : order[k] = o
  BY <1>7 DEF Surjection
<1> HIDE DEF n
<1>9. DOMAIN q = 1..n /\ \A k \in 1..n : q[k] = Event("add", order[k])
  BY <1>3, <1>4
<1> QED
  BY <1>4, <1>8, <1>9 DEF Event

LEMMA AddEventHandlerStores ==
    ASSUME TypeOK, InstancesFollow, StoresInScope, AddEventHandler
    PROVE  StoresInScope'
<1>1. PICK replay \in [Tracked -> UNION {Replays(i) : i \in Tracked}] :
        /\ \A i \in Tracked : replay[i] \in Replays(i)
        /\ queue' = [i \in Instances |-> IF i \in Tracked THEN replay[i] ELSE queue[i]]
  BY DEF AddEventHandler
<1>2. UNCHANGED <<scope, life, store>>
  BY DEF AddEventHandler
<1>3. ASSUME NEW i \in Tracked, NEW k \in DOMAIN replay[i]
      PROVE  replay[i][k].object \in ObjectsOf(scope[i])
  <2>1. i \in Instances /\ store[i] \in SUBSET Objects
    BY TrackedInstance DEF TypeOK
  <2>2. PICK o \in store[i] : replay[i][k] = Event("add", o)
    BY <1>1, <2>1, ReplayAt
  <2> QED
    BY <2>1, <2>2 DEF Event, StoresInScope
<1>4. \A i \in Instances : \A k \in DOMAIN queue'[i] : queue'[i][k].object \in ObjectsOf(scope[i])
  BY <1>1, <1>3 DEF StoresInScope
<1> QED
  BY <1>2, <1>4 DEF StoresInScope

LEMMA WatchStores ==
    ASSUME TypeOK, StoresInScope, NEW i \in Instances, NEW o \in Objects, Watch(i, o)
    PROVE  StoresInScope'
<1> DEFINE e == Event(IF o \in server THEN "add" ELSE "delete", o)
<1>1. /\ o \in ObjectsOf(scope[i]) /\ life[i] # "unused"
      /\ store' = [store EXCEPT ![i] = IF o \in server THEN @ \union {o} ELSE @ \ {o}]
      /\ \/ queue' = [queue EXCEPT ![i] = Append(@, e)]
         \/ queue' = queue
      /\ UNCHANGED <<scope, life>>
  BY DEF Watch
<1>2. e \in Events /\ e.object = o
  BY DEF Event, Events
<1> HIDE DEF e
<1>3. ASSUME NEW j \in Instances, NEW k \in DOMAIN queue'[j]
      PROVE  queue'[j][k].object \in ObjectsOf(scope[j])
  <2>1. CASE queue'[j] = queue[j]
    BY <1>3, <2>1 DEF StoresInScope
  <2>2. CASE j = i /\ queue'[i] = Append(queue[i], e)
    BY <1>1, <1>2, <1>3, <2>2, AppendAt DEF StoresInScope, TypeOK
  <2> QED
    BY <1>1, <2>1, <2>2 DEF TypeOK
<1>4. \A j \in Instances : store'[j] = store[j] \/ (j = i /\ store'[j] \subseteq store[j] \union {o})
  BY <1>1 DEF TypeOK
<1> QED
  BY <1>1, <1>3, <1>4 DEF StoresInScope

LEMMA NextStores ==
    ASSUME TypeOK, CallProceeds, InstancesFollow, StoresInScope, HandlerListens, [Next]_vars
    PROVE  StoresInScope'
<1>1. CASE UNCHANGED <<scope, store, queue, life>>
  BY <1>1 DEF StoresInScope
<1>2. ASSUME NEW ns \in Names, BeginRemove(ns)
      PROVE  StoresInScope'
  <2>1. life' = [life EXCEPT ![informers[ns]] = "stopping"] /\ UNCHANGED <<scope, store, queue>>
    BY <1>2 DEF BeginRemove
  <2>2. \A j \in Instances : life'[j] = "unused" => life[j] = "unused"
    BY <2>1 DEF TypeOK
  <2> QED
    BY <2>1, <2>2 DEF StoresInScope
<1>3. ASSUME NEW ns \in Names, AddNamespace(ns)
      PROVE  StoresInScope'
  <2>1. PICK i \in Instances : AddWith(ns, i)
    BY <1>3, AddTakesInstance
  <2>2. life[i] = "unused" /\ store[i] = {} /\ queue[i] = <<>>
    BY <1>3, <2>1 DEF AddWith, Unused, StoresInScope, HandlerListens
  <2>3. /\ life' = [life EXCEPT ![i] = "running"] /\ scope' = [scope EXCEPT ![i] = ns]
        /\ UNCHANGED <<store, queue>>
    BY <1>3, <2>1 DEF AddWith, AddNamespace
  <2>4. \A j \in Instances \ {i} : scope'[j] = scope[j] /\ life'[j] = life[j]
    BY <2>3 DEF TypeOK
  <2>5. life'[i] # "unused"
    BY <2>3 DEF TypeOK
  <2> QED
    BY <2>2, <2>3, <2>4, <2>5 DEF StoresInScope
<1>4. ASSUME NEW i \in Instances, Deliver(i)
      PROVE  StoresInScope'
  <2>1. /\ queue[i] # <<>> /\ queue' = [queue EXCEPT ![i] = Tail(@)]
        /\ UNCHANGED <<scope, store, life>>
    BY <1>4 DEF Deliver
  <2>2. ASSUME NEW k \in DOMAIN Tail(queue[i])
        PROVE  Tail(queue[i])[k].object \in ObjectsOf(scope[i])
    BY <2>1, <2>2, TailAt DEF StoresInScope, TypeOK
  <2> QED
    BY <2>1, <2>2 DEF StoresInScope, TypeOK
<1>5. ASSUME NEW i \in Instances, End(i)
      PROVE  StoresInScope'
  <2>1. /\ life' = [life EXCEPT ![i] = "ended"] /\ queue' = [queue EXCEPT ![i] = <<>>]
        /\ UNCHANGED <<scope, store>>
    BY <1>5 DEF End
  <2>2. \A j \in Instances : /\ queue'[j] = queue[j] \/ queue'[j] = <<>>
                             /\ life'[j] = "unused" => life[j] = "unused"
    BY <2>1 DEF TypeOK
  <2> QED
    BY <2>1, <2>2 DEF StoresInScope
<1>6. CASE \/ EndRemove \/ UNCHANGED vars \/ FinishSet
           \/ \E s \in Arguments : SetNamespaces(s)
           \/ \E o \in Objects : ServerChanges(o) \/ SendDelete(o)
  BY <1>1, <1>6 DEF EndRemove, FinishSet, SetNamespaces, ServerChanges, SendDelete, vars, instance
<1> QED
  BY <1>2, <1>3, <1>4, <1>5, <1>6, AddEventHandlerStores, WatchStores
     DEF Next, SetProceeds, Progress

LEMMA AddEventHandlerListens ==
    ASSUME TypeOK, InstancesFollow, HandlerListens, AddEventHandler
    PROVE  HandlerListens'
<1>1. /\ registered' /\ LockFree
      /\ listening' = listening \union Tracked
      /\ \A i \in Instances \ Tracked : queue'[i] = queue[i]
      /\ UNCHANGED <<life, removing, toDelete>>
  BY DEF AddEventHandler, removal
<1>2. \A i \in Tracked : life[i] = "running"
  BY <1>1, TrackedInstance, DeliveryAssumption DEF LockFree, Names
<1>3. \A i \in Instances : life[i] = "running" => i \in Tracked
  BY DeliveryAssumption DEF InstancesFollow, Tracked, Tracks
<1> QED
  BY <1>1, <1>2, <1>3 DEF HandlerListens, LockFree

LEMMA NextListens ==
    ASSUME TypeOK, CallProceeds, InstancesFollow, StoresInScope, HandlerListens, [Next]_vars
    PROVE  HandlerListens'
<1>1. CASE UNCHANGED <<registered, listening, view, life, queue, removing, toDelete>>
  BY <1>1 DEF HandlerListens, LockFree
<1>2. ASSUME NEW ns \in Names, BeginRemove(ns)
      PROVE  HandlerListens'
  <2>1. /\ Tracks(ns) /\ removing' = ns /\ ns # None
        /\ life' = [life EXCEPT ![informers[ns]] = "stopping"]
        /\ toDelete' \subseteq store[informers[ns]]
        /\ UNCHANGED <<registered, queue, listening, view>>
    BY <1>2, DeliveryAssumption DEF BeginRemove, DeletesFor, told, Names
  <2>2. informers[ns] \in Instances /\ scope[informers[ns]] = ns
    BY <2>1, TrackedName
  <2>3. \A o \in toDelete' : o \in ObjectsOf(ns)
    BY <2>1, <2>2 DEF StoresInScope
  <2>4. \A j \in Instances : life'[j] = life[j] \/ life'[j] = "stopping"
    BY <2>1 DEF TypeOK
  <2> QED
    BY <2>1, <2>3, <2>4 DEF HandlerListens, LockFree
<1>3. CASE EndRemove
  BY <1>3 DEF EndRemove, HandlerListens, LockFree, instance, told
<1>4. ASSUME NEW o \in Objects, SendDelete(o)
      PROVE  HandlerListens'
  BY <1>4 DEF SendDelete, HandlerListens, LockFree, instance
<1>5. ASSUME NEW ns \in Names, AddNamespace(ns)
      PROVE  HandlerListens'
  <2>1. PICK i \in Instances : AddWith(ns, i)
    BY <1>5, AddTakesInstance
  <2>2. /\ life' = [life EXCEPT ![i] = "running"] /\ life[i] = "unused"
        /\ listening' = IF registered THEN listening \union {i} ELSE listening
        /\ UNCHANGED <<registered, removing, toDelete, queue, view>>
    BY <1>5, <2>1 DEF AddWith, Unused, NewListeners, AddNamespace, removal, told
  <2>3. \A j \in Instances : life'[j] = IF j = i THEN "running" ELSE life[j]
    BY <2>2 DEF TypeOK
  <2> QED
    BY <2>2, <2>3 DEF HandlerListens, LockFree
<1>6. ASSUME NEW i \in Instances, NEW o \in Objects, Watch(i, o)
      PROVE  HandlerListens'
  <2>1. /\ life[i] \in {"running", "stopping"}
        /\ \A j \in Instances : j # i => queue'[j] = queue[j]
        /\ i \notin listening => queue'[i] = queue[i]
        /\ UNCHANGED <<registered, listening, life, removing, toDelete, view>>
    BY <1>6 DEF Watch, TypeOK, removal, told
  <2> QED
    BY <2>1 DEF HandlerListens, LockFree
<1>7. ASSUME NEW i \in Instances, Deliver(i)
      PROVE  HandlerListens'
  <2>1. /\ queue[i] # <<>>
        /\ \A j \in Instances : j # i => queue'[j] = queue[j]
        /\ UNCHANGED <<registered, listening, life, removing, toDelete>>
    BY <1>7 DEF Deliver, TypeOK, removal
  <2>2. i \in listening /\ life[i] \in {"running", "stopping"} /\ registered
    BY <2>1 DEF HandlerListens, TypeOK
  <2> QED
    BY <2>1, <2>2 DEF HandlerListens, LockFree
<1>8. ASSUME NEW i \in Instances, End(i)
      PROVE  HandlerListens'
  <2>1. /\ queue'[i] = <<>> /\ life'[i] = "ended"
        /\ \A j \in Instances : j # i => queue'[j] = queue[j] /\ life'[j] = life[j]
        /\ UNCHANGED <<registered, listening, removing, toDelete, view>>
    BY <1>8 DEF End, TypeOK, removal
  <2> QED
    BY <2>1 DEF HandlerListens, LockFree
<1>9. CASE \/ UNCHANGED vars \/ FinishSet
           \/ \E s \in Arguments : SetNamespaces(s)
           \/ \E o \in Objects : ServerChanges(o)
  BY <1>1, <1>9 DEF FinishSet, SetNamespaces, ServerChanges, vars, removal, instance, told
<1> QED
  BY <1>2, <1>3, <1>4, <1>5, <1>6, <1>7, <1>8, <1>9, AddEventHandlerListens
     DEF Next, SetProceeds, Progress

-----------------------------------------------------------------------------
(* Queues and what the handler knows.                                      *)

LEMMA AfterAppend ==
    ASSUME NEW q \in Seq(Events), NEW e \in Events, NEW v, NEW o \in Objects
    PROVE  o \in After(Append(q, e), v) <=>
             IF e.object = o THEN e.kind = "add" ELSE o \in After(q, v)
<1> DEFINE p == Append(q, e)
           n == Len(q) + 1
<1>1. /\ DOMAIN p = DOMAIN q \union {n} /\ n \notin DOMAIN q
      /\ \A k \in DOMAIN q : k \in Nat /\ k < n /\ p[k] = q[k]
      /\ p[n] = e /\ n \in Nat
  BY AppendAt
<1>2. e = Event("add", o) <=> e.kind = "add" /\ e.object = o
  BY DEF Event, Events
<1>3. o \in ObjectsIn(p) <=> o \in ObjectsIn(q) \/ e.object = o
  BY <1>1 DEF ObjectsIn
<1>4. \A k \in DOMAIN q : q[k] = Event("add", o) => q[k].object = o
  BY DEF Event
<1> HIDE DEF p, n
<1>5. CASE e.object = o
  <2>1. ASSUME NEW k \in DOMAIN p, p[k] = Event("add", o), \A l \in DOMAIN p : l > k => p[l].object # o
        PROVE  e.kind = "add"
    <3>1. k = n
      BY <1>1, <1>5, <2>1
    <3> QED
      BY <1>1, <1>2, <2>1, <3>1
  <2>2. ASSUME e.kind = "add"
        PROVE  n \in DOMAIN p /\ p[n] = Event("add", o) /\ \A l \in DOMAIN p : ~(l > n)
    BY <1>1, <1>2, <1>5, <2>2
  <2>3. o \in ObjectsIn(p)
    BY <1>3, <1>5
  <2> QED
    BY <1>5, <2>1, <2>2, <2>3 DEF After, p
<1>6. CASE e.object # o
  <2>1. ASSUME NEW k \in DOMAIN p, p[k] = Event("add", o), \A l \in DOMAIN p : l > k => p[l].object # o
        PROVE  k \in DOMAIN q /\ q[k] = Event("add", o) /\ \A l \in DOMAIN q : l > k => q[l].object # o
    <3>1. k # n
      BY <1>1, <1>2, <1>6, <2>1
    <3> QED
      BY <1>1, <2>1, <3>1
  <2>2. ASSUME NEW k \in DOMAIN q, q[k] = Event("add", o), \A l \in DOMAIN q : l > k => q[l].object # o
        PROVE  k \in DOMAIN p /\ p[k] = Event("add", o) /\ \A l \in DOMAIN p : l > k => p[l].object # o
    BY <1>1, <1>6, <2>2
  <2> QED
    <3>1. o \in After(p, v) => o \in After(q, v)
      BY <1>3, <1>6, <2>1 DEF After
    <3>2. o \in After(q, v) => o \in After(p, v)
      BY <1>3, <1>6, <2>2 DEF After
    <3> QED
      BY <1>6, <3>1, <3>2 DEF p
<1> QED
  BY <1>5, <1>6

LEMMA AfterView ==
    ASSUME NEW q, NEW v, NEW w, NEW o, o \in v <=> o \in w
    PROVE  o \in After(q, v) <=> o \in After(q, w)
  BY DEF After

LEMMA AfterOther ==
    ASSUME NEW q \in Seq(Events), NEW v, NEW o \in Objects, o \notin ObjectsIn(q)
    PROVE  o \in After(q, v) <=> o \in v
  BY DEF After, ObjectsIn, Event

LEMMA AfterReplay ==
    ASSUME NEW i \in Instances, store[i] \in SUBSET Objects, NEW q \in Replays(i),
           NEW o \in Objects
    PROVE  o \in After(q, {}) <=> o \in store[i]
<1>1. /\ \A k \in DOMAIN q : \E x \in store[i] : q[k] = Event("add", x)
      /\ \A x \in store[i] : \E k \in DOMAIN q : q[k] = Event("add", x)
      /\ \A k, l \in DOMAIN q : k # l => q[k].object # q[l].object
  BY ReplayAt
<1>2. DOMAIN q \subseteq Nat
  BY ReplayTypes
<1>3. \A x \in Objects : Event("add", x).object = x
  BY DEF Event
<1>4. ASSUME o \in store[i] PROVE o \in After(q, {})
  <2>1. PICK k \in DOMAIN q : q[k] = Event("add", o)
    BY <1>1, <1>4
  <2>2. \A l \in DOMAIN q : l > k => q[l].object # o
    BY <1>1, <1>2, <1>3, <2>1
  <2> QED
    BY <2>1, <2>2 DEF After
<1>5. ASSUME o \in After(q, {}) PROVE o \in store[i]
  <2>1. PICK k \in DOMAIN q : q[k] = Event("add", o)
    BY <1>5 DEF After
  <2>2. PICK x \in store[i] : q[k] = Event("add", x)
    BY <1>1
  <2> QED
    BY <1>3, <2>1, <2>2
<1> QED
  BY <1>4, <1>5

LEMMA AfterTail ==
    ASSUME NEW q \in Seq(Events), q # <<>>, NEW v, NEW w, NEW o \in Objects,
           w = IF Head(q).kind = "add" THEN v \union {Head(q).object} ELSE v \ {Head(q).object}
    PROVE  /\ o \in After(Tail(q), w) <=> o \in After(q, v)
           /\ ObjectsIn(q) = ObjectsIn(Tail(q)) \union {Head(q).object}
<1> DEFINE t == Tail(q)
           n == Len(q)
<1>1. /\ n \in Nat \ {0} /\ DOMAIN q = 1..n /\ DOMAIN t = 1..(n - 1)
      /\ Head(q) = q[1]
      /\ \A k \in 1..(n - 1) : t[k] = q[k + 1]
  BY TailAt
<1> HIDE DEF t, n
<1>2. \A k \in 2..n : k - 1 \in 1..(n - 1) /\ q[k] = t[k - 1]
  BY <1>1
<1>3. ObjectsIn(q) = ObjectsIn(t) \union {q[1].object}
  <2>1. \A k \in 1..n : k = 1 \/ k \in 2..n
    BY <1>1
  <2>2. ObjectsIn(q) \subseteq ObjectsIn(t) \union {q[1].object}
    <3>1. \A k \in DOMAIN q : q[k].object = q[1].object \/ \E l \in DOMAIN t : q[k].object = t[l].object
      BY <1>1, <1>2, <2>1
    <3>2. \A x \in ObjectsIn(q) : \E k \in DOMAIN q : x = q[k].object
      BY DEF ObjectsIn
    <3>3. \A l \in DOMAIN t : t[l].object \in ObjectsIn(t)
      BY DEF ObjectsIn
    <3> QED
      BY <3>1, <3>2, <3>3
  <2>3. \A k \in 1..(n - 1) : k + 1 \in 1..n
    BY <1>1
  <2>4. ObjectsIn(t) \subseteq ObjectsIn(q)
    BY <1>1, <2>3 DEF ObjectsIn
  <2>5. q[1].object \in ObjectsIn(q)
    BY <1>1 DEF ObjectsIn
  <2> QED
    BY <2>2, <2>4, <2>5
<1>4. q[1] \in Events
  BY <1>1
<1>5. q[1] = Event("add", o) <=> q[1].kind = "add" /\ q[1].object = o
  BY <1>4 DEF Event, Events
<1>6. ASSUME NEW k \in 1..(n - 1), t[k] = Event("add", o), \A l \in DOMAIN t : l > k => t[l].object # o
      PROVE  o \in After(q, v)
  <2>1. k + 1 \in DOMAIN q /\ q[k + 1] = Event("add", o)
    BY <1>1, <1>6
  <2>2. ASSUME NEW l \in DOMAIN q, l > k + 1 PROVE q[l].object # o
    <3>1. l \in 2..n /\ l - 1 > k /\ l - 1 \in DOMAIN t
      BY <1>1, <2>2
    <3> QED
      BY <1>2, <1>6, <3>1
  <2> QED
    BY <2>1, <2>2 DEF After
<1>7. ASSUME NEW k \in 2..n, q[k] = Event("add", o), \A l \in DOMAIN q : l > k => q[l].object # o
      PROVE  o \in After(t, w)
  <2>1. k - 1 \in DOMAIN t /\ t[k - 1] = Event("add", o)
    BY <1>1, <1>2, <1>7
  <2>2. ASSUME NEW l \in DOMAIN t, l > k - 1 PROVE t[l].object # o
    <3>1. l \in 1..(n - 1) /\ l + 1 \in DOMAIN q /\ l + 1 > k
      BY <1>1, <2>2
    <3> QED
      BY <1>1, <1>7, <3>1
  <2> QED
    BY <2>1, <2>2 DEF After
<1>8. o \notin ObjectsIn(t) => (o \in w <=> IF q[1].object = o THEN q[1].kind = "add" ELSE o \in v)
  BY <1>1
<1>9. ASSUME o \in After(t, w) PROVE o \in After(q, v)
  <2>1. CASE o \in w /\ o \notin ObjectsIn(t)
    <3>1. CASE q[1].object = o
      <4>1. q[1] = Event("add", o)
        BY <1>5, <1>8, <2>1, <3>1
      <4>2. ASSUME NEW l \in DOMAIN q, l > 1 PROVE q[l].object # o
        <5>1. l \in 2..n /\ l - 1 \in DOMAIN t
          BY <1>1, <4>2
        <5>2. t[l - 1].object \in ObjectsIn(t)
          BY <5>1 DEF ObjectsIn
        <5> QED
          BY <1>2, <2>1, <5>1, <5>2
      <4> QED
        BY <1>1, <4>1, <4>2 DEF After
    <3>2. CASE q[1].object # o
      BY <1>3, <1>8, <2>1, <3>2 DEF After
    <3> QED
      BY <3>1, <3>2
  <2> QED
    BY <1>1, <1>6, <1>9, <2>1 DEF After
<1>10. ASSUME o \in After(q, v) PROVE o \in After(t, w)
  <2>1. CASE o \in v /\ o \notin ObjectsIn(q)
    BY <1>3, <1>8, <2>1 DEF After
  <2>2. CASE q[1] = Event("add", o) /\ \A l \in DOMAIN q : l > 1 => q[l].object # o
    <3>1. o \notin ObjectsIn(t)
      BY <1>1, <2>2 DEF ObjectsIn
    <3> QED
      BY <1>5, <1>8, <2>2, <3>1 DEF After
  <2> QED
    BY <1>1, <1>7, <1>10, <2>1, <2>2 DEF After
<1> QED
  BY <1>1, <1>3, <1>9, <1>10 DEF t

-----------------------------------------------------------------------------
(* What the handler was told.                                              *)

LEMMA QueuedObjects ==
    ASSUME NEW i
    PROVE  Queued(i) = ObjectsIn(queue[i])
  BY DEF Queued, ObjectsIn, ToSet

\* Running instances that cover the same object are one.
LEMMA RunningApart ==
    ASSUME TypeOK, CallProceeds, NamesFollow, InstancesFollow,
           NEW i \in Instances, NEW j \in Instances, life[i] = "running", life[j] = "running",
           NEW o, o \in ObjectsOf(scope[i]), o \in ObjectsOf(scope[j])
    PROVE  i = j
<1>1. i \in Tracked /\ j \in Tracked
  BY DeliveryAssumption DEF InstancesFollow, Tracked, Tracks
<1> QED
  BY <1>1, InstancesApart

\* An object that is disturbed once stays so.
LEMMA NextCalm ==
    ASSUME TypeOK, CallProceeds, InstancesFollow, StoresInScope, [Next]_vars
    PROVE  Calm' \subseteq Calm
<1>1. ASSUME \A o \in Objects : o \in late => o \in late',
             \A i \in Instances : life[i] = "stopping" =>
                \A o \in ObjectsIn(queue[i]) :
                   o \in late' \/ (life'[i] = "stopping" /\ o \in ObjectsIn(queue'[i]))
      PROVE  Calm' \subseteq Calm
  BY <1>1 DEF Calm
<1>2. CASE UNCHANGED <<late, life, queue>>
  BY <1>1, <1>2
<1>3. ASSUME NEW ns \in Names, BeginRemove(ns)
      PROVE  Calm' \subseteq Calm
  <2>1. life' = [life EXCEPT ![informers[ns]] = "stopping"] /\ UNCHANGED <<late, queue>>
    BY <1>3 DEF BeginRemove, told
  <2>2. \A i \in Instances : life[i] = "stopping" => life'[i] = "stopping"
    BY <2>1 DEF TypeOK
  <2> QED
    BY <1>1, <2>1, <2>2
<1>4. ASSUME NEW ns \in Names, AddNamespace(ns)
      PROVE  Calm' \subseteq Calm
  <2>1. PICK i \in Instances : AddWith(ns, i)
    BY <1>4, AddTakesInstance
  <2>2. /\ life' = [life EXCEPT ![i] = "running"] /\ life[i] = "unused"
        /\ UNCHANGED <<late, queue>>
    BY <1>4, <2>1 DEF AddWith, Unused, AddNamespace, told
  <2>3. \A j \in Instances : life[j] = "stopping" => life'[j] = "stopping"
    BY <2>2 DEF TypeOK
  <2> QED
    BY <1>1, <2>2, <2>3
<1>5. CASE AddEventHandler
  <2>1. /\ LockFree /\ \A i \in Instances \ Tracked : queue'[i] = queue[i]
        /\ UNCHANGED <<late, life>>
    BY <1>5 DEF AddEventHandler, told
  <2>2. \A i \in Tracked : life[i] = "running"
    BY <2>1, TrackedInstance, DeliveryAssumption DEF LockFree, Names
  <2>3. \A i \in Instances : life[i] = "stopping" => queue'[i] = queue[i]
    BY <2>1, <2>2
  <2> QED
    BY <1>1, <2>1, <2>3
<1>6. ASSUME NEW i \in Instances, NEW o \in Objects, Watch(i, o)
      PROVE  Calm' \subseteq Calm
  <2>1. /\ \/ UNCHANGED queue
           \/ \E e \in Events : queue' = [queue EXCEPT ![i] = Append(queue[i], e)]
        /\ UNCHANGED <<late, life>>
    BY <1>6 DEF Watch, told, Event, Events
  <2>2. ASSUME NEW e \in Events
        PROVE  ObjectsIn(queue[i]) \subseteq ObjectsIn(Append(queue[i], e))
    BY AppendAt DEF ObjectsIn, TypeOK
  <2>3. \A j \in Instances : ObjectsIn(queue[j]) \subseteq ObjectsIn(queue'[j])
    BY <2>1, <2>2 DEF TypeOK
  <2> QED
    BY <1>1, <2>1, <2>3
<1>7. ASSUME NEW i \in Instances, Deliver(i)
      PROVE  Calm' \subseteq Calm
  <2>1. /\ queue[i] # <<>> /\ queue' = [queue EXCEPT ![i] = Tail(@)]
        /\ late' = IF life[i] = "stopping" THEN late \union {Head(queue[i]).object} ELSE late
        /\ UNCHANGED life
    BY <1>7 DEF Deliver
  <2>2. \A o \in Objects : o \in ObjectsIn(queue[i]) =>
          o = Head(queue[i]).object \/ o \in ObjectsIn(Tail(queue[i]))
    BY <2>1, AfterTail DEF TypeOK
  <2>3. \A k \in DOMAIN queue[i] : queue[i][k].object \in Objects
    <3>1. \A k \in DOMAIN queue[i] : queue[i][k] \in Events
      BY DEF TypeOK
    <3> QED
      BY <3>1 DEF Events
  <2>4. \A o \in ObjectsIn(queue[i]) : o \in Objects
    BY <2>3 DEF ObjectsIn
  <2>5. /\ queue'[i] = Tail(queue[i])
        /\ \A j \in Instances : j # i => queue'[j] = queue[j]
    BY <2>1 DEF TypeOK
  <2> QED
    BY <1>1, <2>1, <2>2, <2>4, <2>5
<1>8. ASSUME NEW i \in Instances, End(i)
      PROVE  Calm' \subseteq Calm
  <2>1. /\ late' = late \union ObjectsIn(queue[i])
        /\ \A j \in Instances : j # i => life'[j] = life[j] /\ queue'[j] = queue[j]
    BY <1>8, QueuedObjects DEF End, TypeOK
  <2> QED
    BY <1>1, <2>1
<1>9. CASE \/ UNCHANGED vars \/ FinishSet \/ EndRemove
           \/ \E s \in Arguments : SetNamespaces(s)
           \/ \E o \in Objects : ServerChanges(o) \/ SendDelete(o)
  BY <1>2, <1>9
     DEF FinishSet, EndRemove, SetNamespaces, ServerChanges, SendDelete, vars, instance, told
<1> QED
  BY <1>3, <1>4, <1>5, <1>6, <1>7, <1>8, <1>9 DEF Next, SetProceeds, Progress

LEMMA NextCovered ==
    ASSUME Inv, [Next]_vars
    PROVE  ViewCovered'
<1>0. TypeOK /\ CallProceeds /\ NamesFollow /\ InstancesFollow /\ StoresInScope /\ HandlerListens
  BY DEF Inv
<1>1. Calm' \subseteq Calm
  BY <1>0, NextCalm
<1>2. CASE view' \subseteq view /\ UNCHANGED <<toDelete, life, scope>>
  BY <1>1, <1>2 DEF Inv, ViewCovered
<1>3. ASSUME NEW ns \in Names, BeginRemove(ns)
      PROVE  ViewCovered'
  <2> DEFINE i == informers[ns]
  <2>1. /\ Tracks(ns) /\ LockFree
        /\ life' = [life EXCEPT ![i] = "stopping"]
        /\ toDelete' = IF registered THEN store[i] ELSE {}
        /\ UNCHANGED <<scope, store, queue, view>>
    BY <1>3 DEF BeginRemove, DeletesFor, told
  <2>2. i \in Instances
    BY <1>0, <2>1, TrackedName
  <2> HIDE DEF i
  <2>3. life'[i] = "stopping" /\ \A j \in Instances : j # i => life'[j] = life[j]
    BY <1>0, <2>1, <2>2 DEF TypeOK
  <2>4. toDelete = {}
    BY <1>0, <2>1 DEF HandlerListens
  <2> SUFFICES ASSUME NEW o \in view, o \in Calm'
               PROVE  \/ o \in toDelete'
                      \/ \E j \in Instances : life'[j] = "running" /\ o \in ObjectsOf(scope[j])
    BY <2>1 DEF ViewCovered
  <2>5. o \in Calm /\ registered /\ o \in Objects
    BY <1>0, <1>1 DEF HandlerListens, TypeOK
  <2>6. PICK j \in Instances : life[j] = "running" /\ o \in ObjectsOf(scope[j])
    BY <2>4, <2>5 DEF Inv, ViewCovered
  <2>7. CASE j = i
    <3>1. o \notin ObjectsIn(queue[i])
      BY <2>1, <2>2, <2>3 DEF Calm
    <3>2. o \in After(queue[i], view)
      BY <1>0, <2>2, <2>5, <3>1, AfterOther DEF TypeOK
    <3>3. o \in store[i]
      BY <2>2, <2>5, <2>6, <2>7, <3>2 DEF Inv, RunningReport
    <3> QED
      BY <2>1, <2>5, <3>3
  <2> QED
    BY <2>3, <2>6, <2>7
<1>4. ASSUME NEW o \in Objects, SendDelete(o)
      PROVE  ViewCovered'
  BY <1>1, <1>4 DEF SendDelete, Inv, ViewCovered, instance
<1>5. ASSUME NEW ns \in Names, AddNamespace(ns)
      PROVE  ViewCovered'
  <2>1. PICK i \in Instances : AddWith(ns, i)
    BY <1>0, <1>5, AddTakesInstance
  <2>2. /\ life' = [life EXCEPT ![i] = "running"] /\ life[i] = "unused"
        /\ scope' = [scope EXCEPT ![i] = ns]
        /\ UNCHANGED <<view, toDelete>>
    BY <1>5, <2>1 DEF AddWith, Unused, AddNamespace, told, removal
  <2>3. \A j \in Instances : life[j] = "running" => life'[j] = "running" /\ scope'[j] = scope[j]
    BY <1>0, <2>2 DEF TypeOK
  <2> QED
    BY <1>1, <2>2, <2>3 DEF Inv, ViewCovered
<1>6. ASSUME NEW i \in Instances, Deliver(i)
      PROVE  ViewCovered'
  <2> DEFINE x == Head(queue[i]).object
  <2>1. /\ queue[i] # <<>>
        /\ view' \subseteq view \union {x}
        /\ late' = IF life[i] = "stopping" THEN late \union {x} ELSE late
        /\ UNCHANGED <<toDelete, life, scope>>
    BY <1>6 DEF Deliver, removal
  <2>2. x \in ObjectsOf(scope[i]) /\ life[i] \in {"running", "stopping"}
    BY <1>0, <2>1, TailAt DEF StoresInScope, HandlerListens, TypeOK
  <2>3. life[i] = "stopping" => x \notin Calm'
    BY <2>1 DEF Calm
  <2> HIDE DEF x
  <2> QED
    BY <1>1, <2>1, <2>2, <2>3 DEF Inv, ViewCovered
<1>7. ASSUME NEW i \in Instances, End(i)
      PROVE  ViewCovered'
  <2>1. /\ life[i] = "stopping" /\ life' = [life EXCEPT ![i] = "ended"]
        /\ UNCHANGED <<view, toDelete, scope>>
    BY <1>7 DEF End, removal
  <2>2. \A j \in Instances : life[j] = "running" => life'[j] = "running"
    BY <1>0, <2>1 DEF TypeOK
  <2> QED
    BY <1>1, <2>1, <2>2 DEF Inv, ViewCovered
<1>8. CASE \/ UNCHANGED vars \/ FinishSet \/ EndRemove \/ AddEventHandler
           \/ \E s \in Arguments : SetNamespaces(s)
           \/ \E o \in Objects : ServerChanges(o)
           \/ \E i \in Instances : \E o \in Objects : Watch(i, o)
  BY <1>2, <1>8
     DEF FinishSet, EndRemove, AddEventHandler, SetNamespaces, ServerChanges, Watch, vars,
         instance, told, removal
<1> QED
  BY <1>3, <1>4, <1>5, <1>6, <1>7, <1>8 DEF Next, SetProceeds, Progress

LEMMA NextReport ==
    ASSUME Inv, [Next]_vars
    PROVE  RunningReport'
<1>0. TypeOK /\ CallProceeds /\ NamesFollow /\ InstancesFollow /\ StoresInScope /\ HandlerListens
  BY DEF Inv
<1>1. Calm' \subseteq Calm
  BY <1>0, NextCalm
<1>2. ASSUME UNCHANGED <<registered, queue, view, store, scope>>,
             \A i \in Instances : life'[i] = "running" => life[i] = "running"
      PROVE  RunningReport'
  BY <1>1, <1>2 DEF Inv, RunningReport
<1>3. ASSUME NEW ns \in Names, BeginRemove(ns)
      PROVE  RunningReport'
  <2>1. /\ life' = [life EXCEPT ![informers[ns]] = "stopping"]
        /\ UNCHANGED <<registered, queue, view, store, scope>>
    BY <1>3 DEF BeginRemove, told
  <2> QED
    BY <1>0, <1>2, <2>1 DEF TypeOK
<1>4. ASSUME NEW x \in Objects, SendDelete(x)
      PROVE  RunningReport'
  <2>1. /\ x \in toDelete /\ view' = view \ {x}
        /\ UNCHANGED <<registered, queue, store, scope, life>>
    BY <1>4 DEF SendDelete, instance
  <2>2. x \in ObjectsOf(removing) /\ removing # None
    BY <1>0, <2>1 DEF HandlerListens, LockFree
  <2>3. removing \in Names /\ Tracks(removing)
    <3>1. removing \in namespaces
      BY <1>0, <2>2 DEF CallProceeds, LockFree
    <3>2. removing \in Names
      BY <1>0, <3>1, ArgumentNames DEF CallProceeds
    <3> QED
      BY <1>0, <3>2 DEF NamesFollow
  <2>4. ASSUME NEW i \in Instances, life[i] = "running"
        PROVE  x \notin ObjectsOf(scope[i])
    <3>1. scope[i] \in Names /\ Tracks(scope[i]) /\ scope[i] # removing
      BY <1>0, <2>4, DeliveryAssumption DEF InstancesFollow, Tracks
    <3> QED
      BY <1>0, <2>2, <2>3, <3>1, NamesApart
  <2>5. \A i \in Instances, o \in Objects :
          o # x => (o \in After(queue[i], view') <=> o \in After(queue[i], view))
    BY <2>1, AfterView
  <2>6. Calm \subseteq Objects
    BY DEF Calm
  <2> QED
    BY <1>1, <2>1, <2>4, <2>5, <2>6 DEF Inv, RunningReport
<1>5. ASSUME NEW ns \in Names, AddNamespace(ns)
      PROVE  RunningReport'
  <2>1. PICK i \in Instances : AddWith(ns, i)
    BY <1>0, <1>5, AddTakesInstance
  <2>2. /\ life' = [life EXCEPT ![i] = "running"] /\ life[i] = "unused"
        /\ scope' = [scope EXCEPT ![i] = ns]
        /\ ns \in toAdd /\ LockFree /\ toRemove = {}
        /\ UNCHANGED <<registered, view, queue, store>>
    BY <1>5, <2>1 DEF AddWith, Unused, AddNamespace, RemovalsDone, told
  <2>3. /\ \A j \in Instances : j # i => life'[j] = life[j] /\ scope'[j] = scope[j]
        /\ scope'[i] = ns
    BY <1>0, <2>2 DEF TypeOK
  <2>4. store[i] = {} /\ queue[i] = <<>>
    BY <1>0, <2>2 DEF StoresInScope, HandlerListens
  <2>5. ASSUME NEW j \in Instances, life[j] = "running", NEW o, o \in ObjectsOf(ns)
        PROVE  o \notin ObjectsOf(scope[j])
    <3>1. scope[j] \in Names /\ Tracks(scope[j])
      BY <1>0, <2>5, DeliveryAssumption DEF InstancesFollow, Tracks
    <3>2. target \in Arguments /\ ns \in target /\ Wanted = target
      BY <1>0, <2>2 DEF CallProceeds, Wanted
    <3>3. scope[j] \in target \ toAdd
      BY <1>0, <2>2, <3>1, <3>2, DeliveryAssumption DEF NamesFollow, LockFree, Names
    <3> QED
      BY <2>2, <2>5, <3>2, <3>3, ArgumentsApart
  <2>6. ASSUME NEW o \in ObjectsOf(ns), o \in Calm
        PROVE  o \notin view
    BY <1>0, <2>2, <2>5, <2>6 DEF Inv, ViewCovered, HandlerListens
  <2>7. ObjectsIn(<<>>) = {} /\ <<>> \in Seq(Events)
    BY DEF ObjectsIn
  <2>8. \A o \in Calm : o \in After(queue[i], view) <=> o \in view
    BY <2>4, <2>7, AfterOther DEF Calm
  <2> QED
    BY <1>1, <2>2, <2>3, <2>4, <2>6, <2>8 DEF Inv, RunningReport
<1>6. CASE AddEventHandler
  <2>1. PICK replay \in [Tracked -> UNION {Replays(i) : i \in Tracked}] :
          /\ \A i \in Tracked : replay[i] \in Replays(i)
          /\ queue' = [i \in Instances |-> IF i \in Tracked THEN replay[i] ELSE queue[i]]
    BY <1>6 DEF AddEventHandler
  <2>2. ~registered /\ UNCHANGED <<life, store, scope, view>>
    BY <1>6 DEF AddEventHandler, told
  <2>3. view = {}
    BY <1>0, <2>2 DEF HandlerListens
  <2>4. ASSUME NEW i \in Instances, life[i] = "running", NEW o \in Objects
        PROVE  o \in After(queue'[i], {}) <=> o \in store[i]
    <3>1. i \in Tracked /\ store[i] \in SUBSET Objects
      BY <1>0, <2>4, DeliveryAssumption DEF InstancesFollow, Tracked, Tracks, TypeOK
    <3>2. queue'[i] \in Replays(i)
      BY <2>1, <3>1
    <3> QED
      BY <3>1, <3>2, AfterReplay
  <2>5. Calm \subseteq Objects
    BY DEF Calm
  <2> QED
    BY <1>1, <2>2, <2>3, <2>4, <2>5 DEF RunningReport
<1>7. ASSUME NEW i \in Instances, NEW x \in Objects, Watch(i, x)
      PROVE  RunningReport'
  <2> DEFINE e == Event(IF x \in server THEN "add" ELSE "delete", x)
  <2>1. /\ store' = [store EXCEPT ![i] = IF x \in server THEN @ \union {x} ELSE @ \ {x}]
        /\ queue' = IF i \in listening THEN [queue EXCEPT ![i] = Append(queue[i], e)] ELSE queue
        /\ UNCHANGED <<registered, life, scope, view>>
    BY <1>7 DEF Watch, told
  <2>2. e \in Events /\ e.object = x /\ (e.kind = "add" <=> x \in server)
    BY DEF Event, Events
  <2> HIDE DEF e
  <2>3. \A j \in Instances : j # i => store'[j] = store[j] /\ queue'[j] = queue[j]
    BY <1>0, <2>1 DEF TypeOK
  <2>4. ASSUME registered, life[i] = "running", NEW o \in Objects, o \in ObjectsOf(scope[i]), o \in Calm
        PROVE  o \in After(queue'[i], view) <=> o \in store'[i]
    <3>1. queue'[i] = Append(queue[i], e) /\ queue[i] \in Seq(Events)
      BY <1>0, <2>1, <2>4 DEF HandlerListens, TypeOK
    <3>2. o \in After(queue[i], view) <=> o \in store[i]
      BY <2>4 DEF Inv, RunningReport
    <3>3. o \in After(queue'[i], view) <=> IF x = o THEN x \in server ELSE o \in After(queue[i], view)
      BY <2>2, <3>1, AfterAppend
    <3>4. o \in store'[i] <=> IF x = o THEN x \in server ELSE o \in store[i]
      BY <1>0, <2>1 DEF TypeOK
    <3> QED
      BY <3>2, <3>3, <3>4
  <2>5. Calm \subseteq Objects
    BY DEF Calm
  <2> QED
    BY <1>1, <2>1, <2>3, <2>4, <2>5 DEF Inv, RunningReport
<1>8. ASSUME NEW i \in Instances, Deliver(i)
      PROVE  RunningReport'
  <2> DEFINE x == Head(queue[i]).object
  <2>1. /\ queue[i] # <<>>
        /\ queue' = [queue EXCEPT ![i] = Tail(@)]
        /\ view' = IF Head(queue[i]).kind = "add" THEN view \union {x} ELSE view \ {x}
        /\ late' = IF life[i] = "stopping" THEN late \union {x} ELSE late
        /\ UNCHANGED <<registered, store, life, scope>>
    BY <1>8 DEF Deliver
  <2>2. /\ x \in ObjectsOf(scope[i]) /\ life[i] \in {"running", "stopping"}
        /\ queue[i] \in Seq(Events)
    BY <1>0, <2>1, TailAt DEF StoresInScope, HandlerListens, TypeOK
  <2>3. queue'[i] = Tail(queue[i]) /\ \A j \in Instances : j # i => queue'[j] = queue[j]
    BY <1>0, <2>1 DEF TypeOK
  <2>4. \A o \in Objects : o \in After(queue'[i], view') <=> o \in After(queue[i], view)
    BY <2>1, <2>2, <2>3, AfterTail
  <2>5. \A o \in Objects : o # x => (o \in view' <=> o \in view)
    BY <2>1
  <2>6. life[i] = "stopping" => x \notin Calm'
    BY <2>1 DEF Calm
  <2> HIDE DEF x
  <2>7. ASSUME NEW j \in Instances, life[j] = "running", j # i, NEW o \in Objects,
               o \in ObjectsOf(scope[j]), o \in Calm'
        PROVE  o \in After(queue'[j], view') <=> o \in After(queue[j], view)
    <3>1. o # x
      BY <1>0, <2>2, <2>6, <2>7, RunningApart
    <3> QED
      BY <2>3, <2>5, <2>7, <3>1, AfterView
  <2>8. Calm \subseteq Objects
    BY DEF Calm
  <2> SUFFICES ASSUME registered, NEW j \in Instances, life[j] = "running",
                      NEW o \in ObjectsOf(scope[j]), o \in Calm'
               PROVE  o \in After(queue'[j], view') <=> o \in store[j]
    BY <2>1 DEF RunningReport
  <2>9. o \in After(queue[j], view) <=> o \in store[j]
    BY <1>1 DEF Inv, RunningReport
  <2> QED
    BY <1>1, <2>4, <2>7, <2>8, <2>9
<1>9. ASSUME NEW i \in Instances, End(i)
      PROVE  RunningReport'
  <2>1. /\ life' = [life EXCEPT ![i] = "ended"] /\ queue' = [queue EXCEPT ![i] = <<>>]
        /\ UNCHANGED <<registered, view, store, scope>>
    BY <1>9 DEF End
  <2>2. \A j \in Instances : life'[j] = "running" => life[j] = "running" /\ queue'[j] = queue[j]
    BY <1>0, <2>1 DEF TypeOK
  <2> QED
    BY <1>1, <2>1, <2>2 DEF Inv, RunningReport
<1>10. CASE \/ UNCHANGED vars \/ FinishSet \/ EndRemove
            \/ \E s \in Arguments : SetNamespaces(s)
            \/ \E o \in Objects : ServerChanges(o)
  BY <1>2, <1>10
     DEF FinishSet, EndRemove, SetNamespaces, ServerChanges, vars, instance, told
<1> QED
  BY <1>3, <1>4, <1>5, <1>6, <1>7, <1>8, <1>9, <1>10 DEF Next, SetProceeds, Progress

-----------------------------------------------------------------------------
(* The informer.                                                           *)

LEMMA InitInv == Init => Inv
<1> SUFFICES ASSUME Init PROVE Inv
  OBVIOUS
<1>1. TypeOK
  <2>1. /\ namespaces = {} /\ target = None /\ toRemove = {} /\ toAdd = {} /\ toDelete = {}
        /\ removing = None /\ registered = FALSE /\ listening = {} /\ view = {} /\ late = {}
        /\ server \in SUBSET Objects /\ calls = 0 /\ changes = 0
    BY DEF Init
  <2>2. /\ informers \in [Names -> Instances \union {None}]
        /\ scope \in [Instances -> Names \union {None}]
        /\ life \in [Instances -> Lives]
    BY DEF Init, Lives
  <2>3. store \in [Instances -> SUBSET Objects] /\ queue \in [Instances -> Seq(Events)]
    BY DEF Init
  <2> QED
    BY <2>1, <2>2, <2>3 DEF TypeOK
<1>2. {} \in Arguments
  BY DEF Arguments
<1>3. CallProceeds
  <2>1. Unused = Instances
    BY DEF Init, Unused
  <2>2. Cardinality({}) = 0 /\ Cardinality(Instances) \in Nat
    BY DeliveryAssumption, FS_EmptySet, FS_CardinalityType
  <2>3. Cardinality(toAdd) <= Cardinality(Unused)
    BY <2>1, <2>2 DEF Init
  <2> QED
    BY <1>2, <2>3 DEF Init, CallProceeds, LockFree
<1>4. NamesFollow
  BY DeliveryAssumption DEF Init, NamesFollow, Tracks, Wanted, Names
<1>5. InstancesFollow
  BY DEF Init, InstancesFollow, Tracks
<1>6. StoresInScope /\ HandlerListens
  BY DEF Init, StoresInScope, HandlerListens, LockFree
<1>7. ViewCovered /\ RunningReport
  BY DEF Init, ViewCovered, RunningReport
<1> QED
  BY <1>1, <1>3, <1>4, <1>5, <1>6, <1>7 DEF Inv

LEMMA NextInv == Inv /\ [Next]_vars => Inv'
<1> SUFFICES ASSUME Inv, [Next]_vars PROVE Inv'
  OBVIOUS
<1>1. TypeOK /\ CallProceeds /\ NamesFollow /\ InstancesFollow /\ StoresInScope /\ HandlerListens
  BY DEF Inv
<1>2. TypeOK' /\ CallProceeds' /\ NamesFollow' /\ InstancesFollow' /\ StoresInScope' /\ HandlerListens'
  BY <1>1, NextType, NextCall, NextNames, NextInstances, NextStores, NextListens
<1>3. ViewCovered' /\ RunningReport'
  BY NextCovered, NextReport
<1> QED
  BY <1>2, <1>3 DEF Inv

\* The inductive invariant: how names, instances, queues and the handler's view hang
\* together while SetNamespaces goes on.
THEOREM InvHolds == Spec => []Inv
  BY InitInv, NextInv, PTL DEF Spec

LEMMA CalmIsUndisturbed ==
    ASSUME NEW o \in Objects
    PROVE  o \in Calm <=> Undisturbed(o)
  BY QueuedObjects DEF Calm, Undisturbed, Stopping

LEMMA KnownAfter ==
    ASSUME NEW i, NEW o \in Objects
    PROVE  KnowsAfter(i, o) <=> o \in After(queue[i], view)
  BY QueuedObjects DEF KnowsAfter, After

\* A registered handler misses nothing: with what is queued for it, it knows of an
\* undisturbed object exactly what the running instance has in its store.
THEOREM HandlerKeepsUpHolds == Spec => []HandlerKeepsUp
<1>1. Inv => HandlerKeepsUp
  <2> SUFFICES ASSUME Inv, registered, NEW i \in Tracked, NEW o \in ObjectsOf(scope[i]),
                      life[i] = "running", Undisturbed(o)
               PROVE  KnowsAfter(i, o) <=> o \in store[i]
    BY DEF HandlerKeepsUp
  <2>1. i \in Instances /\ scope[i] \in Names
    BY TrackedInstance DEF Inv
  <2>2. o \in Objects /\ o \in Calm
    BY <2>1, ObjectsOfName, CalmIsUndisturbed
  <2>3. o \in After(queue[i], view) <=> o \in store[i]
    BY <2>1, <2>2 DEF Inv, RunningReport
  <2> QED
    BY <2>2, <2>3, KnownAfter
<1> QED
  BY <1>1, InvHolds, PTL

\* When no removal is under way, the handler knows no undisturbed object that no
\* tracked instance watches.
THEOREM RemovalIsAnnouncedHolds == Spec => []RemovalIsAnnounced
<1>1. Inv => RemovalIsAnnounced
  <2> SUFFICES ASSUME Inv, LockFree, NEW o \in view, Undisturbed(o)
               PROVE  \E ns \in Names : Tracks(ns) /\ o \in ObjectsOf(ns)
    BY DEF RemovalIsAnnounced
  <2>1. o \in Calm /\ o \notin toDelete
    BY CalmIsUndisturbed DEF Inv, TypeOK, HandlerListens
  <2>2. PICK i \in Instances : life[i] = "running" /\ o \in ObjectsOf(scope[i])
    BY <2>1 DEF Inv, ViewCovered
  <2>3. scope[i] \in Names /\ Tracks(scope[i])
    BY <2>2, DeliveryAssumption DEF Inv, InstancesFollow, Tracks
  <2> QED
    BY <2>2, <2>3
<1> QED
  BY <1>1, InvHolds, PTL

-----------------------------------------------------------------------------
(* Readers.                                                                *)

ReadersType == reader \in [Readers -> Reader]

\* What a reader has still to read covers no object twice, nor one that it has got.
ReadsApart ==
    \A r \in Readers :
        /\ \A o \in Objects : reader[r].got[o] <= 1
        /\ reader[r].at = "reading" =>
             \A i \in reader[r].todo :
                 /\ life[i] # "unused"
                 /\ \A o \in ObjectsOf(scope[i]) :
                      /\ reader[r].got[o] = 0
                      /\ \A j \in reader[r].todo : o \in ObjectsOf(scope[j]) => i = j

\* It reads the instances of the names it began with, whatever has become of them.
ReadsNames ==
    \A r \in Readers : reader[r].names # None =>
        /\ \A o \in Objects : reader[r].got[o] > 0 =>
             \E ns \in reader[r].names : o \in ObjectsOf(ns)
        /\ reader[r].at = "reading" => \A i \in reader[r].todo : scope[i] \in reader[r].names

\* An object that has been readable since it began has been in the store of one
\* instance, which answers and has been read or is still to be read.
ReadsStaying ==
    \A r \in Readers : \A o \in reader[r].cached :
        /\ reader[r].at = "reading" =>
             \E i \in Tracked : /\ o \in store[i]
                                /\ reader[r].kind = "values" => i \notin lacking
                                /\ reader[r].got[o] > 0 \/ i \in reader[r].todo
        /\ reader[r].at = "done" => reader[r].got[o] > 0

\* Which instances lack the index is settled before the index is read.
IndexFirst ==
    \A r \in Readers :
        reader[r].at = "reading" /\ reader[r].kind = "values" => indexAdded

ReaderInv ==
    /\ Inv
    /\ ReadersType
    /\ ReadsApart
    /\ ReadsNames
    /\ ReadsStaying
    /\ IndexFirst

LEMMA ScopeStays ==
    ASSUME Inv, [Next]_vars, NEW i \in Instances, life[i] # "unused"
    PROVE  life'[i] # "unused" /\ scope'[i] = scope[i]
<1>0. TypeOK /\ CallProceeds /\ InstancesFollow
  BY DEF Inv
<1>1. CASE UNCHANGED <<life, scope>>
  BY <1>1
<1>2. ASSUME NEW ns \in Names, BeginRemove(ns)
      PROVE  life'[i] # "unused" /\ scope'[i] = scope[i]
  BY <1>0, <1>2 DEF BeginRemove, TypeOK
<1>3. ASSUME NEW ns \in Names, AddNamespace(ns)
      PROVE  life'[i] # "unused" /\ scope'[i] = scope[i]
  <2>1. PICK j \in Instances : AddWith(ns, j)
    BY <1>0, <1>3, AddTakesInstance
  <2>2. /\ life[j] = "unused" /\ life' = [life EXCEPT ![j] = "running"]
        /\ scope' = [scope EXCEPT ![j] = ns]
    BY <2>1 DEF AddWith, Unused
  <2> QED
    BY <1>0, <2>2 DEF TypeOK
<1>4. ASSUME NEW j \in Instances, End(j)
      PROVE  life'[i] # "unused" /\ scope'[i] = scope[i]
  BY <1>0, <1>4 DEF End, TypeOK
<1>5. CASE \/ UNCHANGED vars \/ FinishSet \/ EndRemove \/ AddEventHandler
           \/ \E s \in Arguments : SetNamespaces(s)
           \/ \E o \in Objects : ServerChanges(o) \/ SendDelete(o)
           \/ \E j \in Instances : Deliver(j) \/ \E o \in Objects : Watch(j, o)
  BY <1>1, <1>5
     DEF FinishSet, EndRemove, AddEventHandler, SetNamespaces, ServerChanges, SendDelete,
         Deliver, Watch, vars, instance
<1> QED
  BY <1>2, <1>3, <1>4, <1>5 DEF Next, SetProceeds, Progress

\* An instance that is tracked from now on has an empty store.
LEMMA NewlyTracked ==
    ASSUME Inv, [Next]_vars, NEW j \in Tracked'
    PROVE  j \in Tracked \/ (j \in Instances /\ store'[j] = {})
<1>0. TypeOK /\ CallProceeds /\ InstancesFollow /\ StoresInScope
  BY DEF Inv
<1>1. CASE UNCHANGED informers
  BY <1>1 DEF Tracked, Tracks
<1>2. CASE EndRemove
  <2>1. \A ns \in Names : informers'[ns] = informers[ns] \/ informers'[ns] = None
    BY <1>0, <1>2 DEF EndRemove, Forgotten, TypeOK
  <2> QED
    BY <2>1 DEF Tracked, Tracks
<1>3. ASSUME NEW ns \in Names, AddNamespace(ns)
      PROVE  j \in Tracked \/ (j \in Instances /\ store'[j] = {})
  <2>1. PICK i \in Instances : AddWith(ns, i)
    BY <1>0, <1>3, AddTakesInstance
  <2>2. life[i] = "unused" /\ informers' = [informers EXCEPT ![ns] = i] /\ UNCHANGED store
    BY <1>3, <2>1 DEF AddWith, Unused, AddNamespace
  <2>3. \A m \in Names : informers'[m] = informers[m] \/ informers'[m] = i
    BY <1>0, <2>2 DEF TypeOK
  <2>4. j \in Tracked \/ j = i
    BY <2>3 DEF Tracked, Tracks
  <2> QED
    BY <1>0, <2>2, <2>4 DEF StoresInScope
<1>4. CASE \/ UNCHANGED vars \/ FinishSet \/ AddEventHandler
           \/ \E s \in Arguments : SetNamespaces(s)
           \/ \E ns \in Names : BeginRemove(ns)
           \/ \E o \in Objects : ServerChanges(o) \/ SendDelete(o)
           \/ \E i \in Instances : Progress(i)
  BY <1>1, <1>4
     DEF FinishSet, AddEventHandler, SetNamespaces, BeginRemove, ServerChanges, SendDelete,
         Progress, Deliver, End, Watch, vars
<1> QED
  BY <1>2, <1>3, <1>4 DEF Next, SetProceeds

\* An object that is cached before and after a step is so in the same instance: it
\* does not move from one to another.
LEMMA CachedInOne ==
    ASSUME Inv, Inv', [Next]_vars,
           NEW i \in Tracked, NEW j \in Tracked', NEW o, o \in store[i], o \in store'[j]
    PROVE  i = j
<1>0. TypeOK /\ CallProceeds /\ NamesFollow /\ InstancesFollow /\ StoresInScope /\ StoresInScope'
  BY DEF Inv
<1>1. j \in Tracked
  BY NewlyTracked
<1>2. i \in Instances /\ j \in Instances /\ scope[j] # None
  BY <1>0, <1>1, TrackedInstance, DeliveryAssumption DEF Names
<1>3. scope'[j] = scope[j]
  BY <1>0, <1>2, ScopeStays DEF InstancesFollow
<1>4. o \in ObjectsOf(scope[i]) /\ o \in ObjectsOf(scope[j])
  BY <1>0, <1>2, <1>3 DEF StoresInScope
<1> QED
  BY <1>0, <1>1, <1>4, InstancesApart

-----------------------------------------------------------------------------
(* A step of the informer, as the readers see it.                          *)

LEMMA ReaderFields ==
    ASSUME NEW rd \in Reader
    PROVE  /\ rd.kind \in Kinds /\ rd.at \in {"idle", "reading", "done", "failed"}
           /\ rd.todo \in SUBSET Instances /\ rd.got \in [Objects -> Nat]
           /\ rd.cached \in SUBSET Objects /\ rd.names \in Arguments \union {None}
  BY DEF Reader

LEMMA InformerStepReaders ==
    ASSUME ReadersType, InformerStep, NEW r \in Readers
    PROVE  LET rd == reader[r]
               new == reader'[r] IN
           /\ new \in Reader
           /\ new.at = rd.at /\ new.kind = rd.kind /\ new.todo = rd.todo /\ new.got = rd.got
           /\ new.cached = IF rd.at = "reading" THEN rd.cached \intersect Merged' ELSE rd.cached
           /\ new.names \in {rd.names, None}
<1> DEFINE rd == reader[r]
<1>1. reader'[r] = Observed(rd) /\ rd \in Reader
  BY DEF InformerStep, ReadersType
<1> HIDE DEF rd
<1>2. CASE rd.at # "reading"
  BY <1>1, <1>2 DEF Observed, rd
<1>3. CASE rd.at = "reading"
  <2> DEFINE c == rd.cached \intersect Merged'
             n == IF target' = None THEN rd.names ELSE None
  <2>1. reader'[r] = [rd EXCEPT !.cached = c, !.names = n]
    BY <1>1, <1>3 DEF Observed
  <2>2. c \in SUBSET Objects /\ n \in Arguments \union {None} /\ n \in {rd.names, None}
    BY <1>1, ReaderFields
  <2>3. c = IF rd.at = "reading" THEN rd.cached \intersect Merged' ELSE rd.cached
    BY <1>3
  <2> HIDE DEF c, n
  <2> QED
    BY <1>1, <2>1, <2>2, <2>3 DEF Reader, rd
<1> QED
  BY <1>2, <1>3

LEMMA InformerStepInv ==
    ASSUME ReaderInv, InformerStep
    PROVE  ReaderInv'
<1>1. Inv /\ Inv' /\ [Next]_vars
  BY NextInv DEF InformerStep, ReaderInv
<1>2. ReadersType'
  <2>1. \A r \in Readers : reader'[r] \in Reader
    BY InformerStepReaders DEF ReaderInv
  <2> QED
    BY <2>1 DEF InformerStep, ReadersType
<1>3. \A r \in Readers : /\ reader'[r].at = reader[r].at
                         /\ reader'[r].kind = reader[r].kind
                         /\ reader'[r].todo = reader[r].todo
                         /\ reader'[r].got = reader[r].got
                         /\ reader'[r].names \in {reader[r].names, None}
                         /\ reader[r].todo \subseteq Instances
  BY InformerStepReaders, ReaderFields DEF ReaderInv, ReadersType
<1>4. \A r \in Readers, i \in Instances : life[i] # "unused" =>
        life'[i] # "unused" /\ scope'[i] = scope[i]
  BY <1>1, ScopeStays
<1>5. \A r \in Readers : reader[r].at = "reading" =>
        \A i \in reader[r].todo : life'[i] # "unused" /\ scope'[i] = scope[i]
  BY <1>3, <1>4 DEF ReaderInv, ReadsApart
<1>6. ReadsApart'
  BY <1>3, <1>5 DEF ReaderInv, ReadsApart
<1>7. ReadsNames'
  BY <1>3, <1>5 DEF ReaderInv, ReadsNames
<1>8. ReadsStaying'
  <2> SUFFICES ASSUME NEW r \in Readers, NEW o \in reader'[r].cached
               PROVE  /\ reader'[r].at = "reading" =>
                           \E i \in Tracked' :
                              /\ o \in store'[i]
                              /\ reader'[r].kind = "values" => i \notin lacking'
                              /\ reader'[r].got[o] > 0 \/ i \in reader'[r].todo
                      /\ reader'[r].at = "done" => reader'[r].got[o] > 0
    BY DEF ReadsStaying
  <2>1. reader'[r].cached = IF reader[r].at = "reading" THEN reader[r].cached \intersect Merged'
                            ELSE reader[r].cached
    BY InformerStepReaders DEF ReaderInv
  <2>2. CASE reader[r].at = "reading"
    <3>1. PICK i \in Tracked : /\ o \in store[i]
                               /\ reader[r].kind = "values" => i \notin lacking
                               /\ reader[r].got[o] > 0 \/ i \in reader[r].todo
      BY <2>1, <2>2 DEF ReaderInv, ReadsStaying
    <3>2. PICK j \in Tracked' : o \in store'[j]
      BY <2>1, <2>2 DEF Merged
    <3>3. i = j
      BY <1>1, <3>1, <3>2, CachedInOne
    <3> QED
      BY <1>3, <2>2, <3>1, <3>2, <3>3 DEF InformerStep
  <2>3. CASE reader[r].at # "reading"
    BY <1>3, <2>1, <2>3 DEF ReaderInv, ReadsStaying
  <2> QED
    BY <2>2, <2>3
<1>9. IndexFirst'
  BY <1>3 DEF ReaderInv, IndexFirst, InformerStep
<1> QED
  BY <1>1, <1>2, <1>6, <1>7, <1>8, <1>9 DEF ReaderInv

-----------------------------------------------------------------------------
(* Steps of the readers.                                                   *)

\* A step of one reader leaves the informer and the other readers alone.
LEMMA ReaderStepInv ==
    ASSUME ReaderInv, UNCHANGED <<vars, indexAdded, lacking>>,
           NEW r \in Readers, NEW new \in Reader,
           reader' = [reader EXCEPT ![r] = new],
           \* ReadsApart
           \A o \in Objects : new.got[o] <= 1,
           new.at = "reading" =>
             \A i \in new.todo :
                 /\ life[i] # "unused"
                 /\ \A o \in ObjectsOf(scope[i]) :
                      /\ new.got[o] = 0
                      /\ \A j \in new.todo : o \in ObjectsOf(scope[j]) => i = j,
           \* ReadsNames
           new.names # None =>
             /\ \A o \in Objects : new.got[o] > 0 => \E ns \in new.names : o \in ObjectsOf(ns)
             /\ new.at = "reading" => \A i \in new.todo : scope[i] \in new.names,
           \* ReadsStaying
           \A o \in new.cached :
             /\ new.at = "reading" =>
                  \E i \in Tracked : /\ o \in store[i]
                                     /\ new.kind = "values" => i \notin lacking
                                     /\ new.got[o] > 0 \/ i \in new.todo
             /\ new.at = "done" => new.got[o] > 0,
           \* IndexFirst
           new.at = "reading" /\ new.kind = "values" => indexAdded
    PROVE  ReaderInv'
<1>1. Inv'
  BY NextInv DEF ReaderInv
<1>2. UNCHANGED <<life, scope, store, informers>>
  BY DEF vars, instance
<1>3. Tracked' = Tracked
  BY <1>2 DEF Tracked, Tracks
<1>4. reader'[r] = new /\ \A q \in Readers \ {r} : reader'[q] = reader[q]
  BY DEF ReaderInv, ReadersType
<1>5. ReadersType'
  BY DEF ReaderInv, ReadersType
<1>6. ReadsApart'
  <2> SUFFICES ASSUME NEW q \in Readers
               PROVE  /\ \A o \in Objects : reader'[q].got[o] <= 1
                      /\ reader'[q].at = "reading" =>
                           \A i \in reader'[q].todo :
                              /\ life[i] # "unused"
                              /\ \A o \in ObjectsOf(scope[i]) :
                                   /\ reader'[q].got[o] = 0
                                   /\ \A j \in reader'[q].todo : o \in ObjectsOf(scope[j]) => i = j
    BY <1>2 DEF ReadsApart
  <2>1. CASE q = r
    BY <1>4, <2>1
  <2>2. CASE q # r
    BY <1>4, <2>2 DEF ReaderInv, ReadsApart
  <2> QED
    BY <2>1, <2>2
<1>7. ReadsNames'
  BY <1>2, <1>4 DEF ReaderInv, ReadsNames
<1>8. ReadsStaying'
  BY <1>2, <1>3, <1>4 DEF ReaderInv, ReadsStaying
<1>9. IndexFirst'
  BY <1>4 DEF ReaderInv, IndexFirst
<1> QED
  BY <1>1, <1>5, <1>6, <1>7, <1>8, <1>9 DEF ReaderInv

LEMMA StoreInScope ==
    ASSUME Inv, NEW i \in Instances, NEW o \in store[i]
    PROVE  o \in ObjectsOf(scope[i]) /\ o \in Objects
  BY DEF Inv, StoresInScope, TypeOK

LEMMA BeginReadInv ==
    ASSUME ReaderInv, NEW r \in Readers, NEW kind \in Kinds, BeginRead(r, kind)
    PROVE  ReaderInv'
<1> DEFINE names == IF target = None THEN namespaces ELSE None
           new == [IdleReader EXCEPT !.kind = kind, !.at = "reading", !.todo = Tracked,
                     !.cached = Readable(kind), !.names = names]
<1>0. /\ Inv /\ TypeOK /\ CallProceeds /\ NamesFollow /\ InstancesFollow
      /\ LockFree /\ UNCHANGED <<vars, indexAdded, lacking>>
      /\ kind = "values" => indexAdded
  BY DEF ReaderInv, Inv, BeginRead
<1>1. reader' = [reader EXCEPT ![r] = new]
  BY DEF BeginRead
<1>2. Tracked \subseteq Instances /\ Readable(kind) \subseteq Objects
  <2>1. Tracked \subseteq Instances
    BY <1>0, TrackedInstance
  <2> QED
    BY <1>0, <2>1 DEF Readable, TypeOK
<1>3. names \in Arguments \union {None}
  BY <1>0 DEF CallProceeds
<1>4. new \in Reader
  BY <1>2, <1>3 DEF Reader, IdleReader
<1>5. ASSUME NEW i \in Tracked
      PROVE  life[i] # "unused"
  BY <1>0, TrackedInstance, DeliveryAssumption DEF InstancesFollow, Names
<1>6. ASSUME NEW i \in Tracked, names # None
      PROVE  scope[i] \in names
  <2>1. target = None /\ toRemove = {} /\ removing = None /\ names = namespaces
    BY <1>0, <1>6 DEF CallProceeds, LockFree
  <2>2. Tracks(scope[i]) /\ scope[i] \in Names /\ scope[i] # None
    BY <1>0, TrackedInstance, DeliveryAssumption DEF Names
  <2> QED
    BY <1>0, <2>1, <2>2 DEF NamesFollow, Wanted
<1>7. \A i \in Tracked : \A o \in ObjectsOf(scope[i]) : o \in Objects
  BY <1>0, TrackedInstance, ObjectsOfName
<1>8. /\ new.got = [o \in Objects |-> 0] /\ new.todo = Tracked /\ new.names = names
      /\ new.cached = Readable(kind) /\ new.at = "reading" /\ new.kind = kind
  BY DEF IdleReader
<1> HIDE DEF new, names
<1>9. \A i \in new.todo :
        /\ life[i] # "unused"
        /\ \A o \in ObjectsOf(scope[i]) :
             /\ new.got[o] = 0
             /\ \A j \in new.todo : o \in ObjectsOf(scope[j]) => i = j
  BY <1>0, <1>5, <1>7, <1>8, InstancesApart
<1>10. \A o \in new.cached :
         /\ new.at = "reading" =>
              \E i \in Tracked : /\ o \in store[i]
                                 /\ new.kind = "values" => i \notin lacking
                                 /\ new.got[o] > 0 \/ i \in new.todo
         /\ new.at = "done" => new.got[o] > 0
  BY <1>8 DEF Readable
<1>11. \A o \in Objects : new.got[o] <= 1 /\ ~(new.got[o] > 0)
  BY <1>8
<1>12. new.names # None =>
         /\ \A o \in Objects : new.got[o] > 0 => \E ns \in new.names : o \in ObjectsOf(ns)
         /\ new.at = "reading" => \A i \in new.todo : scope[i] \in new.names
  BY <1>6, <1>8, <1>11
<1>13. new.at = "reading" /\ new.kind = "values" => indexAdded
  BY <1>0, <1>8
<1> QED
  BY <1>0, <1>1, <1>4, <1>9, <1>10, <1>11, <1>12, <1>13, ReaderStepInv

LEMMA ReadOneInv ==
    ASSUME ReaderInv, NEW r \in Readers, NEW i \in Instances, ReadOne(r, i)
    PROVE  ReaderInv'
<1> DEFINE rd == reader[r]
           answer == Answer(r, i)
           got == [o \in Objects |-> IF o \in answer THEN rd.got[o] + 1 ELSE rd.got[o]]
           new == [rd EXCEPT !.todo = rd.todo \ {i}, !.got = got]
<1>0. /\ Inv /\ UNCHANGED <<vars, indexAdded, lacking>> /\ rd.at = "reading" /\ i \in rd.todo
      /\ answer \subseteq store[i]
      /\ (rd.kind = "values" => i \notin lacking) => answer = store[i]
  BY DEF ReaderInv, ReadOne, Answer
<1> HIDE DEF answer
<1>1. reader' = [reader EXCEPT ![r] = new]
  BY DEF ReadOne, answer
<1>2. rd \in Reader /\ rd.got \in [Objects -> Nat] /\ rd.todo \subseteq Instances
      /\ rd.cached \in SUBSET Objects
  BY ReaderFields DEF ReaderInv, ReadersType
<1>3. got \in [Objects -> Nat]
  BY <1>2
<1>4. \A o \in Objects : got[o] = IF o \in answer THEN rd.got[o] + 1 ELSE rd.got[o]
  OBVIOUS
<1> HIDE DEF got
<1>5. /\ new \in Reader
      /\ new.at = "reading" /\ new.kind = rd.kind /\ new.todo = rd.todo \ {i} /\ new.got = got
      /\ new.cached = rd.cached /\ new.names = rd.names
  BY <1>0, <1>2, <1>3 DEF Reader
<1> HIDE DEF new
<1>6. /\ \A o \in Objects : rd.got[o] <= 1
      /\ \A j \in rd.todo :
            /\ life[j] # "unused"
            /\ \A o \in ObjectsOf(scope[j]) :
                 /\ rd.got[o] = 0
                 /\ \A k \in rd.todo : o \in ObjectsOf(scope[k]) => j = k
  BY <1>0 DEF ReaderInv, ReadsApart
<1>7. rd.names # None => /\ \A o \in Objects : rd.got[o] > 0 => \E ns \in rd.names : o \in ObjectsOf(ns)
                         /\ \A j \in rd.todo : scope[j] \in rd.names
  BY <1>0 DEF ReaderInv, ReadsNames
<1>8. /\ \A o \in rd.cached :
           \E j \in Tracked : /\ o \in store[j]
                              /\ rd.kind = "values" => j \notin lacking
                              /\ rd.got[o] > 0 \/ j \in rd.todo
      /\ rd.kind = "values" => indexAdded
  BY <1>0 DEF ReaderInv, ReadsStaying, IndexFirst
<1> HIDE DEF rd
<1>9. \A o \in answer : o \in Objects /\ o \in ObjectsOf(scope[i]) /\ rd.got[o] = 0
  BY <1>0, <1>6, StoreInScope
<1>10. \A o \in Objects : got[o] <= 1
  BY <1>2, <1>4, <1>6, <1>9
<1>11. ASSUME NEW j \in rd.todo \ {i}, NEW o \in ObjectsOf(scope[j])
       PROVE  got[o] = 0
  <2>1. o \notin answer
    BY <1>0, <1>6, <1>9
  <2>2. o \in Objects
    <3>1. j \in Instances /\ scope[j] \in Names
      BY <1>0, <1>2, <1>6 DEF Inv, InstancesFollow, TypeOK
    <3> QED
      BY <3>1, ObjectsOfName
  <2> QED
    BY <1>4, <1>6, <2>1, <2>2
<1>12. ASSUME rd.names # None
       PROVE  /\ \A o \in Objects : got[o] > 0 => \E ns \in rd.names : o \in ObjectsOf(ns)
              /\ \A j \in rd.todo : scope[j] \in rd.names
  BY <1>0, <1>4, <1>7, <1>9, <1>12
<1>13. ASSUME NEW o \in rd.cached
       PROVE  \E j \in Tracked : /\ o \in store[j]
                                 /\ rd.kind = "values" => j \notin lacking
                                 /\ got[o] > 0 \/ j \in rd.todo \ {i}
  <2>1. PICK j \in Tracked : /\ o \in store[j]
                             /\ rd.kind = "values" => j \notin lacking
                             /\ rd.got[o] > 0 \/ j \in rd.todo
    BY <1>8
  <2>2. o \in Objects /\ rd.got[o] \in Nat
    BY <1>2
  <2>3. rd.got[o] > 0 \/ j = i => got[o] > 0
    BY <1>0, <1>4, <2>1, <2>2
  <2> QED
    BY <2>1, <2>3
<1>14. UNCHANGED <<vars, indexAdded, lacking>> /\ new \in Reader
  BY <1>0, <1>5
<1>15. \A o \in Objects : new.got[o] <= 1
  BY <1>5, <1>10
<1>16. new.at = "reading" =>
         \A j \in new.todo :
             /\ life[j] # "unused"
             /\ \A o \in ObjectsOf(scope[j]) :
                  /\ new.got[o] = 0
                  /\ \A k \in new.todo : o \in ObjectsOf(scope[k]) => j = k
  BY <1>5, <1>6, <1>11
<1>17. new.names # None =>
         /\ \A o \in Objects : new.got[o] > 0 => \E ns \in new.names : o \in ObjectsOf(ns)
         /\ new.at = "reading" => \A j \in new.todo : scope[j] \in new.names
  BY <1>5, <1>12
<1>18. \A o \in new.cached :
         /\ new.at = "reading" =>
              \E j \in Tracked : /\ o \in store[j]
                                 /\ new.kind = "values" => j \notin lacking
                                 /\ new.got[o] > 0 \/ j \in new.todo
         /\ new.at = "done" => new.got[o] > 0
  BY <1>5, <1>13
<1>19. new.at = "reading" /\ new.kind = "values" => indexAdded
  BY <1>5, <1>8
<1> QED
  BY <1>1, <1>14, <1>15, <1>16, <1>17, <1>18, <1>19, ReaderStepInv

\* A reader that ends, with an error or with all instances read.
LEMMA EndReadInv ==
    ASSUME ReaderInv, NEW r \in Readers,
           EndRead(r) \/ \E i \in Instances : ReadFails(r, i)
    PROVE  ReaderInv'
<1> DEFINE rd == reader[r]
<1>1. PICK at \in {"done", "failed"} :
        /\ rd.at = "reading" /\ (at = "done" => rd.todo = {})
        /\ reader' = [reader EXCEPT ![r].at = at]
        /\ UNCHANGED <<vars, indexAdded, lacking>>
  BY DEF EndRead, ReadFails
<1> DEFINE new == [rd EXCEPT !.at = at]
<1>2. rd \in Reader
  BY DEF ReaderInv, ReadersType
<1>3. /\ new \in Reader
      /\ new.at = at /\ new.got = rd.got /\ new.cached = rd.cached /\ new.names = rd.names
  BY <1>2 DEF Reader
<1>4. reader' = [reader EXCEPT ![r] = new]
  BY <1>1
<1>5. \A o \in Objects : new.got[o] <= 1
  BY <1>3 DEF ReaderInv, ReadsApart
<1>6. new.names # None =>
        \A o \in Objects : new.got[o] > 0 => \E ns \in new.names : o \in ObjectsOf(ns)
  BY <1>3 DEF ReaderInv, ReadsNames
<1>7. \A o \in new.cached : new.at = "done" => new.got[o] > 0
  BY <1>1, <1>3 DEF ReaderInv, ReadsStaying
<1>8. new.at # "reading"
  BY <1>3
<1>9. UNCHANGED <<vars, indexAdded, lacking>> /\ new \in Reader
  BY <1>1, <1>3
<1> HIDE DEF rd, new
<1>10. /\ new.at = "reading" =>
            \A i \in new.todo :
                /\ life[i] # "unused"
                /\ \A o \in ObjectsOf(scope[i]) :
                     /\ new.got[o] = 0
                     /\ \A j \in new.todo : o \in ObjectsOf(scope[j]) => i = j
       /\ new.names # None =>
            /\ \A o \in Objects : new.got[o] > 0 => \E ns \in new.names : o \in ObjectsOf(ns)
            /\ new.at = "reading" => \A i \in new.todo : scope[i] \in new.names
       /\ \A o \in new.cached :
            /\ new.at = "reading" =>
                 \E i \in Tracked : /\ o \in store[i]
                                    /\ new.kind = "values" => i \notin lacking
                                    /\ new.got[o] > 0 \/ i \in new.todo
            /\ new.at = "done" => new.got[o] > 0
       /\ new.at = "reading" /\ new.kind = "values" => indexAdded
  BY <1>6, <1>7, <1>8
<1> QED
  BY <1>4, <1>5, <1>9, <1>10, ReaderStepInv

LEMMA ReaderInitInv == ReaderInit => ReaderInv
<1> SUFFICES ASSUME ReaderInit PROVE ReaderInv
  OBVIOUS
<1>1. Inv
  BY InitInv DEF ReaderInit
<1>2. \A r \in Readers : reader[r] = IdleReader
  BY DEF ReaderInit
<1>3. /\ IdleReader \in Reader
      /\ IdleReader.at = "idle" /\ IdleReader.names = None /\ IdleReader.cached = {}
      /\ \A o \in Objects : IdleReader.got[o] = 0
  <2> DEFINE nothing == [o \in Objects |-> 0]
  <2>1. nothing \in [Objects -> Nat] /\ \A o \in Objects : nothing[o] = 0
    OBVIOUS
  <2>2. IdleReader = [kind |-> "list", at |-> "idle", todo |-> {}, got |-> nothing,
                      cached |-> {}, names |-> None]
    BY DEF IdleReader
  <2> HIDE DEF nothing
  <2>3. "list" \in Kinds
    BY DEF Kinds
  <2> QED
    BY <2>1, <2>2, <2>3 DEF Reader
<1>4. ReadersType
  BY <1>3 DEF ReaderInit, ReadersType
<1> QED
  BY <1>1, <1>2, <1>3, <1>4 DEF ReaderInv, ReadsApart, ReadsNames, ReadsStaying, IndexFirst

\* The readers' AddIndexers comes before the first read by the new index.
LEMMA AddIndexersInv ==
    ASSUME ReaderInv, AddIndexers \/ UNCHANGED allVars
    PROVE  ReaderInv'
<1>0. /\ UNCHANGED <<vars, reader>>
      /\ UNCHANGED <<indexAdded, lacking>> \/ (~indexAdded /\ indexAdded')
  BY DEF AddIndexers, allVars, readVars
<1>1. Inv'
  BY <1>0, NextInv DEF ReaderInv
<1>2. UNCHANGED <<life, scope, store, informers, reader>>
  BY <1>0 DEF vars, instance
<1>3. Tracked' = Tracked
  BY <1>2 DEF Tracked, Tracks
<1>4. ReadersType' /\ ReadsApart' /\ ReadsNames'
  BY <1>2 DEF ReaderInv, ReadersType, ReadsApart, ReadsNames
<1>5. ReadsStaying'
  BY <1>0, <1>2, <1>3 DEF ReaderInv, ReadsStaying, IndexFirst
<1>6. IndexFirst'
  BY <1>0 DEF ReaderInv, IndexFirst
<1> QED
  BY <1>1, <1>4, <1>5, <1>6 DEF ReaderInv

LEMMA ReaderNextInv == ReaderInv /\ [ReaderNext]_allVars => ReaderInv'
<1> SUFFICES ASSUME ReaderInv, [ReaderNext]_allVars PROVE ReaderInv'
  OBVIOUS
<1>1. CASE AddIndexers \/ UNCHANGED allVars
  BY <1>1, AddIndexersInv
<1> QED
  BY <1>1, InformerStepInv, BeginReadInv, ReadOneInv, EndReadInv DEF ReaderNext

\* The inductive invariant of the informer with its readers.
THEOREM ReaderInvHolds == ReaderSpec => []ReaderInv
  BY ReaderInitInv, ReaderNextInv, PTL DEF ReaderSpec

\* No read returns an object twice.
THEOREM NoDuplicatesHolds == ReaderSpec => []NoDuplicates
<1>1. ReaderInv => NoDuplicates
  BY DEF ReaderInv, ReadsApart, NoDuplicates
<1> QED
  BY <1>1, ReaderInvHolds, PTL

\* A read that begins after SetNamespaces has returned gets objects of the new names
\* only, though instances of removed names may still be stopping.
THEOREM OnlyNewNamesHolds == ReaderSpec => []OnlyNewNames
<1>1. ReaderInv => OnlyNewNames
  BY DEF ReaderInv, ReadsNames, OnlyNewNames
<1> QED
  BY <1>1, ReaderInvHolds, PTL

\* A read that ends without an error has all that was cached in the instances that
\* answer it while it went on.
THEOREM ReadsWhatStaysHolds == ReaderSpec => []ReadsWhatStays
<1>1. ReaderInv => ReadsWhatStays
  BY DEF ReaderInv, ReadsStaying, ReadsWhatStays
<1> QED
  BY <1>1, ReaderInvHolds, PTL

\* Get finds exactly what List would find, in the middle of a transition, too.
THEOREM GetAgreesWithListHolds == ReaderSpec => []GetAgreesWithList
<1>1. ReaderInv => GetAgreesWithList
  <2> SUFFICES ASSUME Inv, NEW o \in Objects
               PROVE  Get(o) <=> o \in Merged
    BY DEF ReaderInv, GetAgreesWithList
  <2>0. TypeOK /\ CallProceeds /\ NamesFollow /\ InstancesFollow
    BY DEF Inv
  <2>1. o \in Names /\ All \in Names /\ o # All
    BY DeliveryAssumption DEF Names
  <2>2. ASSUME Get(o) PROVE o \in Merged
    <3>1. PICK ns \in Names : Tracks(ns) /\ o \in store[informers[ns]]
      BY <2>1, <2>2 DEF Get, IndexerFor, Tracks
    <3> QED
      BY <2>0, <3>1, TrackedName DEF Merged
  <2>3. ASSUME NEW i \in Tracked, o \in store[i] PROVE Get(o)
    <3>1. i \in Instances /\ scope[i] \in Names /\ Tracks(scope[i]) /\ informers[scope[i]] = i
      BY <2>0, TrackedInstance
    <3>2. o \in ObjectsOf(scope[i])
      BY <2>3, <3>1, StoreInScope
    <3>3. CASE scope[i] = All
      BY <2>3, <3>1, <3>3 DEF Get, IndexerFor, Tracks
    <3>4. CASE scope[i] # All
      <4>1. scope[i] = o
        BY <3>2, <3>4 DEF ObjectsOf
      <4>2. ~Tracks(All)
        BY <2>0, <2>1, <3>1, <4>1, NamesApart DEF ObjectsOf
      <4> QED
        BY <2>3, <3>1, <4>1, <4>2 DEF Get, IndexerFor, Tracks
    <3> QED
      BY <3>3, <3>4
  <2> QED
    BY <2>2, <2>3 DEF Merged
<1> QED
  BY <1>1, ReaderInvHolds, PTL
=============================================================================
