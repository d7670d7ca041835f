---------------------------- MODULE EventDelivery ----------------------------
(***************************************************************************)
(* What an event handler of a multiNamespaceInformer learns of the objects *)
(* (pkg/informers/informer.go), while names come and go.                   *)
(*                                                                         *)
(* The informer has been started and is not stopped.  Each of its client-go *)
(* instances watches the objects of one name, keeps them in a store and    *)
(* queues an event for the handler, which the instance's listener delivers *)
(* later.  RemoveNamespace adds OnDelete calls of its own, made by the     *)
(* goroutine that called SetNamespaces while the instance is stopping and  *)
(* its listener may still be delivering.                                   *)
(*                                                                         *)
(* One object stands for the objects of a namespace, and has its name.  An *)
(* "add" is OnAdd or OnUpdate: either tells the handler that the object is *)
(* there.                                                                  *)
(***************************************************************************)
EXTENDS Naturals, FiniteSets, SequencesExt

CONSTANTS
    All,        \* metav1.NamespaceAll
    Objects,    \* the objects, each named like its namespace
    Instances,  \* the client-go informers that newInformer can return (a bound)
    WithHandler, \* whether the user adds an event handler
    MaxCalls,   \* bound: calls of SetNamespaces, none of which needs too many instances
    MaxChanges, \* bound: creations and deletions at the API server
    None        \* a missing map entry; no call

ASSUME DeliveryAssumption ==
    /\ All \notin Objects
    /\ None \notin Instances /\ None \notin Objects \union {All}
    /\ IsFiniteSet(Objects) /\ IsFiniteSet(Instances)
    /\ \A s \in SUBSET (Objects \union {All}) : s # None
    /\ WithHandler \in BOOLEAN
    /\ MaxCalls \in Nat /\ MaxChanges \in Nat

VARIABLES
    namespaces,     \* n.namespaces
    target,         \* the argument of the SetNamespaces call under way, or None
    toRemove,       \* the names its first loop has still to remove
    toAdd,          \* the names its second loop has still to add
    informers,      \* i.informers: the instance of each name, or None
    registered,     \* the handler is in i.eventHandlers
    removing,       \* the name that RemoveNamespace is at (it has i.lock), or None
    toDelete,       \* what it has still to call OnDelete for
    scope,          \* the name each instance was made for
    life,           \* the life of each instance
    store,          \* the objects in each instance's store
    queue,          \* the events each instance's listener has not delivered yet
    listening,      \* the instances that the handler is registered with
    server,         \* the objects at the API server
    view,           \* the objects that the handler was told of and not told to forget
    late,           \* objects with an event that a stopping instance delivered or lost (history)
    calls, changes  \* how many there were

set      == <<namespaces, target, toRemove, toAdd, calls>>
removal  == <<removing, toDelete>>
instance == <<scope, life, store, queue>>
outside  == <<server, changes>>
told     == <<view, late>>
vars     == <<set, informers, registered, removal, instance, listening, outside, told>>

-----------------------------------------------------------------------------
Names == Objects \union {All}

Tracks(ns) == informers[ns] # None
Tracked == {informers[ns] : ns \in {m \in Names : Tracks(m)}}

\* The objects that a watch on a name returns.
ObjectsOf(ns) == IF ns = All THEN Objects ELSE {ns}

Unused == {i \in Instances : life[i] = "unused"}

\* The instances whose channel is closed and whose goroutines go on.
Stopping == {i \in Instances : life[i] = "stopping"}

Event(kind, o) == [kind |-> kind, object |-> o]

\* i.lock is held from the first to the last OnDelete call of a removal.
LockFree == removing = None

\* The empty informer has been started, and the handler is not there yet.
Init ==
    /\ namespaces = {} /\ target = None /\ toRemove = {} /\ toAdd = {}
    /\ informers = [ns \in Names |-> None]
    /\ registered = FALSE
    /\ removing = None /\ toDelete = {}
    /\ scope = [i \in Instances |-> None]
    /\ life = [i \in Instances |-> "unused"]
    /\ store = [i \in Instances |-> {}]
    /\ queue = [i \in Instances |-> <<>>]
    /\ listening = {}
    /\ server \in SUBSET Objects
    /\ view = {} /\ late = {}
    /\ calls = 0 /\ changes = 0

-----------------------------------------------------------------------------
(* SetNamespaces of the namespace set, with the informer as its handler.   *)

\* NamespaceAll excludes the other names.
Arguments == (SUBSET Objects) \union {{All}}

SetNamespaces(s) ==
    /\ target = None
    /\ calls < MaxCalls /\ Cardinality(s \ namespaces) <= Cardinality(Unused)
    /\ calls' = calls + 1
    /\ target' = s
    /\ toRemove' = namespaces \ s
    /\ toAdd' = s \ namespaces
    /\ UNCHANGED <<namespaces, informers, registered, removal, instance, listening,
                   outside, told>>

\* Mutant: OnDelete is called for what the API server has.
DeletesFor_Server(i) == server \intersect ObjectsOf(scope[i])

\* What RemoveNamespace calls OnDelete for: the store as it is listed now.
DeletesFor(i) == store[i]

\* RemoveNamespace takes i.lock, closes the channel and lists the store.
BeginRemove(ns) ==
    /\ LockFree
    /\ ns \in toRemove
    /\ Tracks(ns)
    /\ toRemove' = toRemove \ {ns}
    /\ removing' = ns
    /\ life' = [life EXCEPT ![informers[ns]] = "stopping"]
    /\ toDelete' = IF registered THEN DeletesFor(informers[ns]) ELSE {}
    /\ UNCHANGED <<namespaces, target, toAdd, calls, informers, registered, scope, store,
                   queue, listening, outside, told>>

SendDelete(o) ==
    /\ o \in toDelete
    /\ toDelete' = toDelete \ {o}
    /\ view' = view \ {o}
    /\ UNCHANGED <<set, informers, registered, removing, instance, listening, outside, late>>

\* Mutant: the entry is kept.
Forgotten_Never == informers

Forgotten == [informers EXCEPT ![removing] = None]

\* RemoveNamespace deletes the entry and releases the lock.
EndRemove ==
    /\ ~LockFree
    /\ toDelete = {}
    /\ informers' = Forgotten
    /\ removing' = None
    /\ UNCHANGED <<set, registered, toDelete, instance, listening, outside, told>>

\* Mutant: the additions do not wait for the removals.
RemovalsDone_Always == LockFree

RemovalsDone == LockFree /\ toRemove = {}

\* Mutant: a new instance misses the handler that was added before it.
NewListeners_None(i) == listening

NewListeners(i) == IF registered THEN listening \union {i} ELSE listening

\* AddNamespace: a new instance (any one, they are all alike), launched at once,
\* with the handler added before.
AddNamespace(ns) ==
    /\ RemovalsDone
    /\ ns \in toAdd
    /\ toAdd' = toAdd \ {ns}
    /\ LET i == CHOOSE j \in Unused : TRUE IN
        /\ life' = [life EXCEPT ![i] = "running"]
        /\ scope' = [scope EXCEPT ![i] = ns]
        /\ informers' = [informers EXCEPT ![ns] = i]
        /\ listening' = NewListeners(i)
    /\ UNCHANGED <<namespaces, target, toRemove, calls, registered, removal, store, queue,
                   outside, told>>

FinishSet ==
    /\ target # None
    /\ LockFree /\ toRemove = {} /\ toAdd = {}
    /\ namespaces' = target
    /\ target' = None
    /\ UNCHANGED <<toRemove, toAdd, calls, informers, registered, removal, instance,
                   listening, outside, told>>

-----------------------------------------------------------------------------
(* AddEventHandler.                                                        *)

\* client-go replays the store of a running instance to a new handler, in any order.
Replays(i) ==
    {[k \in DOMAIN order |-> Event("add", order[k])] : order \in SetToSeqs(store[i])}

\* Mutant: a running instance does not get the handler.
AddEventHandler_LaterOnly ==
    /\ LockFree
    /\ WithHandler /\ ~registered
    /\ registered' = TRUE
    /\ UNCHANGED <<set, informers, removal, instance, listening, outside, told>>

AddEventHandler ==
    /\ LockFree
    /\ WithHandler /\ ~registered
    /\ registered' = TRUE
    /\ listening' = listening \union Tracked
    /\ \E replay \in [Tracked -> UNION {Replays(i) : i \in Tracked}] :
         /\ \A i \in Tracked : replay[i] \in Replays(i)
         /\ queue' = [i \in Instances |-> IF i \in Tracked THEN replay[i] ELSE queue[i]]
    /\ UNCHANGED <<set, informers, removal, scope, life, store, outside, told>>

-----------------------------------------------------------------------------
(* The API server and the instances.                                       *)

ServerChanges(o) ==
    /\ changes < MaxChanges
    /\ changes' = changes + 1
    /\ server' = IF o \in server THEN server \ {o} ELSE server \union {o}
    /\ UNCHANGED <<set, informers, registered, removal, instance, listening, told>>

\* An instance takes notice of an object: its store changes and the event is
\* queued.  One that is stopping still handles the changes it has received.
Watch(i, o) ==
    /\ life[i] \in {"running", "stopping"}
    /\ o \in ObjectsOf(scope[i])
    /\ o \in server <=> o \notin store[i]
    /\ store' = [store EXCEPT ![i] = IF o \in server THEN @ \union {o} ELSE @ \ {o}]
    /\ queue' = IF i \in listening
                  THEN [queue EXCEPT ![i] =
                          Append(@, Event(IF o \in server THEN "add" ELSE "delete", o))]
                  ELSE queue
    /\ UNCHANGED <<set, informers, registered, removal, scope, life, listening, outside, told>>

\* The listener calls the handler.
Deliver(i) ==
    /\ queue[i] # <<>>
    /\ LET e == Head(queue[i]) IN
        /\ view' = IF e.kind = "add" THEN view \union {e.object} ELSE view \ {e.object}
        /\ late' = IF life[i] = "stopping" THEN late \union {e.object} ELSE late
    /\ queue' = [queue EXCEPT ![i] = Tail(@)]
    /\ UNCHANGED <<set, informers, registered, removal, scope, life, store, listening, outside>>

Queued(i) == {e.object : e \in ToSet(queue[i])}

\* The goroutines of a stopping instance end; what its listener had not
\* delivered is lost.
End(i) ==
    /\ life[i] = "stopping"
    /\ life' = [life EXCEPT ![i] = "ended"]
    /\ late' = late \union Queued(i)
    /\ queue' = [queue EXCEPT ![i] = <<>>]
    /\ UNCHANGED <<set, informers, registered, removal, scope, store, listening, outside, view>>

-----------------------------------------------------------------------------
SetProceeds ==
    \/ \E ns \in Names : BeginRemove(ns) \/ AddNamespace(ns)
    \/ \E o \in Objects : SendDelete(o)
    \/ EndRemove
    \/ FinishSet

Progress(i) == Deliver(i) \/ End(i) \/ \E o \in Objects : Watch(i, o)

Next ==
    \/ \E s \in Arguments : SetNamespaces(s)
    \/ SetProceeds
    \/ AddEventHandler
    \/ \E o \in Objects : ServerChanges(o)
    \/ \E i \in Instances : Progress(i)

\* Goroutines that can run do run, and the API server tells a running instance
\* of every change at last.
Fairness ==
    /\ WF_vars(SetProceeds)
    /\ \A i \in Instances : WF_vars(Deliver(i)) /\ WF_vars(End(i))
    /\ \A i \in Instances, o \in Objects : WF_vars(life[i] = "running" /\ Watch(i, o))

Spec == Init /\ [][Next]_vars /\ Fairness

-----------------------------------------------------------------------------
(* Types                                                                   *)

Lives == {"unused", "running", "stopping", "ended"}
Events == [kind : {"add", "delete"}, object : Objects]

\* Every variable has its type; a set with NamespaceAll has no other name.
TypeOK ==
    /\ namespaces \in SUBSET Names /\ (All \in namespaces => namespaces = {All})
    /\ target \in (SUBSET Names) \union {None}
    /\ toRemove \in SUBSET Names /\ toAdd \in SUBSET Names
    /\ informers \in [Names -> Instances \union {None}]
    /\ registered \in BOOLEAN
    /\ removing \in Names \union {None}
    /\ toDelete \in SUBSET Objects
    /\ scope \in [Instances -> Names \union {None}]
    /\ life \in [Instances -> Lives]
    /\ store \in [Instances -> SUBSET Objects]
    /\ queue \in [Instances -> Seq(Events)]
    /\ listening \in SUBSET Instances
    /\ server \in SUBSET Objects /\ view \in SUBSET Objects /\ late \in SUBSET Objects
    /\ calls \in Nat /\ changes \in Nat

(* Safety                                                                  *)

\* Whether the handler knows o once the queue of instance i has been delivered: the
\* last event for it adds it, or there is none and it knows it already.
KnowsAfter(i, o) ==
    \/ \E k \in DOMAIN queue[i] :
         /\ queue[i][k] = Event("add", o)
         /\ \A l \in DOMAIN queue[i] : l > k => queue[i][l].object # o
    \/ o \in view /\ o \notin Queued(i)

\* An object is undisturbed if no stopping instance has delivered or lost, or is
\* about to deliver or lose, an event for it.
Undisturbed(o) == o \notin late /\ \A i \in Stopping : o \notin Queued(i)

\* A registered handler misses nothing: with what is queued for it, it knows of
\* an undisturbed object what the tracked instance has in its store, whether it
\* was registered before or after the instance was made, and also when the name
\* was removed and added again before.
HandlerKeepsUp ==
    registered =>
        \A i \in Tracked : \A o \in ObjectsOf(scope[i]) :
            life[i] = "running" /\ Undisturbed(o) => (KnowsAfter(i, o) <=> o \in store[i])

\* When the removal of a name is over, the handler has been told to forget its
\* undisturbed objects: it knows none that no instance tracks.
RemovalIsAnnounced ==
    LockFree =>
        \A o \in view : Undisturbed(o) => \E ns \in Names : Tracks(ns) /\ o \in ObjectsOf(ns)

(* Liveness                                                                *)

\* The set and the API server are left alone at last (the bounds see to that):
\* from then on the handler knows exactly the objects of the set, except for
\* those that the end of an instance has disturbed.
HandlerCatchesUp ==
    \A o \in Objects :
        <>[](registered /\ o \notin late) =>
            <>[](o \in view <=> o \in server /\ \E ns \in namespaces : o \in ObjectsOf(ns))
=============================================================================
