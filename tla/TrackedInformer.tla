--------------------------- MODULE TrackedInformer ---------------------------
(***************************************************************************)
(* An informer that follows a namespace set: NamespaceSet and              *)
(* MultiNamespaceInformer composed the way NewMultiNamespaceInformer does  *)
(* it, with AddNamespace and RemoveNamespace as the set's handler, and     *)
(* with callers of HasSynced, which reads both under two different locks.  *)
(*                                                                         *)
(* A handler call of the set is one step of the informer: n.lock is held,  *)
(* i.lock is taken and released inside.  The order of the locks is always  *)
(* this one.  Event handlers and the other settings of the informer are    *)
(* left to MultiNamespaceInformer: there are none here.                    *)
(***************************************************************************)
EXTENDS Naturals, Sequences, FiniteSets

CONSTANTS
    Namespaces,     \* the namespace names
    All,            \* metav1.NamespaceAll
    Instances,      \* the client-go informers that newInformer can return (a bound)
    Runners,        \* goroutines that may call Run
    Callers,        \* goroutines that call HasSynced
    None            \* a nil set, a missing entry

ASSUME TrackedAssumption ==
    /\ All \in Namespaces
    /\ None \notin Instances
    /\ \A s \in SUBSET Namespaces : s # None

VARIABLES
    (* of the namespace set *)
    namespaces, handlers, setPhase, target, pending, current, called, balance,
    (* of the informer *)
    informers, started, stopped, eventHandlers, indexers, errorHandler,
    registrationHandlers, runner, stopAsked, panicked, removed,
    phase, launched, closed, synced, listeners, indexed, watching,
    (* of the callers of HasSynced *)
    caller          \* "idle", "initialized" (between the two locks), or the answer

set == <<namespaces, handlers, setPhase, target, pending, current, called, balance>>
informer == <<informers, started, stopped, eventHandlers, indexers, errorHandler,
              registrationHandlers, runner, stopAsked, panicked, removed, phase,
              launched, closed, synced, listeners, indexed, watching>>
vars == <<set, informer, caller>>

\* The informer registers one handler with the set.
N == INSTANCE NamespaceSet
       WITH Handlers <- {"informer"}, Nil <- None, phase <- setPhase

M == INSTANCE MultiNamespaceInformer
       WITH Handlers <- {}, Removable <- {}, IndexerSets <- {}, WatchHandlers <- {}

Init == N!Init /\ M!Init /\ caller = [c \in Callers |-> "idle"]

-----------------------------------------------------------------------------
\* Bound: a call may only add as many names as there are unused instances.
Affordable(s) ==
    Cardinality(N!Difference(N!Normalize(s), namespaces))
      <= Cardinality({i \in Instances : phase[i] = "unused"})

SetNamespaces(s) ==
    /\ Affordable(s)
    /\ N!SetNamespaces(s)
    /\ UNCHANGED <<informer, caller>>

\* NewMultiNamespaceInformer registers the handler; it is replayed the names
\* that are tracked already.
NewMultiNamespaceInformer ==
    /\ N!AddHandler("informer")
    /\ UNCHANGED <<informer, caller>>

\* Mutant: the informer does not handle removals.
OnRemove_Ignored(ns) == UNCHANGED informer

OnRemove(ns) == M!RemoveNamespace(ns)
OnAdd(ns) == M!AddNamespace(ns)

HandlerCall ==
    /\ \E ns \in Namespaces :
        \/ N!CallOnRemove(ns) /\ OnRemove(ns)
        \/ (N!CallOnAdd(ns) \/ N!CallRegistered(ns)) /\ OnAdd(ns)
    /\ UNCHANGED caller

SetProceeds ==
    /\ N!StartAdding \/ N!FinishSet \/ N!FinishRegister
    /\ UNCHANGED <<informer, caller>>

\* The informer is used once its constructor has returned.
Constructed == handlers # <<>> /\ setPhase # "registering"

Run(r) ==
    /\ Constructed
    /\ M!Running(r) \/ M!AskStop(r)
    /\ UNCHANGED <<set, caller>>

Instance(i) == M!Progress(i) /\ UNCHANGED <<set, caller>>

\* HasSynced, first half: Initialized() takes and releases n.lock.
CheckInitialized(c) ==
    /\ Constructed
    /\ caller[c] # "initialized"
    /\ setPhase = "idle"
    /\ caller' = [caller EXCEPT ![c] = IF N!Initialized THEN "initialized" ELSE "no"]
    /\ UNCHANGED <<set, informer>>

\* HasSynced, second half: the instances, under i.lock.
CheckInstances(c) ==
    /\ caller[c] = "initialized"
    /\ caller' = [caller EXCEPT ![c] = IF M!AllSynced THEN "yes" ELSE "no"]
    /\ UNCHANGED <<set, informer>>

Live ==
    \/ \E s \in N!Sets : SetNamespaces(s)
    \/ NewMultiNamespaceInformer
    \/ HandlerCall
    \/ SetProceeds
    \/ \E r \in Runners : Run(r)
    \/ \E i \in Instances : Instance(i)
    \/ \E c \in Callers : CheckInitialized(c) \/ CheckInstances(c)

Next == \/ ~panicked /\ Live
        \/ panicked /\ UNCHANGED vars

\* The goroutine that holds n.lock, those inside Run, and those of the instances
\* run on; none of them waits for a lock that is not released.
Fairness ==
    /\ WF_vars(~panicked /\ (HandlerCall \/ SetProceeds))
    /\ \A r \in Runners :
         WF_vars(/\ ~panicked
                 /\ M!RunLaunch(r) \/ M!RunStop(r)
                 /\ UNCHANGED <<set, caller>>)
    /\ \A i \in Instances :
         WF_vars(~panicked /\ (M!BeginRun(i) \/ M!EndRun(i)) /\ UNCHANGED <<set, caller>>)

Spec == Init /\ [][Next]_vars /\ Fairness

-----------------------------------------------------------------------------
(* Safety                                                                  *)

\* Whenever n.lock is free, the informer has an instance for exactly the names
\* that the set reports.
InformerFollowsSet ==
    Constructed /\ setPhase = "idle" /\ ~panicked =>
        {ns \in Namespaces : M!Tracks(ns)} = N!List

Synced(ns) == M!Tracks(ns) /\ informers[ns] \in synced

Answers(c, a) == caller[c] = "initialized" /\ caller'[c] = a

\* If the set is not changing when HasSynced reads the instances, "yes" means that
\* every name in the set has an instance that has synced.
YesMeansSynced ==
    [][\A c \in Callers : Answers(c, "yes") /\ setPhase = "idle" =>
         \A ns \in N!List : Synced(ns)]_vars

(* Liveness                                                                *)

\* The API server answers every instance's first list.
ServerAnswers ==
    \A i \in Instances : WF_vars(~panicked /\ M!Sync(i) /\ UNCHANGED <<set, caller>>)

InUse == started /\ stopAsked = {} /\ setPhase = "idle" /\ namespaces # None

\* If the server answers and, from some time on, nobody changes the set or asks
\* for a stop, HasSynced becomes true for good: WaitForCacheSync returns.
EventuallySynced == ServerAnswers => (<>[]InUse => <>[](M!AllSynced \/ panicked))

\* An instance whose name has left the set stops, although Run may not even have
\* launched its goroutine's first step when the channel was closed.
LetGoStops == M!LetGoStops

\* When the stop channel given to Run is closed, every instance tracked at that
\* time stops, though a SetNamespaces call may be under way.
StopReachesAll == M!StopReachesAll
=============================================================================
