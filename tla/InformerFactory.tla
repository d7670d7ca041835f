--------------------------- MODULE InformerFactory ---------------------------
(***************************************************************************)
(* A shared informer factory: pkg/informers/dynamic.go, whose code the     *)
(* generated factories repeat (metadata.go has all of it but Shutdown).    *)
(*                                                                         *)
(* The factory makes one multi-namespace informer per resource, all of     *)
(* them on one namespace set, and runs each in a goroutine that a          *)
(* WaitGroup counts.  The generated factories do so for the namespaced     *)
(* types; for a cluster-scoped one they make a plain client-go informer,   *)
(* which is not on the set and which Run does not outlive.  Of an informer *)
(* only what the factory deals with is kept: which names it tracks,        *)
(* whether Run has begun or stopped, and which of its per-namespace        *)
(* goroutines are alive.  The module MultiNamespaceInformer has the rest.  *)
(*                                                                         *)
(* f.lock is held by every method but is released before Shutdown and      *)
(* WaitForCacheSync wait.  Only SetNamespaces holds it for several steps,  *)
(* during which goroutines that do not need it (Run) go on.  The set of a  *)
(* dynamic factory is its caller's, who may call SetNamespaces of the set  *)
(* itself; then f.lock is free, and only the lock of the set is held.      *)
(***************************************************************************)
EXTENDS Naturals, FiniteSets

CONSTANTS
    Resources,      \* the resource types that informers are asked for
    ClusterScoped,  \* those of them that are not namespaced (generated factories only)
    Cluster,        \* the one name that the informer of a cluster-scoped type has
    Namespaces,     \* the namespace names (NamespaceAll is one among them here)
    Chans,          \* stop channels that callers pass to Start and WaitForCacheSync
    Stoppers,       \* goroutines that call Shutdown
    Waiters,        \* goroutines that call WaitForCacheSync
    EndingBound,    \* bound: no SetNamespaces while more instances than this are ending
    None            \* a nil set, no channel

ASSUME FactoryAssumption ==
    /\ ClusterScoped \subseteq Resources
    /\ Cluster \notin Namespaces
    /\ IsFiniteSet(Namespaces)  \* a name is a DNS label of at most 63 characters
    /\ None \notin Chans /\ None \notin Resources
    /\ \A s \in SUBSET Namespaces : s # None

VARIABLES
    informers,      \* f.informers: the resources that have one
    startedInformers, \* f.startedInformers
    shuttingDown,   \* f.shuttingDown
    wg,             \* the counter of f.wg
    namespaces,     \* the namespace set, or None when it is uninitialized
    change,         \* the SetNamespaces call under way, or None
    tracked,        \* tracked[r]: the names that r's informer has an instance for
    run,            \* run[r]: r's goroutine: "none", "launched", "waiting", "done"
    stopCh,         \* stopCh[r]: the channel that r was started with
    live,           \* live[r]: tracked names with a running instance
    ending,         \* ending[r]: how many instances were told to stop and still run
    synced,         \* synced[r]: tracked names whose instance has synced
    closedChans,    \* the stop channels that have been closed
    panicked,       \* a stop channel of an instance was closed twice
    shutdown,       \* where each Stopper is: "idle", "waiting", "returned"
    waiter          \* where each Waiter is

factory == <<informers, startedInformers, shuttingDown, wg>>
insts   == <<tracked, live, ending, synced>>
runs    == <<run, stopCh>>
vars    == <<factory, namespaces, change, insts, runs, closedChans, panicked,
             shutdown, waiter>>

-----------------------------------------------------------------------------
Sets == {None} \union SUBSET Namespaces
Elements(s) == IF s = None THEN {} ELSE s

Namespaced == Resources \ ClusterScoped
Names == Namespaces \union {Cluster}

\* Nobody holds the lock of the set, or f.lock.
SetFree == change = None
FactoryFree == ~SetFree => ~change.byFactory

\* A call of SetNamespaces, the factory's or the set's own, and its two loops: calls
\* not made yet, by resource and name.
Changes == [byFactory : BOOLEAN, target : Sets,
            removes : SUBSET (Namespaced \X Namespaces),
            adds : SUBSET (Namespaced \X Namespaces)]

\* No call is nil.
ASSUME ChangeAssumption == None \notin Changes

\* A waiter's snapshot of the informers it has still to wait for, the one it is
\* polling, whether it has just seen Initialized() true, its channel, whether
\* SetNamespaces went on meanwhile (history), and the informers reported synced.
IdleWaiter == [todo |-> {}, at |-> None, initialized |-> FALSE, ch |-> None,
               disturbed |-> FALSE, yes |-> {}]

Init ==
    /\ informers = {} /\ startedInformers = {}
    /\ shuttingDown = FALSE
    /\ wg = 0
    /\ namespaces \in Sets
    /\ change = None
    /\ tracked = [r \in Resources |-> {}]
    /\ run = [r \in Resources |-> "none"]
    /\ stopCh = [r \in Resources |-> None]
    /\ live = [r \in Resources |-> {}]
    /\ ending = [r \in Resources |-> 0]
    /\ synced = [r \in Resources |-> {}]
    /\ closedChans = {}
    /\ panicked = FALSE
    /\ shutdown = [s \in Stoppers |-> "idle"]
    /\ waiter = [w \in Waiters |-> IdleWaiter]

-----------------------------------------------------------------------------
(* Methods of the factory.                                                 *)

\* Mutant: the new informer is not replayed what the set holds.
ReplayedNames_None == {}

ReplayedNames == Elements(namespaces)

\* What a new informer tracks: its constructor registers with the set, which
\* replays the names it holds; that of a cluster-scoped type needs no set.
FirstNames(r) == IF r \in ClusterScoped THEN {Cluster} ELSE ReplayedNames

\* ForResource (InformerFor in the generated factories) makes an informer unless
\* there is one.
ForResource(r) ==
    /\ IF r \in ClusterScoped THEN FactoryFree ELSE SetFree
    /\ r \notin informers
    /\ informers' = informers \union {r}
    /\ tracked' = [tracked EXCEPT ![r] = FirstNames(r)]
    /\ UNCHANGED <<startedInformers, shuttingDown, wg, namespaces, change, live, ending,
                   synced, runs, closedChans, panicked, shutdown, waiter>>

\* Mutant: Start does not look at shuttingDown.
MayStart_Always == TRUE

MayStart == ~shuttingDown

Counted(new) == Cardinality(new)

\* Start launches a goroutine for each informer that has none yet.
Start(ch) ==
    /\ FactoryFree
    /\ MayStart
    /\ LET new == informers \ startedInformers IN
        /\ wg' = wg + Counted(new)
        /\ run' = [r \in Resources |-> IF r \in new THEN "launched" ELSE run[r]]
        /\ stopCh' = [r \in Resources |-> IF r \in new THEN ch ELSE stopCh[r]]
        /\ startedInformers' = startedInformers \union new
    /\ UNCHANGED <<informers, shuttingDown, namespaces, change, insts, closedChans,
                   panicked, shutdown, waiter>>

\* SetNamespaces takes f.lock, if it is the factory's, and the lock of the set; every
\* informer on it will be called for every name that goes and then for every name
\* that comes.
SetNamespaces(s, byFactory) ==
    /\ SetFree
    /\ \A r \in Resources : ending[r] <= EndingBound
    /\ change' = [byFactory |-> byFactory, target |-> s,
                  removes |-> (informers \ ClusterScoped) \X (Elements(namespaces) \ Elements(s)),
                  adds |-> (informers \ ClusterScoped) \X (Elements(s) \ Elements(namespaces))]
    /\ waiter' = [w \in Waiters |-> IF waiter[w] = IdleWaiter THEN IdleWaiter
                                    ELSE [waiter[w] EXCEPT !.disturbed = TRUE]]
    /\ UNCHANGED <<factory, namespaces, insts, runs, closedChans, panicked, shutdown>>

\* RemoveNamespace(ns) of r's informer; Run's stop phase has already closed the
\* channels of the instances it found.
CallRemove(r, ns) ==
    /\ ~SetFree
    /\ <<r, ns>> \in change.removes
    /\ change' = [change EXCEPT !.removes = @ \ {<<r, ns>>}]
    /\ panicked' = (run[r] = "done" /\ ns \notin live[r])
    /\ tracked' = [tracked EXCEPT ![r] = @ \ {ns}]
    /\ live' = [live EXCEPT ![r] = @ \ {ns}]
    /\ synced' = [synced EXCEPT ![r] = @ \ {ns}]
    /\ ending' = [ending EXCEPT ![r] = IF ns \in live[r] THEN @ + 1 ELSE @]
    /\ UNCHANGED <<factory, namespaces, runs, closedChans, shutdown, waiter>>

\* AddNamespace(ns): once Run has begun the new instance is launched, though Run
\* may have stopped since.
CallAdd(r, ns) ==
    /\ ~SetFree
    /\ change.removes = {}
    /\ <<r, ns>> \in change.adds
    /\ change' = [change EXCEPT !.adds = @ \ {<<r, ns>>}]
    /\ tracked' = [tracked EXCEPT ![r] = @ \union {ns}]
    /\ live' = IF run[r] \in {"waiting", "done"}
                 THEN [live EXCEPT ![r] = @ \union {ns}] ELSE live
    /\ UNCHANGED <<factory, namespaces, ending, synced, runs, closedChans, panicked,
                   shutdown, waiter>>

FinishSet ==
    /\ ~SetFree
    /\ change.removes = {} /\ change.adds = {}
    /\ namespaces' = change.target
    /\ change' = None
    /\ UNCHANGED <<factory, insts, runs, closedChans, panicked, shutdown, waiter>>

\* Shutdown sets the flag under f.lock and waits for the counter without it.
Shutdown(s) ==
    /\ FactoryFree
    /\ shutdown[s] = "idle"
    /\ shuttingDown' = TRUE
    /\ shutdown' = [shutdown EXCEPT ![s] = "waiting"]
    /\ UNCHANGED <<informers, startedInformers, wg, namespaces, change, insts, runs,
                   closedChans, panicked, waiter>>

ShutdownReturns(s) ==
    /\ shutdown[s] = "waiting"
    /\ wg = 0
    /\ shutdown' = [shutdown EXCEPT ![s] = "returned"]
    /\ UNCHANGED <<factory, namespaces, change, insts, runs, closedChans, panicked, waiter>>

-----------------------------------------------------------------------------
(* WaitForCacheSync: a snapshot under f.lock, then one informer after the  *)
(* other is polled, until it has synced or the channel is closed.  Each    *)
(* Waiter calls it once.                                                   *)

WaitForCacheSync(w, ch) ==
    /\ FactoryFree
    /\ waiter[w] = IdleWaiter
    /\ waiter' = [waiter EXCEPT ![w] =
                    [IdleWaiter EXCEPT !.todo = informers \intersect startedInformers,
                                       !.ch = ch, !.disturbed = ~SetFree]]
    /\ UNCHANGED <<factory, namespaces, change, insts, runs, closedChans, panicked, shutdown>>

\* First half of HasSynced: Initialized() waits for the lock of the set.
Poll(w, r) ==
    /\ r \in waiter[w].todo \ ClusterScoped
    /\ waiter[w].at \in {None, r}
    /\ ~waiter[w].initialized
    /\ SetFree
    /\ waiter' = [waiter EXCEPT ![w].at = r, ![w].initialized = (namespaces # None)]
    /\ UNCHANGED <<factory, namespaces, change, insts, runs, closedChans, panicked, shutdown>>

\* Mutant: one synced instance is taken for all.
InstancesSynced_Some(r) == tracked[r] \intersect synced[r] # {}

InstancesSynced(r) == tracked[r] \subseteq synced[r]

\* Second half, under the informer's lock; an informer that is not on the set has
\* no first half.
PollInstances(w, r) ==
    /\ r \in waiter[w].todo
    /\ IF r \in ClusterScoped THEN waiter[w].at \in {None, r} /\ ~waiter[w].initialized
       ELSE waiter[w].at = r /\ waiter[w].initialized
    /\ IF InstancesSynced(r)
         THEN waiter' = [waiter EXCEPT ![w].initialized = FALSE, ![w].at = None,
                                       ![w].todo = @ \ {r}, ![w].yes = @ \union {r}]
         ELSE waiter' = [waiter EXCEPT ![w].initialized = FALSE, ![w].at = r]
    /\ UNCHANGED <<factory, namespaces, change, insts, runs, closedChans, panicked, shutdown>>

\* Mutant: the closed channel is not looked at.
PollGivesUp_Never(w, r) == FALSE

\* The channel closes: the informer is reported as not synced.
PollGivesUp(w, r) ==
    /\ waiter[w].at = r
    /\ ~waiter[w].initialized
    /\ waiter[w].ch \in closedChans
    /\ waiter' = [waiter EXCEPT ![w].at = None, ![w].todo = @ \ {r}]
    /\ UNCHANGED <<factory, namespaces, change, insts, runs, closedChans, panicked, shutdown>>

-----------------------------------------------------------------------------
(* The goroutines of the informers, and the owners of the channels.        *)

\* Mutant: Run does not launch the instances that were added before it.
LaunchedNames_None(r) == live[r]

LaunchedNames(r) == tracked[r]

\* Run launches the instances (see RunLaunch in MultiNamespaceInformer).
RunLaunch(r) ==
    /\ run[r] = "launched"
    /\ run' = [run EXCEPT ![r] = "waiting"]
    /\ live' = [live EXCEPT ![r] = LaunchedNames(r)]
    /\ UNCHANGED <<factory, namespaces, change, tracked, ending, synced, stopCh,
                   closedChans, panicked, shutdown, waiter>>

\* Mutant: Run returns without wg.Done().
RunStop_NoDone(r) ==
    /\ run[r] = "waiting"
    /\ stopCh[r] \in closedChans
    /\ run' = [run EXCEPT ![r] = "done"]
    /\ UNCHANGED <<factory, namespaces, change, insts, stopCh, closedChans, panicked,
                   shutdown, waiter>>

\* Run closes the channels of its instances and returns without waiting for them,
\* while the Run of client-go ends with its own goroutines; wg.Done() follows.
RunStop(r) ==
    /\ run[r] = "waiting"
    /\ stopCh[r] \in closedChans
    /\ run' = [run EXCEPT ![r] = "done"]
    /\ ending' = [ending EXCEPT ![r] = @ + Cardinality(live[r] \intersect Namespaces)]
    /\ live' = [live EXCEPT ![r] = {}]
    /\ wg' = wg - 1
    /\ UNCHANGED <<informers, startedInformers, shuttingDown, namespaces, change, tracked,
                   synced, stopCh, closedChans, panicked, shutdown, waiter>>

\* An instance that is ending may still hand over what it has received.
InstanceSyncs(r, ns) ==
    /\ \/ ns \in live[r]
       \/ run[r] = "done" /\ ending[r] > 0 /\ ns \in tracked[r]
    /\ ns \notin synced[r]
    /\ synced' = [synced EXCEPT ![r] = @ \union {ns}]
    /\ UNCHANGED <<factory, namespaces, change, tracked, live, ending, runs, closedChans,
                   panicked, shutdown, waiter>>

InstanceEnds(r) ==
    /\ ending[r] > 0
    /\ ending' = [ending EXCEPT ![r] = @ - 1]
    /\ UNCHANGED <<factory, namespaces, change, tracked, live, synced, runs, closedChans,
                   panicked, shutdown, waiter>>

CloseChan(ch) ==
    /\ ch \notin closedChans
    /\ closedChans' = closedChans \union {ch}
    /\ UNCHANGED <<factory, namespaces, change, insts, runs, panicked, shutdown, waiter>>

-----------------------------------------------------------------------------
Call ==
    \/ \E r \in Resources : ForResource(r)
    \/ \E ch \in Chans : Start(ch) \/ CloseChan(ch)
    \/ \E s \in Sets, byFactory \in BOOLEAN : SetNamespaces(s, byFactory)
    \/ \E s \in Stoppers : Shutdown(s)
    \/ \E w \in Waiters, ch \in Chans : WaitForCacheSync(w, ch)

SetProceeds ==
    FinishSet \/ \E r \in Resources, ns \in Namespaces : CallRemove(r, ns) \/ CallAdd(r, ns)
RunProceeds(r) == RunLaunch(r) \/ RunStop(r)
WaitProceeds(w) == \E r \in Resources : Poll(w, r) \/ PollInstances(w, r) \/ PollGivesUp(w, r)

Live ==
    \/ Call
    \/ SetProceeds
    \/ \E r \in Resources : RunProceeds(r) \/ InstanceEnds(r)
    \/ \E r \in Resources, ns \in Names : InstanceSyncs(r, ns)
    \/ \E s \in Stoppers : ShutdownReturns(s)
    \/ \E w \in Waiters : WaitProceeds(w)

Next == \/ ~panicked /\ Live
        \/ panicked /\ UNCHANGED vars

\* Goroutines that can run do run.  Two waits need more: a mutex serves everyone
\* who waits long enough (the first half of a poll), and between two polls a ticker
\* and the channel compete, of which a closed channel is chosen at last.
Fairness ==
    /\ WF_vars(~panicked /\ SetProceeds)
    /\ \A r \in Resources : WF_vars(~panicked /\ RunProceeds(r))
    /\ \A s \in Stoppers : WF_vars(~panicked /\ ShutdownReturns(s))
    /\ \A w \in Waiters :
         /\ WF_vars(~panicked /\ \E r \in Resources : PollInstances(w, r))
         /\ SF_vars(~panicked /\ \E r \in Resources : Poll(w, r))
         /\ SF_vars(~panicked /\ \E r \in Resources : PollGivesUp(w, r))

Spec == Init /\ [][Next]_vars /\ Fairness

-----------------------------------------------------------------------------
(* Types                                                                   *)

RunStates == {"none", "launched", "waiting", "done"}

\* Every variable has its type; in particular the counter is never negative.
TypeOK ==
    /\ informers \in SUBSET Resources
    /\ startedInformers \in SUBSET informers
    /\ shuttingDown \in BOOLEAN /\ panicked \in BOOLEAN
    /\ wg \in Nat
    /\ namespaces \in Sets
    /\ change # None => change \in Changes
    /\ tracked \in [Resources -> SUBSET Names]
    /\ run \in [Resources -> RunStates]
    /\ stopCh \in [Resources -> {None} \union Chans]
    /\ live \in [Resources -> SUBSET Names]
    /\ ending \in [Resources -> Nat]
    /\ synced \in [Resources -> SUBSET Names]
    /\ closedChans \in SUBSET Chans
    /\ shutdown \in [Stoppers -> {"idle", "waiting", "returned"}]
    /\ waiter \in [Waiters -> [todo : SUBSET Resources, at : {None} \union Resources,
                               initialized : BOOLEAN, ch : {None} \union Chans, disturbed : BOOLEAN,
                               yes : SUBSET Resources]]

(* Safety                                                                  *)

\* Whenever the lock of the set is free, all informers, made before or after the last
\* call of SetNamespaces, the factory's or the set's own, track exactly the names of
\* the set; those of cluster-scoped types are never touched by it.
AllFollow ==
    SetFree /\ ~panicked =>
        \A r \in informers :
            tracked[r] = IF r \in ClusterScoped THEN {Cluster} ELSE Elements(namespaces)

\* While Run waits, every name that its informer tracks is being watched, however
\* SetNamespaces was interleaved with Start and with the launch of the goroutine.
EveryNameIsWatched ==
    \A r \in Resources : run[r] = "waiting" => live[r] = tracked[r]

\* After some Shutdown has returned, no goroutine that Start launched is running
\* or will ever begin to.
ShutdownIsQuiet ==
    (\E s \in Stoppers : shutdown[s] = "returned") =>
        \A r \in Resources : run[r] \in {"none", "done"}

\* When WaitForCacheSync is over and no SetNamespaces went on meanwhile, all
\* the informers it reported as synced are, those polled first included.
WaitedAreSynced ==
    \A w \in Waiters :
        LET v == waiter[w] IN
        v.ch # None /\ v.todo = {} /\ ~v.disturbed =>
            \A r \in v.yes :
                IF r \in ClusterScoped THEN Cluster \in synced[r]
                ELSE namespaces # None /\ Elements(namespaces) \subseteq synced[r]

(* Liveness                                                                *)

\* Shutdown returns once the channels that the goroutines were started with are
\* closed, "either before Shutdown gets called or while it is waiting".
ShutdownEnds ==
    \A s \in Stoppers :
        shutdown[s] = "waiting" /\ (\A r \in startedInformers : stopCh[r] \in closedChans)
          ~> shutdown[s] = "returned" \/ panicked

\* WaitForCacheSync returns when its channel is closed, synced or not.
WaitEnds ==
    \A w \in Waiters :
        waiter[w].ch \in closedChans ~> waiter[w].todo = {} \/ panicked
=============================================================================
