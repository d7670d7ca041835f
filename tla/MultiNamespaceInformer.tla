----------------------- MODULE MultiNamespaceInformer -----------------------
(***************************************************************************)
(* One multiNamespaceInformer (pkg/informers/informer.go): a shared        *)
(* informer made of one client-go informer per namespace.                  *)
(*                                                                         *)
(* Its methods hold i.lock from beginning to end, so each is one action.   *)
(* The exception is Run, which takes the lock three times and waits for    *)
(* its stop channel in between: every goroutine that calls Run has a       *)
(* program counter.  The client-go informers run in goroutines of their    *)
(* own; their steps (the last section of actions) are modelled from what   *)
(* this code relies on.                                                    *)
(*                                                                         *)
(* The maps informers and stopChans are written together and always hold   *)
(* the same names; one function stands for both, and the stop channel made *)
(* with an instance is known by the name of the instance.                  *)
(***************************************************************************)
EXTENDS Naturals, Sequences

CONSTANTS
    Namespaces,     \* names that AddNamespace and RemoveNamespace are called with
    Instances,      \* the client-go informers that newInformer can return (a bound)
    Runners,        \* goroutines that may call Run, each with its own stop channel
    Handlers,       \* event handlers; each is added at most once
    Removable,      \* those whose owner may ask for their removal
    IndexerSets,    \* arguments of AddIndexers; no two define the same index
    WatchHandlers,  \* arguments of SetWatchErrorHandler
    None            \* a missing map entry, a nil function

ASSUME InformerAssumption ==
    /\ None \notin Instances
    /\ None \notin Instances \X Handlers
    /\ Removable \subseteq Handlers

VARIABLES
    informers,      \* i.informers and i.stopChans
    started,        \* i.started
    stopped,        \* i.stopped
    eventHandlers,  \* i.eventHandlers
    indexers,       \* i.indexers; adding one twice has the effect of adding it once
    errorHandler,   \* i.errorHandler
    registrationHandlers, \* i.registrationHandlers: <<instance, handler>> by name
    runner,         \* where each caller of Run is
    stopAsked,      \* the callers' stop channels that have been closed
    panicked,       \* a panic ended the process
    removed,        \* handlers whose owners asked for their removal (history)
    phase,          \* the life of each client-go informer
    launched,       \* how often `go informer.Run(stopCh)' was executed for it
    closed,         \* the instances whose stop channel has been closed
    synced,         \* the instances whose HasSynced returns true
    listeners,      \* the event handlers registered with each instance
    indexed,        \* the IndexerSets each instance has
    watching        \* each instance's watch error handler

config == <<eventHandlers, indexers, errorHandler, registrationHandlers, removed>>
run    == <<started, stopped, runner, stopAsked>>
inst   == <<phase, launched, closed, synced>>
attach == <<listeners, indexed, watching>>
vars   == <<informers, config, run, panicked, inst, attach>>

-----------------------------------------------------------------------------
Elems(s) == {s[j] : j \in 1..Len(s)}

Tracks(ns) == informers[ns] # None
Tracked == {informers[ns] : ns \in {m \in Namespaces : Tracks(m)}}

\* Mutant: one synced instance is taken for all.
AllSynced_Some == Tracked = {} \/ Tracked \intersect synced # {}

\* What HasSynced answers once it has i.lock; the check of the namespace set
\* before that is in module TrackedInformer.
AllSynced == Tracked \subseteq synced

Init ==
    /\ informers = [ns \in Namespaces |-> None]
    /\ started = FALSE /\ stopped = FALSE /\ panicked = FALSE
    /\ eventHandlers = <<>>
    /\ indexers = {}
    /\ errorHandler = None
    /\ registrationHandlers = [ns \in Namespaces |-> None]
    /\ runner = [r \in Runners |-> "idle"]
    /\ stopAsked = {}
    /\ removed = {}
    /\ phase = [i \in Instances |-> "unused"]
    /\ launched = [i \in Instances |-> 0]
    /\ closed = {}
    /\ synced = {}
    /\ listeners = [i \in Instances |-> {}]
    /\ indexed = [i \in Instances |-> {}]
    /\ watching = [i \in Instances |-> None]

-----------------------------------------------------------------------------
(* Namespaces come and go.                                                 *)

\* Mutants: a new instance is launched before Run, too; it is left to Run.
LaunchesAtOnce_Always == 1
LaunchesAtOnce_Never == 0

\* A new instance is launched at once if the informer has started.
LaunchesAtOnce == IF started THEN 1 ELSE 0

\* Mutant: a new instance misses the handlers added before it.
EarlierHandlers_None == {}

EarlierHandlers == Elems(eventHandlers)

\* Mutant: the registrations of a new instance are not recorded.
Registrations_Stale(ns, i) == registrationHandlers

\* Each registration overwrites the one before: the last handler's remains.
Registrations(ns, i) ==
    IF eventHandlers = <<>> THEN registrationHandlers
    ELSE [registrationHandlers EXCEPT ![ns] = <<i, eventHandlers[Len(eventHandlers)]>>]

\* The body of AddNamespace: a new instance gets all that was configured before.
NewInformer(ns, i) ==
    /\ phase[i] = "unused"
    /\ phase' = [phase EXCEPT ![i] = "new"]
    /\ indexed' = [indexed EXCEPT ![i] = indexers]
    /\ listeners' = [listeners EXCEPT ![i] = EarlierHandlers]
    /\ registrationHandlers' = Registrations(ns, i)
    /\ watching' = [watching EXCEPT ![i] = errorHandler]
    /\ informers' = [informers EXCEPT ![ns] = i]
    /\ launched' = [launched EXCEPT ![i] = LaunchesAtOnce]
    /\ UNCHANGED <<eventHandlers, indexers, errorHandler, removed, run, panicked,
                   closed, synced>>

AddNamespace(ns) ==
    \/ Tracks(ns) /\ UNCHANGED vars
    \/ ~Tracks(ns) /\ \E i \in Instances : NewInformer(ns, i)

\* Closing a channel a second time panics.
Panic ==
    /\ panicked' = TRUE
    /\ UNCHANGED <<informers, config, run, inst, attach>>

\* Mutants: the channel is not closed; the entry is kept; the entry is deleted
\* before the channel it holds is closed.
StopInformer_NoClose(ns) ==
    /\ informers' = [informers EXCEPT ![ns] = None]
    /\ UNCHANGED <<config, run, panicked, inst, attach>>

StopInformer_KeepsEntry(ns) ==
    /\ closed' = closed \union {informers[ns]}
    /\ UNCHANGED <<informers, config, run, panicked, phase, launched, synced, attach>>

StopInformer_DeletesFirst(ns) ==
    /\ informers' = [informers EXCEPT ![ns] = None]
    /\ closed' = closed \union {informers'[ns]}
    /\ UNCHANGED <<config, run, panicked, phase, launched, synced, attach>>

\* The synthetic OnDelete calls change no state of the informer.
StopInformer(ns) ==
    /\ closed' = closed \union {informers[ns]}
    /\ informers' = [informers EXCEPT ![ns] = None]
    /\ UNCHANGED <<config, run, panicked, phase, launched, synced, attach>>

RemoveNamespace(ns) ==
    \/ ~Tracks(ns) /\ UNCHANGED vars
    \/ Tracks(ns) /\ informers[ns] \in closed /\ Panic
    \/ Tracks(ns) /\ informers[ns] \notin closed /\ StopInformer(ns)

-----------------------------------------------------------------------------
(* Run.                                                                    *)

\* hasStarted() under the lock, which is then released.
RunCheck(r) ==
    /\ runner[r] = "idle"
    /\ runner' = [runner EXCEPT ![r] = IF started THEN "refused" ELSE "checked"]
    /\ UNCHANGED <<informers, config, started, stopped, stopAsked, panicked, inst, attach>>

\* The lock again: launch every instance.
RunLaunch(r) ==
    /\ runner[r] = "checked"
    /\ launched' = [i \in Instances |-> IF i \in Tracked THEN launched[i] + 1
                                                         ELSE launched[i]]
    /\ started' = TRUE
    /\ runner' = [runner EXCEPT ![r] = "waiting"]
    /\ UNCHANGED <<informers, config, stopped, stopAsked, panicked,
                   phase, closed, synced, attach>>

\* The owner of r closes the stop channel it passed to Run.
AskStop(r) ==
    /\ r \notin stopAsked
    /\ stopAsked' = stopAsked \union {r}
    /\ UNCHANGED <<informers, config, started, stopped, runner, panicked, inst, attach>>

\* Mutant: Run returns without closing the channels.
RunStop_NoClose(r) ==
    /\ runner[r] = "waiting"
    /\ r \in stopAsked
    /\ stopped' = TRUE
    /\ runner' = [runner EXCEPT ![r] = "done"]
    /\ UNCHANGED <<informers, config, started, stopAsked, panicked, inst, attach>>

\* The lock for the third time: close every stop channel.
RunStop(r) ==
    /\ runner[r] = "waiting"
    /\ r \in stopAsked
    /\ \/ Tracked \intersect closed # {} /\ Panic
       \/ /\ Tracked \intersect closed = {}
          /\ closed' = closed \union Tracked
          /\ stopped' = TRUE
          /\ runner' = [runner EXCEPT ![r] = "done"]
          /\ UNCHANGED <<informers, config, started, stopAsked, panicked,
                         phase, launched, synced, attach>>

-----------------------------------------------------------------------------
(* Configuration.  A loop over the instances, in any order, ends with the  *)
(* first error: the instances in `got' accepted the call, and unless they  *)
(* are all the instances, some other one was refusing it.                  *)

\* Mutant: the loop may end early without an error.
LoopOver_EndsEarly(got, refusing) == got \subseteq Tracked \ refusing

LoopOver(got, refusing) ==
    /\ got \subseteq Tracked \ refusing
    /\ got # Tracked => Tracked \intersect refusing # {}

\* client-go refuses an event handler once the instance has stopped, and
\* indexers and a watch error handler once it has started.
HasEnded == {i \in Instances : phase[i] = "stopped"}
HasBegun == {i \in Instances : phase[i] \in {"running", "stopped"}}

AddEventHandler(h) ==
    /\ h \notin Elems(eventHandlers)
    /\ eventHandlers' = Append(eventHandlers, h)
    /\ \E got \in SUBSET Tracked :
        /\ LoopOver(got, HasEnded)
        /\ listeners' = [i \in Instances |-> IF i \in got THEN listeners[i] \union {h}
                                                          ELSE listeners[i]]
        /\ registrationHandlers' =
             [ns \in Namespaces |-> IF informers[ns] \in got THEN <<informers[ns], h>>
                                                             ELSE registrationHandlers[ns]]
    /\ UNCHANGED <<informers, indexers, errorHandler, removed, run, panicked, inst,
                   indexed, watching>>

\* The registration that the owner of h passes is ignored: each instance loses
\* the handler that was last recorded for its name.
RemoveEventHandler(h) ==
    /\ h \in Elems(eventHandlers) \ removed
    /\ removed' = removed \union {h}
    /\ listeners' =
         [i \in Instances |->
            listeners[i] \ {g \in Handlers : \E ns \in Namespaces :
                              /\ informers[ns] = i
                              /\ registrationHandlers[ns] = <<i, g>>}]
    /\ UNCHANGED <<informers, eventHandlers, indexers, errorHandler,
                   registrationHandlers, run, panicked, inst, indexed, watching>>

AddIndexers(x) ==
    /\ indexers' = indexers \union {x}
    /\ \E got \in SUBSET Tracked :
        /\ LoopOver(got, HasBegun \union {i \in Instances : x \in indexed[i]})
        /\ indexed' = [i \in Instances |-> IF i \in got THEN indexed[i] \union {x}
                                                        ELSE indexed[i]]
    /\ UNCHANGED <<informers, eventHandlers, errorHandler, registrationHandlers, removed,
                   run, panicked, inst, listeners, watching>>

SetWatchErrorHandler(w) ==
    /\ errorHandler' = w
    /\ \E got \in SUBSET Tracked :
        /\ LoopOver(got, HasBegun)
        /\ watching' = [i \in Instances |-> IF i \in got THEN w ELSE watching[i]]
    /\ UNCHANGED <<informers, eventHandlers, indexers, registrationHandlers, removed,
                   run, panicked, inst, listeners, indexed>>

-----------------------------------------------------------------------------
(* client-go: the goroutine that runs one instance.  A second Run of the   *)
(* same instance returns at once and is no step.                           *)

BeginRun(i) ==
    /\ phase[i] = "new"
    /\ launched[i] > 0
    /\ phase' = [phase EXCEPT ![i] = "running"]
    /\ UNCHANGED <<informers, config, run, panicked, launched, closed, synced, attach>>

\* The objects of the first list have all been handed to the store.
Sync(i) ==
    /\ phase[i] = "running"
    /\ i \notin synced
    /\ synced' = synced \union {i}
    /\ UNCHANGED <<informers, config, run, panicked, phase, launched, closed, attach>>

EndRun(i) ==
    /\ phase[i] = "running"
    /\ i \in closed
    /\ phase' = [phase EXCEPT ![i] = "stopped"]
    /\ UNCHANGED <<informers, config, run, panicked, launched, closed, synced, attach>>

-----------------------------------------------------------------------------
Running(r) == RunCheck(r) \/ RunLaunch(r) \/ RunStop(r)

Configure ==
    \/ \E h \in Handlers : AddEventHandler(h)
    \/ \E h \in Removable : RemoveEventHandler(h)
    \/ \E x \in IndexerSets : AddIndexers(x)
    \/ \E w \in WatchHandlers : SetWatchErrorHandler(w)

Progress(i) == BeginRun(i) \/ Sync(i) \/ EndRun(i)

Live ==
    \/ \E ns \in Namespaces : AddNamespace(ns) \/ RemoveNamespace(ns)
    \/ \E r \in Runners : Running(r) \/ AskStop(r)
    \/ Configure
    \/ \E i \in Instances : Progress(i)

\* After a panic the process is gone.
Crashed == panicked /\ UNCHANGED vars

Next == \/ ~panicked /\ Live
        \/ Crashed

\* The scheduler runs every goroutine that can run: a caller that has entered
\* Run, and the goroutine of an instance, which does not depend on the API
\* server to begin or to end (it does to sync: no fairness there).
Fairness ==
    /\ \A r \in Runners : WF_vars(~panicked /\ (RunLaunch(r) \/ RunStop(r)))
    /\ \A i \in Instances : WF_vars(~panicked /\ (BeginRun(i) \/ EndRun(i)))

Spec == Init /\ [][Next]_vars /\ Fairness

-----------------------------------------------------------------------------
(* Types                                                                   *)

Phases == {"unused", "new", "running", "stopped"}
RunnerStates == {"idle", "refused", "checked", "waiting", "done"}

\* Every variable has its type.
TypeOK ==
    /\ informers \in [Namespaces -> Instances \union {None}]
    /\ started \in BOOLEAN /\ stopped \in BOOLEAN /\ panicked \in BOOLEAN
    /\ eventHandlers \in Seq(Handlers)
    /\ indexers \in SUBSET IndexerSets
    /\ errorHandler \in WatchHandlers \union {None}
    /\ registrationHandlers \in [Namespaces -> {None} \union (Instances \X Handlers)]
    /\ runner \in [Runners -> RunnerStates]
    /\ stopAsked \in SUBSET Runners
    /\ removed \in SUBSET Handlers
    /\ phase \in [Instances -> Phases]
    /\ launched \in [Instances -> Nat]
    /\ closed \in SUBSET Instances
    /\ synced \in SUBSET Instances
    /\ listeners \in [Instances -> SUBSET Handlers]
    /\ indexed \in [Instances -> SUBSET IndexerSets]
    /\ watching \in [Instances -> WatchHandlers \union {None}]

(* Safety                                                                  *)

\* Until Run's stop phase, the stop channel of an instance is open exactly as
\* long as some name is mapped to it: no watch goes on that the informer can no
\* longer reach (a leak), and none that it still reads from has been cut off.
OpenIffTracked ==
    ~stopped => \A i \in Instances :
        phase[i] # "unused" => (i \in Tracked <=> i \notin closed)

\* The runners that got past the check of hasStarted.
Launchers == {r \in Runners : runner[r] \in {"checked", "waiting", "done"}}

\* If only one call of Run passes the check, then every instance is launched
\* exactly once: at Run, if it was there before, by AddNamespace if it came
\* later; and none before Run.
LaunchedOnce ==
    (\A r, q \in Launchers : r = q) =>
        \A i \in Tracked : launched[i] = (IF started THEN 1 ELSE 0)

\* As long as nobody asks for a removal and the informer is not stopped, every
\* event handler listens at every instance, whichever of the two came first.
HandlersListen ==
    removed = {} /\ ~stopped => \A i \in Tracked : Elems(eventHandlers) \subseteq listeners[i]

\* The registration recorded for a tracked name is one of its present instance
\* (never of the instance that an earlier removal of the name stopped), though
\* RemoveNamespace leaves the old record behind.
RegistrationIsCurrent ==
    \A ns \in Namespaces :
        Tracks(ns) /\ registrationHandlers[ns] # None =>
            registrationHandlers[ns][1] = informers[ns]

\* Until the informer is started, all its instances have the same indexes and
\* the same watch error handler, those that a later instance will get.
UniformUntilStarted ==
    ~started => \A i \in Tracked : indexed[i] = indexers /\ watching[i] = errorHandler

\* No channel is closed twice before the stop phase of some call of Run is over,
\* however removals and several calls of Run are interleaved.
PanicOnlyAfterStop == panicked => stopped

(* Liveness                                                                *)

\* An instance that was launched and let go (its name was removed) stops, even if
\* the removal comes before its goroutine gets to run.
LetGoStops ==
    \A i \in Instances :
        launched[i] > 0 /\ i \notin Tracked ~> phase[i] = "stopped" \/ panicked

\* When the stop channel given to Run is closed, every instance tracked at that
\* time stops, whatever is added or removed before Run takes notice.
StopReachesAll ==
    \A r \in Runners, i \in Instances :
        r \in stopAsked /\ runner[r] = "waiting" /\ i \in Tracked ~>
            phase[i] = "stopped" \/ panicked

(* What the documentation says.                                            *)

\* "You can change the set of namespaces at anytime." (README.md:61)
NeverPanics == ~panicked
=============================================================================
