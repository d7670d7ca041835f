-------------------- MODULE MultiNamespaceInformerProofs --------------------
(***************************************************************************)
(* Proofs about MultiNamespaceInformer, for any number of names,           *)
(* instances, handlers and callers of Run, and about TransformedInformer.  *)
(*                                                                         *)
(* Each part of the invariant needs facts about instances that are not     *)
(* tracked, or about runners, which the properties leave out: an unused    *)
(* instance has an open channel and was never launched, only a closed      *)
(* channel stops an instance, `started' is set by a runner that waits.     *)
(***************************************************************************)
EXTENDS TransformedInformer, TLAPS

\* Instances are never shared, are not mapped to before they are made, and only
\* the closing of its channel ends one.
Channels ==
    /\ \A ns \in Namespaces : Tracks(ns) => phase[informers[ns]] # "unused"
    /\ \A m, ns \in Namespaces :
          Tracks(m) /\ Tracks(ns) /\ informers[m] = informers[ns] => m = ns
    /\ \A i \in Instances : phase[i] = "unused" => i \notin closed
    /\ \A i \in Instances : phase[i] = "stopped" => i \in closed
    /\ OpenIffTracked

\* `started' belongs to the runners that have launched; nothing begins without.
Launches ==
    /\ started <=> \E r \in Runners : runner[r] \in {"waiting", "done"}
    /\ ~started => \A i \in Instances : launched[i] = 0
    /\ \A i \in Instances : i \in HasBegun => launched[i] > 0
    /\ LaunchedOnce

\* A registration is recorded only once a handler has been added, and from then
\* on every new instance records another.
Recorded ==
    /\ RegistrationIsCurrent
    /\ \A ns \in Namespaces : registrationHandlers[ns] # None => eventHandlers # <<>>

Inv ==
    /\ TypeOK
    /\ Channels
    /\ Launches
    /\ Recorded
    /\ UniformUntilStarted
    /\ PanicOnlyAfterStop

-----------------------------------------------------------------------------
(* Types.                                                                  *)

\* A name is tracked by one of the instances.
LEMMA TrackedInstance ==
    ASSUME TypeOK
    PROVE  /\ Tracked \subseteq Instances
           /\ \A ns \in Namespaces : Tracks(ns) <=> informers[ns] \in Instances
           /\ \A ns \in Namespaces : Tracks(ns) => informers[ns] \in Tracked
  BY InformerAssumption DEF TypeOK, Tracked, Tracks

LEMMA ElemsType ==
    ASSUME NEW s \in Seq(Handlers)
    PROVE  Elems(s) \subseteq Handlers
  BY DEF Elems

LEMMA NamespacesType ==
    ASSUME TypeOK, NEW ns \in Namespaces, AddNamespace(ns) \/ RemoveNamespace(ns)
    PROVE  TypeOK'
<1>1. CASE UNCHANGED vars
  BY <1>1 DEF TypeOK, vars, config, run, inst, attach
<1>2. ASSUME NEW i \in Instances, NewInformer(ns, i)
      PROVE  TypeOK'
  <2>1. registrationHandlers' \in [Namespaces -> {None} \union (Instances \X Handlers)]
    BY <1>2 DEF NewInformer, Registrations, TypeOK
  <2>2. listeners' \in [Instances -> SUBSET Handlers]
    BY <1>2, ElemsType DEF NewInformer, EarlierHandlers, TypeOK
  <2> QED
    BY <1>2, <2>1, <2>2 DEF NewInformer, LaunchesAtOnce, TypeOK, Phases, run, inst
<1>3. CASE Tracks(ns) /\ Panic
  BY <1>3 DEF Panic, TypeOK, config, run, inst, attach
<1>4. CASE Tracks(ns) /\ StopInformer(ns)
  BY <1>4, TrackedInstance DEF StopInformer, TypeOK, config, run, inst, attach
<1> QED
  BY <1>1, <1>2, <1>3, <1>4 DEF AddNamespace, RemoveNamespace

LEMMA RunType ==
    ASSUME TypeOK, NEW r \in Runners, Running(r) \/ AskStop(r)
    PROVE  TypeOK'
<1> USE DEF TypeOK, config, inst, attach
<1>1. CASE RunCheck(r)
  BY <1>1 DEF RunCheck, RunnerStates
<1>2. CASE RunLaunch(r)
  BY <1>2 DEF RunLaunch, RunnerStates
<1>3. CASE RunStop(r)
  BY <1>3, TrackedInstance DEF RunStop, Panic, RunnerStates, run
<1>4. CASE AskStop(r)
  BY <1>4 DEF AskStop
<1> QED
  BY <1>1, <1>2, <1>3, <1>4 DEF Running

LEMMA ConfigureType ==
    ASSUME TypeOK, Configure
    PROVE  TypeOK'
<1> USE DEF TypeOK, run, inst
<1>1. ASSUME NEW h \in Handlers, AddEventHandler(h)
      PROVE  TypeOK'
  <2>1. PICK got \in SUBSET Tracked :
          /\ listeners' = [i \in Instances |-> IF i \in got THEN listeners[i] \union {h}
                                                            ELSE listeners[i]]
          /\ registrationHandlers' =
               [ns \in Namespaces |-> IF informers[ns] \in got THEN <<informers[ns], h>>
                                      ELSE registrationHandlers[ns]]
    BY <1>1 DEF AddEventHandler
  <2>2. got \subseteq Instances
    BY TrackedInstance
  <2> QED
    BY <1>1, <2>1, <2>2 DEF AddEventHandler
<1>2. ASSUME NEW h \in Removable, RemoveEventHandler(h)
      PROVE  TypeOK'
  BY <1>2, InformerAssumption DEF RemoveEventHandler
<1>3. ASSUME NEW x \in IndexerSets, AddIndexers(x)
      PROVE  TypeOK'
  BY <1>3 DEF AddIndexers
<1>4. ASSUME NEW w \in WatchHandlers, SetWatchErrorHandler(w)
      PROVE  TypeOK'
  BY <1>4 DEF SetWatchErrorHandler
<1> QED
  BY <1>1, <1>2, <1>3, <1>4 DEF Configure

LEMMA ProgressType ==
    ASSUME TypeOK, NEW i \in Instances, Progress(i)
    PROVE  TypeOK'
  BY DEF Progress, BeginRun, Sync, EndRun, TypeOK, Phases, config, run, attach

\* Every step keeps the types.
LEMMA NextType == TypeOK /\ [Next]_vars => TypeOK'
<1> SUFFICES ASSUME TypeOK, [Next]_vars PROVE TypeOK'
  OBVIOUS
<1>1. CASE UNCHANGED vars
  BY <1>1 DEF TypeOK, vars, config, run, inst, attach
<1>2. CASE Live
  BY <1>2, NamespacesType, RunType, ConfigureType, ProgressType DEF Live
<1> QED
  BY <1>1, <1>2 DEF Next, Crashed

-----------------------------------------------------------------------------
(* Which instances are tracked after a step.                               *)

LEMMA NewInformerTracks ==
    ASSUME TypeOK, NEW ns \in Namespaces, NEW i \in Instances, ~Tracks(ns),
           NewInformer(ns, i)
    PROVE  Tracked' = Tracked \union {i}
<1>1. \A m \in Namespaces : informers'[m] = IF m = ns THEN i ELSE informers[m]
  BY DEF NewInformer, TypeOK
<1>2. i # None
  BY InformerAssumption
<1>3. Tracked' \subseteq Tracked \union {i}
  BY <1>1, <1>2 DEF Tracked, Tracks
<1>4. Tracked \union {i} \subseteq Tracked'
  BY <1>1, <1>2 DEF Tracked, Tracks
<1> QED
  BY <1>3, <1>4

LEMMA StopInformerTracks ==
    ASSUME TypeOK, Channels, NEW ns \in Namespaces, Tracks(ns), StopInformer(ns)
    PROVE  Tracked' = Tracked \ {informers[ns]}
<1>1. \A m \in Namespaces : informers'[m] = IF m = ns THEN None ELSE informers[m]
  BY DEF StopInformer, TypeOK
<1>2. \A m \in Namespaces : Tracks(m) /\ informers[m] = informers[ns] => m = ns
  BY DEF Channels
<1>3. Tracked' \subseteq Tracked \ {informers[ns]}
  BY <1>1, <1>2 DEF Tracked, Tracks
<1>4. Tracked \ {informers[ns]} \subseteq Tracked'
  BY <1>1, <1>2 DEF Tracked, Tracks
<1> QED
  BY <1>3, <1>4

-----------------------------------------------------------------------------
(* The channels.                                                           *)

LEMMA NewInformerChannels ==
    ASSUME TypeOK, Channels, NEW ns \in Namespaces, NEW i \in Instances, ~Tracks(ns),
           NewInformer(ns, i)
    PROVE  Channels'
<1>1. Tracked' = Tracked \union {i}
  BY NewInformerTracks
<1>2. \A m \in Namespaces : informers'[m] = IF m = ns THEN i ELSE informers[m]
  BY DEF NewInformer, TypeOK
<1>3. \A j \in Instances : phase'[j] = IF j = i THEN "new" ELSE phase[j]
  BY DEF NewInformer, TypeOK
<1>4. UNCHANGED <<closed, stopped>> /\ i \notin closed /\ i \notin Tracked
  BY DEF NewInformer, Channels, run, Tracked, Tracks
<1>5. OpenIffTracked'
  BY <1>1, <1>3, <1>4 DEF Channels, OpenIffTracked
<1>6. \A m \in Namespaces : Tracks(m)' => phase'[informers'[m]] # "unused"
  BY <1>2, <1>3, TrackedInstance DEF Channels, Tracks
<1>7. \A m, n \in Namespaces :
        Tracks(m)' /\ Tracks(n)' /\ informers'[m] = informers'[n] => m = n
  BY <1>2, <1>4, TrackedInstance DEF Channels, Tracks
<1> QED
  BY <1>3, <1>4, <1>5, <1>6, <1>7 DEF Channels

LEMMA StopInformerChannels ==
    ASSUME TypeOK, Channels, NEW ns \in Namespaces, Tracks(ns), StopInformer(ns)
    PROVE  Channels'
<1>1. Tracked' = Tracked \ {informers[ns]}
  BY StopInformerTracks
<1>2. \A m \in Namespaces : informers'[m] = IF m = ns THEN None ELSE informers[m]
  BY DEF StopInformer, TypeOK
<1>3. UNCHANGED <<phase, stopped>> /\ closed' = closed \union {informers[ns]}
  BY DEF StopInformer, run
<1>4. OpenIffTracked'
  BY <1>1, <1>3 DEF Channels, OpenIffTracked
<1> QED
  BY <1>2, <1>3, <1>4 DEF Channels, Tracks

LEMMA RunStopChannels ==
    ASSUME TypeOK, Channels, NEW r \in Runners, RunStop(r)
    PROVE  Channels'
<1>1. CASE Panic
  BY <1>1 DEF Panic, inst, run, Channels, OpenIffTracked, Tracked, Tracks
<1>2. CASE closed' = closed \union Tracked /\ stopped' /\ UNCHANGED <<informers, phase>>
  BY <1>2 DEF Channels, OpenIffTracked, Tracked, Tracks
<1> QED
  BY <1>1, <1>2 DEF RunStop

LEMMA ProgressChannels ==
    ASSUME TypeOK, Channels, NEW i \in Instances, Progress(i)
    PROVE  Channels'
<1>1. UNCHANGED <<informers, closed, stopped>>
  BY DEF Progress, BeginRun, Sync, EndRun, run
<1>2. \A j \in Instances : /\ phase'[j] = "unused" <=> phase[j] = "unused"
                           /\ phase'[j] = "stopped" => j \in closed
  <2>1. CASE BeginRun(i)
    BY <2>1 DEF BeginRun, TypeOK, Channels
  <2>2. CASE Sync(i)
    BY <2>2 DEF Sync, Channels
  <2>3. CASE EndRun(i)
    BY <2>3 DEF EndRun, TypeOK, Channels
  <2> QED
    BY <2>1, <2>2, <2>3 DEF Progress
<1>3. Tracked' = Tracked /\ \A ns \in Namespaces : Tracks(ns)' <=> Tracks(ns)
  BY <1>1 DEF Tracked, Tracks
<1>4. OpenIffTracked'
  BY <1>1, <1>2, <1>3 DEF Channels, OpenIffTracked
<1>5. \A ns \in Namespaces : Tracks(ns)' => phase'[informers'[ns]] # "unused"
  BY <1>1, <1>2, <1>3, TrackedInstance DEF Channels
<1> QED
  BY <1>1, <1>2, <1>3, <1>4, <1>5 DEF Channels

\* Every step keeps the channels in order.
LEMMA NextChannels == TypeOK /\ Channels /\ [Next]_vars => Channels'
<1> SUFFICES ASSUME TypeOK, Channels, [Next]_vars PROVE Channels'
  OBVIOUS
<1>1. CASE UNCHANGED <<informers, phase, closed, stopped>>
  BY <1>1 DEF Channels, OpenIffTracked, Tracked, Tracks
<1>2. CASE \E ns \in Namespaces : AddNamespace(ns) \/ RemoveNamespace(ns)
  BY <1>1, <1>2, NewInformerChannels, StopInformerChannels
     DEF AddNamespace, RemoveNamespace, Panic, vars, run, inst
<1>3. CASE \E r \in Runners : Running(r) \/ AskStop(r)
  BY <1>1, <1>3, RunStopChannels DEF Running, RunCheck, RunLaunch, AskStop, inst
<1>4. CASE Configure
  BY <1>1, <1>4
     DEF Configure, AddEventHandler, RemoveEventHandler, AddIndexers,
         SetWatchErrorHandler, run, inst
<1>5. CASE \E i \in Instances : Progress(i)
  BY <1>5, ProgressChannels
<1>6. CASE UNCHANGED vars
  BY <1>1, <1>6 DEF vars, run, inst
<1> QED
  BY <1>2, <1>3, <1>4, <1>5, <1>6 DEF Next, Live, Crashed

-----------------------------------------------------------------------------
(* Launching.                                                              *)

LEMMA NewInformerLaunches ==
    ASSUME TypeOK, Channels, Launches, NEW ns \in Namespaces, NEW i \in Instances,
           ~Tracks(ns), NewInformer(ns, i)
    PROVE  Launches'
<1>1. UNCHANGED <<started, runner>>
  BY DEF NewInformer, run
<1>2. \A j \in Instances : launched'[j] = IF j = i THEN LaunchesAtOnce ELSE launched[j]
  BY DEF NewInformer, TypeOK
<1>3. \A j \in Instances : j \in HasBegun' <=> j \in HasBegun /\ j # i
  BY DEF NewInformer, TypeOK, HasBegun
<1>4. Tracked' = Tracked \union {i}
  BY NewInformerTracks
<1>5. LaunchedOnce'
  BY <1>1, <1>2, <1>4, TrackedInstance
     DEF Launches, LaunchedOnce, Launchers, LaunchesAtOnce
<1> QED
  BY <1>1, <1>2, <1>3, <1>5 DEF Launches, LaunchesAtOnce

LEMMA StopInformerLaunches ==
    ASSUME TypeOK, Channels, Launches, NEW ns \in Namespaces, Tracks(ns), StopInformer(ns)
    PROVE  Launches'
<1>1. UNCHANGED <<started, runner, launched, phase>>
  BY DEF StopInformer, run
<1>2. Tracked' = Tracked \ {informers[ns]}
  BY StopInformerTracks
<1>3. LaunchedOnce'
  BY <1>1, <1>2 DEF Launches, LaunchedOnce, Launchers
<1> QED
  BY <1>1, <1>3 DEF Launches, HasBegun

LEMMA RunCheckLaunches ==
    ASSUME TypeOK, Launches, NEW r \in Runners, RunCheck(r)
    PROVE  Launches'
<1>1. /\ UNCHANGED <<informers, started, launched, phase>>
      /\ runner[r] = "idle"
      /\ \A q \in Runners : runner'[q] = IF q # r THEN runner[q]
                                         ELSE IF started THEN "refused" ELSE "checked"
  BY DEF RunCheck, TypeOK, inst
<1>2. Tracked' = Tracked /\ \A i \in Instances : i \in HasBegun' <=> i \in HasBegun
  BY <1>1 DEF Tracked, Tracks, HasBegun
<1>3. LaunchedOnce'
  <2>1. CASE started
    <3>1. Launchers' = Launchers
      BY <1>1, <2>1 DEF Launchers
    <3> QED
      BY <1>1, <1>2, <3>1 DEF Launches, LaunchedOnce
  <2>2. CASE ~started
    BY <1>1, <1>2, <2>2, TrackedInstance DEF Launches, LaunchedOnce
  <2> QED
    BY <2>1, <2>2
<1> QED
  BY <1>1, <1>2, <1>3 DEF Launches

LEMMA RunLaunchLaunches ==
    ASSUME TypeOK, Launches, NEW r \in Runners, RunLaunch(r)
    PROVE  Launches'
<1>1. /\ UNCHANGED <<informers, phase>>
      /\ started'
      /\ runner[r] = "checked"
      /\ \A q \in Runners : runner'[q] = IF q = r THEN "waiting" ELSE runner[q]
      /\ \A i \in Instances :
            launched'[i] = IF i \in Tracked THEN launched[i] + 1 ELSE launched[i]
  BY DEF RunLaunch, TypeOK
<1>2. Tracked' = Tracked /\ \A i \in Instances : i \in HasBegun' <=> i \in HasBegun
  BY <1>1 DEF Tracked, Tracks, HasBegun
<1>3. Launchers' = Launchers /\ r \in Launchers
  BY <1>1 DEF Launchers
<1>4. LaunchedOnce'
  <2> SUFFICES ASSUME \A p, q \in Launchers : p = q, NEW i \in Tracked
               PROVE  launched'[i] = 1
    BY <1>1, <1>2, <1>3 DEF LaunchedOnce
  <2>1. ~started
    BY <1>1, <1>3 DEF Launches, Launchers
  <2> QED
    BY <1>1, <2>1, TrackedInstance DEF Launches
<1>5. \A i \in Instances : i \in HasBegun' => launched'[i] > 0
  <2> SUFFICES ASSUME NEW i \in Instances, i \in HasBegun PROVE launched'[i] > 0
    BY <1>2
  <2>1. launched[i] \in Nat /\ launched[i] > 0
    BY DEF Launches, TypeOK
  <2> QED
    BY <1>1, <2>1
<1> QED
  BY <1>1, <1>2, <1>4, <1>5 DEF Launches

LEMMA RunStopLaunches ==
    ASSUME TypeOK, Launches, NEW r \in Runners, RunStop(r)
    PROVE  Launches'
<1>1. CASE Panic
  BY <1>1 DEF Panic, run, inst, Launches, LaunchedOnce, Launchers, Tracked, Tracks, HasBegun
<1>2. CASE ~Panic
  <2>1. /\ UNCHANGED <<informers, started, phase, launched>>
        /\ runner[r] = "waiting"
        /\ \A q \in Runners : runner'[q] = IF q = r THEN "done" ELSE runner[q]
    BY <1>2 DEF RunStop, TypeOK
  <2>2. Launchers' = Launchers /\ Tracked' = Tracked
    BY <2>1 DEF Launchers, Tracked, Tracks
  <2>3. LaunchedOnce'
    BY <2>1, <2>2 DEF Launches, LaunchedOnce
  <2> QED
    BY <2>1, <2>3 DEF Launches, HasBegun
<1> QED
  BY <1>1, <1>2

LEMMA ProgressLaunches ==
    ASSUME TypeOK, Launches, NEW i \in Instances, Progress(i)
    PROVE  Launches'
<1>1. UNCHANGED <<informers, started, runner, launched>>
  BY DEF Progress, BeginRun, Sync, EndRun, run
<1>2. \A j \in Instances : j \in HasBegun' => j \in HasBegun \/ launched[j] > 0
  <2>1. CASE BeginRun(i)
    BY <2>1 DEF BeginRun, TypeOK, HasBegun
  <2>2. CASE Sync(i)
    BY <2>2 DEF Sync, HasBegun
  <2>3. CASE EndRun(i)
    BY <2>3 DEF EndRun, TypeOK, HasBegun
  <2> QED
    BY <2>1, <2>2, <2>3 DEF Progress
<1>3. LaunchedOnce'
  BY <1>1 DEF Launches, LaunchedOnce, Launchers, Tracked, Tracks
<1> QED
  BY <1>1, <1>2, <1>3 DEF Launches

\* Every step keeps the count of launches right.
LEMMA NextLaunches == TypeOK /\ Channels /\ Launches /\ [Next]_vars => Launches'
<1> SUFFICES ASSUME TypeOK, Channels, Launches, [Next]_vars PROVE Launches'
  OBVIOUS
<1>1. CASE UNCHANGED <<informers, started, runner, phase, launched>>
  BY <1>1 DEF Launches, LaunchedOnce, Launchers, Tracked, Tracks, HasBegun
<1>2. CASE \E ns \in Namespaces : AddNamespace(ns) \/ RemoveNamespace(ns)
  BY <1>1, <1>2, NewInformerLaunches, StopInformerLaunches
     DEF AddNamespace, RemoveNamespace, Panic, vars, run, inst
<1>3. CASE \E r \in Runners : Running(r) \/ AskStop(r)
  BY <1>1, <1>3, RunCheckLaunches, RunLaunchLaunches, RunStopLaunches
     DEF Running, AskStop, inst
<1>4. CASE Configure
  BY <1>1, <1>4
     DEF Configure, AddEventHandler, RemoveEventHandler, AddIndexers,
         SetWatchErrorHandler, run, inst
<1>5. CASE \E i \in Instances : Progress(i)
  BY <1>5, ProgressLaunches
<1>6. CASE UNCHANGED vars
  BY <1>1, <1>6 DEF vars, run, inst
<1> QED
  BY <1>2, <1>3, <1>4, <1>5, <1>6 DEF Next, Live, Crashed

-----------------------------------------------------------------------------
(* Registrations, settings and panics.                                     *)

LEMMA NewInformerRecorded ==
    ASSUME TypeOK, Recorded, NEW ns \in Namespaces, NEW i \in Instances, NewInformer(ns, i)
    PROVE  Recorded'
<1>1. /\ UNCHANGED eventHandlers
      /\ \A m \in Namespaces : informers'[m] = IF m = ns THEN i ELSE informers[m]
  BY DEF NewInformer, TypeOK
<1>2. CASE eventHandlers = <<>>
  BY <1>1, <1>2 DEF NewInformer, Registrations, Recorded, RegistrationIsCurrent, Tracks
<1>3. CASE eventHandlers # <<>>
  <2>1. \A m \in Namespaces :
          registrationHandlers'[m] = IF m = ns THEN <<i, eventHandlers[Len(eventHandlers)]>>
                                     ELSE registrationHandlers[m]
    BY <1>3 DEF NewInformer, Registrations, TypeOK
  <2> QED
    BY <1>1, <1>3, <2>1 DEF Recorded, RegistrationIsCurrent, Tracks
<1> QED
  BY <1>2, <1>3

LEMMA StopInformerRecorded ==
    ASSUME TypeOK, Recorded, NEW ns \in Namespaces, StopInformer(ns)
    PROVE  Recorded'
  BY DEF StopInformer, config, TypeOK, Recorded, RegistrationIsCurrent, Tracks

LEMMA AddEventHandlerRecorded ==
    ASSUME TypeOK, Recorded, NEW h \in Handlers, AddEventHandler(h)
    PROVE  Recorded'
<1>1. PICK got \in SUBSET Tracked :
         registrationHandlers' =
           [ns \in Namespaces |-> IF informers[ns] \in got THEN <<informers[ns], h>>
                                  ELSE registrationHandlers[ns]]
  BY DEF AddEventHandler
<1>2. UNCHANGED informers /\ eventHandlers' # <<>>
  <2>1. UNCHANGED informers /\ Len(eventHandlers') = Len(eventHandlers) + 1
    BY DEF AddEventHandler, TypeOK
  <2> QED
    BY <2>1 DEF TypeOK
<1> QED
  BY <1>1, <1>2 DEF Recorded, RegistrationIsCurrent, Tracks

\* Every step keeps the recorded registrations current.
LEMMA NextRecorded == TypeOK /\ Recorded /\ [Next]_vars => Recorded'
<1> SUFFICES ASSUME TypeOK, Recorded, [Next]_vars PROVE Recorded'
  OBVIOUS
<1>1. CASE UNCHANGED <<informers, eventHandlers, registrationHandlers>>
  BY <1>1 DEF Recorded, RegistrationIsCurrent, Tracks
<1>2. CASE \E ns \in Namespaces : AddNamespace(ns) \/ RemoveNamespace(ns)
  BY <1>1, <1>2, NewInformerRecorded, StopInformerRecorded
     DEF AddNamespace, RemoveNamespace, Panic, vars, config
<1>3. CASE \E r \in Runners : Running(r) \/ AskStop(r)
  BY <1>1, <1>3 DEF Running, RunCheck, RunLaunch, RunStop, AskStop, Panic, config
<1>4. CASE Configure
  BY <1>1, <1>4, AddEventHandlerRecorded
     DEF Configure, RemoveEventHandler, AddIndexers, SetWatchErrorHandler
<1>5. CASE \E i \in Instances : Progress(i)
  BY <1>1, <1>5 DEF Progress, BeginRun, Sync, EndRun, config
<1>6. CASE UNCHANGED vars
  BY <1>1, <1>6 DEF vars, config
<1> QED
  BY <1>2, <1>3, <1>4, <1>5, <1>6 DEF Next, Live, Crashed

LEMMA NewInformerUniform ==
    ASSUME TypeOK, UniformUntilStarted, NEW ns \in Namespaces, NEW i \in Instances,
           ~Tracks(ns), NewInformer(ns, i)
    PROVE  UniformUntilStarted'
<1>1. Tracked' = Tracked \union {i}
  BY NewInformerTracks
<1>2. /\ UNCHANGED <<started, indexers, errorHandler>>
      /\ \A j \in Instances : /\ indexed'[j] = IF j = i THEN indexers ELSE indexed[j]
                              /\ watching'[j] = IF j = i THEN errorHandler ELSE watching[j]
  BY DEF NewInformer, TypeOK, run
<1> QED
  BY <1>1, <1>2, TrackedInstance DEF UniformUntilStarted

LEMMA AddIndexersUniform ==
    ASSUME TypeOK, Launches, UniformUntilStarted, NEW x \in IndexerSets, AddIndexers(x)
    PROVE  UniformUntilStarted'
<1>1. PICK got \in SUBSET Tracked :
        /\ LoopOver(got, HasBegun \union {i \in Instances : x \in indexed[i]})
        /\ indexed' = [i \in Instances |-> IF i \in got THEN indexed[i] \union {x}
                                                        ELSE indexed[i]]
  BY DEF AddIndexers
<1>2. /\ UNCHANGED <<informers, started, errorHandler, watching>>
      /\ indexers' = indexers \union {x}
  BY DEF AddIndexers, run
<1>3. Tracked' = Tracked
  BY <1>2 DEF Tracked, Tracks
<1> SUFFICES ASSUME ~started, NEW i \in Tracked
             PROVE  indexed'[i] = indexers \union {x} /\ watching[i] = errorHandler
  BY <1>2, <1>3 DEF UniformUntilStarted
<1>4. \A j \in Tracked : j \notin HasBegun /\ indexed[j] = indexers
  BY TrackedInstance DEF Launches, UniformUntilStarted
<1>5. watching[i] = errorHandler /\ i \in Instances
  BY TrackedInstance DEF UniformUntilStarted
<1>6. CASE x \in indexers
  BY <1>1, <1>4, <1>5, <1>6 DEF LoopOver
<1>7. CASE x \notin indexers
  BY <1>1, <1>4, <1>5, <1>7 DEF LoopOver
<1> QED
  BY <1>6, <1>7

LEMMA SetWatchUniform ==
    ASSUME TypeOK, Launches, UniformUntilStarted, NEW w \in WatchHandlers,
           SetWatchErrorHandler(w)
    PROVE  UniformUntilStarted'
<1>1. PICK got \in SUBSET Tracked :
        /\ LoopOver(got, HasBegun)
        /\ watching' = [i \in Instances |-> IF i \in got THEN w ELSE watching[i]]
  BY DEF SetWatchErrorHandler
<1>2. UNCHANGED <<informers, started, indexers, indexed>> /\ errorHandler' = w
  BY DEF SetWatchErrorHandler, run
<1>3. Tracked' = Tracked
  BY <1>2 DEF Tracked, Tracks
<1> SUFFICES ASSUME ~started, NEW i \in Tracked
             PROVE  indexed[i] = indexers /\ watching'[i] = w
  BY <1>2, <1>3 DEF UniformUntilStarted
<1>4. \A j \in Tracked : j \notin HasBegun
  BY TrackedInstance DEF Launches
<1>5. got = Tracked
  BY <1>1, <1>4 DEF LoopOver
<1> QED
  BY <1>1, <1>5, TrackedInstance DEF UniformUntilStarted

\* Every step keeps the settings of the instances equal until the start.
LEMMA NextUniform ==
    TypeOK /\ Channels /\ Launches /\ UniformUntilStarted /\ [Next]_vars
      => UniformUntilStarted'
<1> SUFFICES ASSUME TypeOK, Channels, Launches, UniformUntilStarted, [Next]_vars
             PROVE  UniformUntilStarted'
  OBVIOUS
<1>1. CASE UNCHANGED <<informers, started, indexers, errorHandler, indexed, watching>>
  BY <1>1 DEF UniformUntilStarted, Tracked, Tracks
<1>2. ASSUME NEW ns \in Namespaces, Tracks(ns), StopInformer(ns)
      PROVE  UniformUntilStarted'
  BY <1>2, StopInformerTracks DEF StopInformer, config, run, attach, UniformUntilStarted
<1>3. CASE \E ns \in Namespaces : AddNamespace(ns) \/ RemoveNamespace(ns)
  BY <1>1, <1>2, <1>3, NewInformerUniform
     DEF AddNamespace, RemoveNamespace, Panic, vars, config, run, attach
<1>4. CASE \E r \in Runners : RunLaunch(r)
  BY <1>4 DEF RunLaunch, UniformUntilStarted
<1>5. CASE \E r \in Runners : RunCheck(r) \/ RunStop(r) \/ AskStop(r)
  BY <1>1, <1>5 DEF RunCheck, RunStop, AskStop, Panic, config, run, attach
<1>6. CASE Configure
  BY <1>1, <1>6, AddIndexersUniform, SetWatchUniform
     DEF Configure, AddEventHandler, RemoveEventHandler, run
<1>7. CASE \E i \in Instances : Progress(i)
  BY <1>1, <1>7 DEF Progress, BeginRun, Sync, EndRun, config, run, attach
<1>8. CASE UNCHANGED vars
  BY <1>1, <1>8 DEF vars, config, run, attach
<1> QED
  BY <1>3, <1>4, <1>5, <1>6, <1>7, <1>8 DEF Next, Live, Running, Crashed

\* A panic finds a closed channel in the map; before the stop there is none.
LEMMA NextPanic ==
    TypeOK /\ Channels /\ PanicOnlyAfterStop /\ [Next]_vars => PanicOnlyAfterStop'
<1> SUFFICES ASSUME TypeOK, Channels, PanicOnlyAfterStop, [Next]_vars
             PROVE  PanicOnlyAfterStop'
  OBVIOUS
<1>1. CASE UNCHANGED panicked /\ (stopped => stopped')
  BY <1>1 DEF PanicOnlyAfterStop
<1>2. ASSUME NEW i \in Tracked, i \in closed, Panic
      PROVE  PanicOnlyAfterStop'
  <2>1. i \in Instances /\ phase[i] # "unused"
    BY <1>2, TrackedInstance DEF Channels, Tracked
  <2> QED
    BY <1>2, <2>1 DEF Channels, OpenIffTracked, PanicOnlyAfterStop, Panic, run
<1>3. CASE \E ns \in Namespaces : RemoveNamespace(ns)
  BY <1>1, <1>2, <1>3, TrackedInstance DEF RemoveNamespace, StopInformer, vars, run
<1>4. CASE \E ns \in Namespaces : AddNamespace(ns)
  BY <1>1, <1>4 DEF AddNamespace, NewInformer, vars, run
<1>5. CASE \E r \in Runners : RunStop(r)
  BY <1>1, <1>2, <1>5 DEF RunStop
<1>6. CASE \E r \in Runners : RunCheck(r) \/ RunLaunch(r) \/ AskStop(r)
  BY <1>1, <1>6 DEF RunCheck, RunLaunch, AskStop
<1>7. CASE Configure
  BY <1>1, <1>7
     DEF Configure, AddEventHandler, RemoveEventHandler, AddIndexers,
         SetWatchErrorHandler, run
<1>8. CASE \E i \in Instances : Progress(i)
  BY <1>1, <1>8 DEF Progress, BeginRun, Sync, EndRun, run
<1>9. CASE UNCHANGED vars
  BY <1>1, <1>9 DEF vars, run
<1> QED
  BY <1>3, <1>4, <1>5, <1>6, <1>7, <1>8, <1>9 DEF Next, Live, Running, Crashed

-----------------------------------------------------------------------------
(* The invariant and the properties.                                       *)

LEMMA InitInv == Init => Inv
<1> SUFFICES ASSUME Init PROVE Inv
  OBVIOUS
<1>1. \A ns \in Namespaces : ~Tracks(ns)
  BY DEF Init, Tracks
<1>2. Tracked = {}
  BY <1>1 DEF Tracked
<1>3. TypeOK
  <2>1. /\ informers \in [Namespaces -> Instances \union {None}]
        /\ registrationHandlers \in [Namespaces -> {None} \union (Instances \X Handlers)]
        /\ eventHandlers \in Seq(Handlers)
    BY DEF Init
  <2>2. /\ started \in BOOLEAN /\ stopped \in BOOLEAN /\ panicked \in BOOLEAN
        /\ indexers \in SUBSET IndexerSets
        /\ errorHandler \in WatchHandlers \union {None}
        /\ stopAsked \in SUBSET Runners /\ removed \in SUBSET Handlers
        /\ closed \in SUBSET Instances /\ synced \in SUBSET Instances
    BY DEF Init
  <2>3. runner \in [Runners -> RunnerStates] /\ phase \in [Instances -> Phases]
    BY DEF Init, RunnerStates, Phases
  <2>4. launched \in [Instances -> Nat] /\ listeners \in [Instances -> SUBSET Handlers]
    BY DEF Init
  <2>5. /\ indexed \in [Instances -> SUBSET IndexerSets]
        /\ watching \in [Instances -> WatchHandlers \union {None}]
    BY DEF Init
  <2> QED
    BY <2>1, <2>2, <2>3, <2>4, <2>5 DEF TypeOK
<1>4. Channels
  BY <1>1, <1>2 DEF Init, Channels, OpenIffTracked
<1>5. Launches
  BY <1>2 DEF Init, Launches, LaunchedOnce, HasBegun
<1>6. Recorded /\ UniformUntilStarted /\ PanicOnlyAfterStop
  BY <1>1, <1>2
     DEF Init, Recorded, RegistrationIsCurrent, UniformUntilStarted, PanicOnlyAfterStop
<1> QED
  BY <1>3, <1>4, <1>5, <1>6 DEF Inv

\* Every step keeps Inv.
LEMMA NextInv == Inv /\ [Next]_vars => Inv'
  BY NextType, NextChannels, NextLaunches, NextRecorded, NextUniform, NextPanic DEF Inv

\* Inv holds in every state of every behaviour of the code.
THEOREM Invariance == Spec => []Inv
  BY InitInv, NextInv, PTL DEF Spec

\* The type invariant.
THEOREM TypeCorrect == Spec => []TypeOK
<1>1. Inv => TypeOK
  BY DEF Inv
<1> QED
  BY <1>1, Invariance, PTL

\* Until Run's stop phase, exactly the channels of the tracked instances are
\* open: AddNamespace and RemoveNamespace leak nothing and cut off nothing.
THEOREM NoLeak == Spec => []OpenIffTracked
<1>1. Inv => OpenIffTracked
  BY DEF Inv, Channels
<1> QED
  BY <1>1, Invariance, PTL

\* If one call of Run passes the check, each instance is launched exactly once.
THEOREM LaunchCount == Spec => []LaunchedOnce
<1>1. Inv => LaunchedOnce
  BY DEF Inv, Launches
<1> QED
  BY <1>1, Invariance, PTL

\* A recorded registration never belongs to an instance that was let go.
THEOREM CurrentRegistrations == Spec => []RegistrationIsCurrent
<1>1. Inv => RegistrationIsCurrent
  BY DEF Inv, Recorded
<1> QED
  BY <1>1, Invariance, PTL

\* Before the start, all instances have all indexers and the same error handler.
THEOREM UniformSettings == Spec => []UniformUntilStarted
<1>1. Inv => UniformUntilStarted
  BY DEF Inv
<1> QED
  BY <1>1, Invariance, PTL

\* Nothing panics before Run's stop phase.
THEOREM NoEarlyPanic == Spec => []PanicOnlyAfterStop
<1>1. Inv => PanicOnlyAfterStop
  BY DEF Inv
<1> QED
  BY <1>1, Invariance, PTL

-----------------------------------------------------------------------------
(* Event handlers.                                                         *)

LEMMA AppendElems ==
    ASSUME NEW s \in Seq(Handlers), NEW h \in Handlers
    PROVE  Elems(Append(s, h)) \subseteq Elems(s) \union {h}
<1>1. /\ Len(s) \in Nat /\ Len(Append(s, h)) = Len(s) + 1
      /\ \A j \in 1..Len(s) : Append(s, h)[j] = s[j]
      /\ Append(s, h)[Len(s) + 1] = h
  OBVIOUS
<1> QED
  BY <1>1 DEF Elems

LEMMA AddEventHandlerListening ==
    ASSUME TypeOK, Channels, HandlersListen, NEW h \in Handlers, AddEventHandler(h)
    PROVE  HandlersListen'
<1>1. PICK got \in SUBSET Tracked :
        /\ LoopOver(got, HasEnded)
        /\ listeners' = [i \in Instances |-> IF i \in got THEN listeners[i] \union {h}
                                                          ELSE listeners[i]]
  BY DEF AddEventHandler
<1>2. /\ UNCHANGED <<informers, removed, stopped>>
      /\ eventHandlers' = Append(eventHandlers, h)
  BY DEF AddEventHandler, run
<1>3. Tracked' = Tracked
  BY <1>2 DEF Tracked, Tracks
<1>4. Elems(eventHandlers') \subseteq Elems(eventHandlers) \union {h}
  BY <1>2, AppendElems DEF TypeOK
<1> SUFFICES ASSUME removed = {}, ~stopped, NEW i \in Tracked
             PROVE  Elems(eventHandlers') \subseteq listeners'[i]
  BY <1>2, <1>3 DEF HandlersListen
<1>5. \A j \in Tracked : j \in Instances /\ phase[j] # "unused"
  BY TrackedInstance DEF Channels, Tracked
<1>6. \A j \in Tracked : j \notin HasEnded
  BY <1>5 DEF Channels, OpenIffTracked, HasEnded
<1>7. got = Tracked
  BY <1>1, <1>6 DEF LoopOver
<1>8. Elems(eventHandlers) \subseteq listeners[i]
  BY DEF HandlersListen
<1> QED
  BY <1>1, <1>4, <1>5, <1>7, <1>8

LEMMA NextListening ==
    TypeOK /\ Channels /\ HandlersListen /\ [Next]_vars => HandlersListen'
<1> SUFFICES ASSUME TypeOK, Channels, HandlersListen, [Next]_vars PROVE HandlersListen'
  OBVIOUS
<1>1. CASE UNCHANGED <<informers, eventHandlers, removed, listeners>> /\ (stopped => stopped')
  BY <1>1 DEF HandlersListen, Tracked, Tracks, Elems
<1>2. ASSUME NEW ns \in Namespaces, NEW i \in Instances, ~Tracks(ns), NewInformer(ns, i)
      PROVE  HandlersListen'
  <2>1. Tracked' = Tracked \union {i}
    BY <1>2, NewInformerTracks
  <2>2. /\ UNCHANGED <<eventHandlers, removed, stopped>>
        /\ \A j \in Instances :
              listeners'[j] = IF j = i THEN Elems(eventHandlers) ELSE listeners[j]
    BY <1>2 DEF NewInformer, EarlierHandlers, TypeOK, run
  <2> QED
    <3>1. Elems(eventHandlers)' = Elems(eventHandlers)
      BY <2>2 DEF Elems
    <3>2. Tracked \subseteq Instances
      BY TrackedInstance
    <3> QED
      BY <2>1, <2>2, <3>1, <3>2 DEF HandlersListen
<1>3. ASSUME NEW ns \in Namespaces, Tracks(ns), StopInformer(ns)
      PROVE  HandlersListen'
  <2>1. Tracked' \subseteq Tracked
    BY <1>3, StopInformerTracks
  <2> QED
    BY <1>3, <2>1 DEF StopInformer, config, run, attach, HandlersListen, Elems
<1>4. CASE \E ns \in Namespaces : AddNamespace(ns) \/ RemoveNamespace(ns)
  BY <1>1, <1>2, <1>3, <1>4
     DEF AddNamespace, RemoveNamespace, Panic, vars, config, run, attach
<1>5. CASE \E r \in Runners : Running(r) \/ AskStop(r)
  BY <1>1, <1>5
     DEF Running, RunCheck, RunLaunch, RunStop, AskStop, Panic, config, run, attach
<1>6. CASE Configure
  <2>1. ASSUME NEW h \in Removable, RemoveEventHandler(h)
        PROVE  HandlersListen'
    BY <2>1 DEF RemoveEventHandler, HandlersListen
  <2> QED
    BY <1>1, <1>6, <2>1, AddEventHandlerListening
       DEF Configure, AddIndexers, SetWatchErrorHandler, run
<1>7. CASE \E i \in Instances : Progress(i)
  BY <1>1, <1>7 DEF Progress, BeginRun, Sync, EndRun, config, run, attach
<1>8. CASE UNCHANGED vars
  BY <1>1, <1>8 DEF vars, config, run, attach
<1> QED
  BY <1>4, <1>5, <1>6, <1>7, <1>8 DEF Next, Live, Crashed

\* Until someone calls RemoveEventHandler or the stop channel is closed, every
\* handler listens at every instance, whichever of the two came first.
THEOREM EveryHandlerListens == Spec => []HandlersListen
<1>1. Init => HandlersListen
  <2> SUFFICES ASSUME Init PROVE HandlersListen
    OBVIOUS
  <2>1. Elems(eventHandlers) = {}
    BY DEF Init, Elems
  <2> QED
    BY <2>1 DEF Init, HandlersListen
<1>2. Inv /\ HandlersListen /\ [Next]_vars => HandlersListen'
  BY NextListening DEF Inv
<1> QED
  BY <1>1, <1>2, Invariance, PTL DEF Spec

-----------------------------------------------------------------------------
(* SetTransform reads the map without the lock, so what follows traces     *)
(* what the iteration has still to visit through every step of the         *)
(* informer: a name that stays keeps its instance, a name that goes is no  *)
(* longer due, and a name that comes is what the property excepts.         *)

SettersType == setter \in [Setters -> Setter]

\* As long as no instance has refused and no name was added, what has not got the
\* transform is still to be visited; when the call has returned, there is nothing.
Reached ==
    \A s \in Setters : ~setter[s].added =>
        /\ setter[s].at = "ranging" /\ ~setter[s].refused =>
             \A ns \in TrackedNames : ns \in setter[s].due \/ informers[ns] \in transformed
        /\ setter[s].at = "nil" => \A ns \in TrackedNames : informers[ns] \in transformed

TransformInv ==
    /\ Inv
    /\ SettersType
    /\ Reached

\* A name that is tracked before and after a step has the same instance.
LEMMA InstanceStays ==
    ASSUME TypeOK, [Next]_vars, NEW ns \in Namespaces, Tracks(ns), informers'[ns] # None
    PROVE  informers'[ns] = informers[ns]
<1>1. CASE UNCHANGED informers
  BY <1>1
<1>2. CASE \E m \in Namespaces : AddNamespace(m)
  <2>1. PICK m \in Namespaces : AddNamespace(m)
    BY <1>2
  <2>2. CASE \E i \in Instances : ~Tracks(m) /\ NewInformer(m, i)
    BY <2>2 DEF NewInformer, Tracks, TypeOK
  <2> QED
    BY <1>1, <2>1, <2>2 DEF AddNamespace, vars
<1>3. CASE \E m \in Namespaces : RemoveNamespace(m)
  BY <1>1, <1>3 DEF RemoveNamespace, StopInformer, Panic, TypeOK, vars
<1>4. CASE \/ \E r \in Runners : Running(r) \/ AskStop(r)
           \/ Configure
           \/ \E i \in Instances : Progress(i)
           \/ UNCHANGED vars
  BY <1>1, <1>4
     DEF Running, RunCheck, RunLaunch, RunStop, AskStop, Panic, Configure, AddEventHandler,
         RemoveEventHandler, AddIndexers, SetWatchErrorHandler, Progress, BeginRun, Sync, EndRun,
         vars
<1> QED
  BY <1>2, <1>3, <1>4 DEF Next, Live, Crashed

\* The call's fields after a step of the informer.
LEMMA RacedSetter ==
    ASSUME SettersType, InformerStep, NEW s \in Setters
    PROVE  LET st == setter[s]
               new == setter'[s] IN
           /\ new \in Setter
           /\ new.at = st.at
           /\ ~new.added => ~st.added
           /\ st.at \in {"ranging", "nil"} => (Adds => new.added)
           /\ st.at = "ranging" => /\ new.due = st.due \intersect TrackedNames'
                                   /\ new.refused <=> st.refused
<1> DEFINE st == setter[s]
<1>1. setter'[s] = Raced(st) /\ st \in Setter
  BY DEF InformerStep, SettersType
<1> HIDE DEF st
<1>2. CASE st.at \in {"idle", "error"}
  BY <1>1, <1>2 DEF Raced, st
<1>3. CASE st.at = "nil"
  <2> DEFINE a == st.added \/ Adds
  <2>1. setter'[s] = [st EXCEPT !.added = a]
    BY <1>1, <1>3 DEF Raced
  <2>2. a \in BOOLEAN /\ (Adds => a) /\ (~a => ~st.added)
    BY <1>1 DEF Setter
  <2> HIDE DEF a
  <2> QED
    BY <1>1, <1>3, <2>1, <2>2 DEF Setter, st
<1>4. CASE st.at = "ranging"
  <2> DEFINE a == st.added \/ Adds
             w == st.written \/ TrackedNames' # TrackedNames
             d == st.due \intersect TrackedNames'
  <2>1. setter'[s] = [st EXCEPT !.due = d, !.written = w, !.added = a]
    BY <1>1, <1>4 DEF Raced
  <2>2. /\ a \in BOOLEAN /\ (Adds => a) /\ (~a => ~st.added)
        /\ w \in BOOLEAN
        /\ d \in SUBSET Namespaces
    BY <1>1 DEF Setter
  <2>3. d = st.due \intersect TrackedNames'
    OBVIOUS
  <2> HIDE DEF a, w, d
  <2> QED
    BY <1>1, <1>4, <2>1, <2>2, <2>3 DEF Setter, st
<1> QED
  BY <1>1, <1>2, <1>3, <1>4 DEF Setter

LEMMA InformerStepReaches ==
    ASSUME TransformInv, InformerStep
    PROVE  TransformInv'
<1>1. TypeOK /\ [Next]_vars /\ UNCHANGED transformed
  BY DEF TransformInv, Inv, InformerStep
<1>2. Inv'
  BY <1>1, NextInv DEF TransformInv
<1>3. SettersType'
  <2>1. \A s \in Setters : setter'[s] \in Setter
    BY RacedSetter DEF TransformInv
  <2> QED
    BY <2>1 DEF InformerStep, SettersType
<1>4. \A ns \in TrackedNames' : ns \in TrackedNames => informers'[ns] = informers[ns]
  BY <1>1, InstanceStays DEF TrackedNames, Tracks
<1>5. ASSUME NEW s \in Setters, ~setter'[s].added, setter'[s].at \in {"ranging", "nil"}
      PROVE  /\ setter[s].at = setter'[s].at /\ ~setter[s].added
             /\ TrackedNames' \subseteq TrackedNames
             /\ setter[s].at = "ranging" => /\ setter'[s].due = setter[s].due \intersect TrackedNames'
                                            /\ setter'[s].refused <=> setter[s].refused
  BY <1>5, RacedSetter DEF TransformInv, Adds
<1>6. Reached'
  <2> SUFFICES ASSUME NEW s \in Setters, ~setter'[s].added, NEW ns \in TrackedNames'
               PROVE  /\ setter'[s].at = "ranging" /\ ~setter'[s].refused =>
                            ns \in setter'[s].due \/ informers'[ns] \in transformed
                      /\ setter'[s].at = "nil" => informers'[ns] \in transformed
    BY <1>1 DEF Reached
  <2>1. CASE setter'[s].at = "ranging" /\ ~setter'[s].refused
    BY <1>4, <1>5, <2>1 DEF TransformInv, Reached
  <2>2. CASE setter'[s].at = "nil"
    BY <1>4, <1>5, <2>2 DEF TransformInv, Reached
  <2> QED
    BY <2>1, <2>2
<1> QED
  BY <1>2, <1>3, <1>6 DEF TransformInv

\* A step of one caller.
LEMMA SetterStepReaches ==
    ASSUME TransformInv, UNCHANGED vars, transformed \subseteq transformed',
           NEW s \in Setters, NEW new \in Setter, setter' = [setter EXCEPT ![s] = new],
           ~new.added =>
             /\ new.at = "ranging" /\ ~new.refused =>
                  \A ns \in TrackedNames : ns \in new.due \/ informers[ns] \in transformed'
             /\ new.at = "nil" => \A ns \in TrackedNames : informers[ns] \in transformed'
    PROVE  TransformInv'
<1>1. Inv'
  BY NextInv DEF TransformInv
<1>2. UNCHANGED informers
  BY DEF vars
<1>3. TrackedNames' = TrackedNames
  BY <1>2 DEF TrackedNames, Tracks
<1>4. setter'[s] = new /\ \A q \in Setters \ {s} : setter'[q] = setter[q]
  BY DEF TransformInv, SettersType
<1>5. SettersType'
  BY DEF TransformInv, SettersType
<1>6. Reached'
  <2> SUFFICES ASSUME NEW q \in Setters, ~setter'[q].added, NEW ns \in TrackedNames
               PROVE  /\ setter'[q].at = "ranging" /\ ~setter'[q].refused =>
                            ns \in setter'[q].due \/ informers[ns] \in transformed'
                      /\ setter'[q].at = "nil" => informers[ns] \in transformed'
    BY <1>2, <1>3 DEF Reached
  <2>1. CASE q = s
    BY <1>4, <2>1
  <2>2. CASE q # s
    BY <1>4, <2>2 DEF TransformInv, Reached
  <2> QED
    BY <2>1, <2>2
<1> QED
  BY <1>1, <1>5, <1>6 DEF TransformInv

LEMMA SetTransformReaches ==
    ASSUME TransformInv, NEW s \in Setters, SetTransform(s)
    PROVE  TransformInv'
<1> DEFINE new == [setter[s] EXCEPT !.at = "ranging", !.due = TrackedNames]
<1>1. setter' = [setter EXCEPT ![s] = new] /\ UNCHANGED <<vars, transformed>>
  BY DEF SetTransform
<1>2. setter[s] \in Setter /\ TrackedNames \in SUBSET Namespaces
  BY DEF TransformInv, SettersType, TrackedNames
<1>3. new \in Setter /\ new.at = "ranging" /\ new.due = TrackedNames
  BY <1>2 DEF Setter
<1> HIDE DEF new
<1> QED
  BY <1>1, <1>3, SetterStepReaches

LEMMA VisitReaches ==
    ASSUME TransformInv, NEW s \in Setters, NEW ns \in Namespaces, Visit(s, ns)
    PROVE  TransformInv'
<1> DEFINE st == setter[s]
           i == informers[ns]
           v == st.visited \union {ns}
           d == st.due \ {ns}
           f == Refused(s, i)
           new == [st EXCEPT !.visited = v, !.due = d, !.refused = f]
<1>1. /\ setter' = [setter EXCEPT ![s].visited = v, ![s].due = d, ![s].refused = f]
      /\ transformed' = transformed \union ({i} \ HasBegun)
      /\ st.at = "ranging"
      /\ UNCHANGED vars
  BY DEF Visit
<1>2. st \in Setter /\ setter \in [Setters -> Setter]
  BY DEF TransformInv, SettersType
<1>3. v \in SUBSET Namespaces /\ d \in SUBSET Namespaces /\ f \in BOOLEAN
  BY <1>2 DEF Setter, Refused
<1>4. d = st.due \ {ns} /\ (~f => ~st.refused /\ i \notin HasBegun)
  BY DEF Refused
<1> HIDE DEF v, d, f
<1>5. setter' = [setter EXCEPT ![s] = new]
  BY <1>1, <1>2 DEF Setter
<1>6. /\ new \in Setter
      /\ new.at = "ranging" /\ new.due = d
      /\ new.refused <=> f
      /\ new.added <=> st.added
  BY <1>1, <1>2, <1>3 DEF Setter
<1> HIDE DEF new
<1>7. ASSUME ~new.added, ~new.refused, NEW m \in TrackedNames
      PROVE  m \in new.due \/ informers[m] \in transformed'
  <2>1. m \in st.due \/ informers[m] \in transformed
    BY <1>1, <1>4, <1>6, <1>7 DEF TransformInv, Reached
  <2> QED
    BY <1>1, <1>4, <1>6, <1>7, <2>1
<1> QED
  BY <1>1, <1>5, <1>6, <1>7, SetterStepReaches

LEMMA EndRangeReaches ==
    ASSUME TransformInv, NEW s \in Setters, EndRange(s)
    PROVE  TransformInv'
<1> DEFINE st == setter[s]
           new == IF st.refused THEN [IdleSetter EXCEPT !.at = "error"]
                  ELSE [IdleSetter EXCEPT !.at = "nil", !.added = st.added]
<1>1. /\ setter' = [setter EXCEPT ![s] = new]
      /\ st.at = "ranging" /\ st.due = {}
      /\ UNCHANGED <<vars, transformed>>
  BY DEF EndRange
<1>2. st \in Setter /\ st.added \in BOOLEAN
  BY DEF TransformInv, SettersType, Setter
<1>3. new \in Setter
  BY <1>2 DEF Setter, IdleSetter
<1>4. new.at # "ranging" /\ (new.at = "nil" => ~st.refused /\ (new.added <=> st.added))
  BY <1>2 DEF IdleSetter
<1> HIDE DEF new
<1>5. ASSUME ~new.added, new.at = "nil"
      PROVE  \A ns \in TrackedNames : informers[ns] \in transformed
  BY <1>1, <1>4, <1>5 DEF TransformInv, Reached
<1> QED
  BY <1>1, <1>3, <1>4, <1>5, SetterStepReaches

LEMMA TransformNextInv == TransformInv /\ [TransformNext]_allVars => TransformInv'
<1> SUFFICES ASSUME TransformInv, [TransformNext]_allVars PROVE TransformInv'
  OBVIOUS
<1>1. CASE UNCHANGED <<vars, setter, transformed>>
  <2>1. Inv'
    BY <1>1, NextInv DEF TransformInv
  <2>2. SettersType' /\ Reached'
    BY <1>1 DEF TransformInv, SettersType, Reached, TrackedNames, Tracks, vars
  <2> QED
    BY <2>1, <2>2 DEF TransformInv
<1>2. ASSUME NEW s \in Setters, RaceDetected(s)
      PROVE  TransformInv'
  BY <1>1, <1>2 DEF RaceDetected
<1>3. CASE UNCHANGED allVars
  BY <1>1, <1>3 DEF allVars, transformVars
<1> QED
  BY <1>2, <1>3, InformerStepReaches, SetTransformReaches, VisitReaches, EndRangeReaches
     DEF TransformNext

\* The inductive invariant of the informer with calls of SetTransform.
THEOREM TransformInvHolds == TransformSpec => []TransformInv
<1>1. TransformInit => TransformInv
  <2> SUFFICES ASSUME TransformInit PROVE TransformInv
    OBVIOUS
  <2>1. Inv
    BY InitInv DEF TransformInit
  <2>2. IdleSetter \in Setter /\ IdleSetter.at = "idle"
    BY DEF IdleSetter, Setter
  <2>3. \A s \in Setters : setter[s] = IdleSetter
    BY DEF TransformInit
  <2>4. SettersType
    BY <2>2 DEF TransformInit, SettersType
  <2> QED
    BY <2>1, <2>2, <2>3, <2>4 DEF TransformInv, Reached
<1> QED
  BY <1>1, TransformNextInv, PTL DEF TransformSpec

\* If SetTransform returned without an error and no name was added since it began,
\* every tracked instance has the transform, though it ranged without the lock.
THEOREM TransformReachesAllHolds == TransformSpec => []TransformReachesAll
<1>1. TransformInv => TransformReachesAll
  BY DEF TransformInv, Reached, TransformReachesAll, Tracked, TrackedNames
<1> QED
  BY <1>1, TransformInvHolds, PTL
=============================================================================
