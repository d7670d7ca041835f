# TLA+ models and proofs for xns-informer

This directory specifies and verifies xns-informer: the library that lets a Kubernetes
client watch a *dynamic set of namespaces* through one informer, the typed factories
generated on top of it, and the core of their generator. The specifications are written
from the Go code in `pkg/` and `cmd/`. TLC checks them on small instances, and TLAPS
proves their safety properties for every value of the constants.

Contents: [inventory](#inventory), [modules](#modules-and-how-they-correspond-to-the-code),
[runs](#what-the-runs-show), [bounds](#bounds), [fairness](#fairness),
[proofs](#what-is-proved), [disagreements](#where-the-code-and-its-documentation-disagree),
[not modelled](#what-is-not-modelled), [plan](#plan).

## Inventory

| Component | State | Operations |
|---|---|---|
| `sets.Set` (`pkg/internal/sets/string.go`) | a map used as a set of strings; `nil` is a legal empty set | `Insert`, `Contains`, `Difference`, `UnsortedList`, `Equals` |
| `NamespaceSet` (`pkg/informers/namespace_set.go`) | the current set (or nil), the list of handlers, one mutex | `SetNamespaces`, `AddHandler`, `Contains`, `List`, `Initialized` |
| `multiNamespaceInformer` (`pkg/informers/informer.go`) | one client-go informer and one stop channel per name, the remembered settings, `started`, `stopped`, one mutex | `AddNamespace`, `RemoveNamespace`, `Run`, `AddEventHandler`, `RemoveEventHandler`, `AddIndexers`, `SetWatchErrorHandler`, `SetTransform`, `HasSynced`, `GetIndexers`, `IsStopped` |
| event delivery (`informer.go` and client-go) | a store and a queue of undelivered events per instance, what the handler has been told | the events of each instance, the replay to late handlers, the `OnDelete` calls of `RemoveNamespace` |
| cache reader (`pkg/informers/cache_reader.go`) | none; reads a snapshot of the indexers of an informer | `List`, `ListKeys`, `Index`, `ByIndex`, `Get`, `GetByKey`, ...; writes are refused |
| factories (`pkg/informers/dynamic.go`, `metadata.go`, `pkg/generated/*/factory.go`) | the informers by resource or type, which of them were started, a WaitGroup, `shuttingDown`, one mutex, a `NamespaceSet` | `ForResource` / `InformerFor`, `SetNamespaces`, `Start`, `WaitForCacheSync`, `Shutdown` |
| generated informers (`pkg/generated`, 145 types in four factories) | none of their own | accessors per group, version and type; the switch of `ForResource` |
| `xns-informer-gen` (`cmd/xns-informer-gen`) | tables of groups, versions and types while it runs | sorts packages, then writes the generated code |

How they interact:

- A factory owns one `NamespaceSet` and hands it to every informer that it makes for a
  namespaced type. The informer's constructor registers a handler with the set; `OnAdd`
  and `OnRemove` are `AddNamespace` and `RemoveNamespace`. Cluster-scoped types get a
  plain client-go informer.
- `SetNamespaces` calls the handlers synchronously, with the lock of the set held. The
  locks are always taken in the order `f.lock`, `n.lock`, `i.lock`. `Run`, `HasSynced`
  and the goroutines of client-go take only the later ones, or none. An application may
  also call `SetNamespaces` of its own set, or `AddNamespace` and `RemoveNamespace` of an
  informer (they are exported): the locks outside are then not taken.
- `RemoveNamespace` calls `OnDelete` of the user's handlers with `i.lock` held, and with
  the other two as well if the call came from the factory, while the listeners of the
  instance that it stops may be calling the same handlers.
- `Start` launches one goroutine per informer, which is inside `Run` until its stop
  channel closes. `Run` launches one goroutine per namespace, and so does
  `AddNamespace` once the informer has started. The WaitGroup counts the former only.

What is hard about it:

- *Concurrency.* `Run` is three critical sections with a wait in between; `HasSynced`
  reads the set under one lock and the instances under another; `SetTransform` ranges
  over the instances without a lock; a reader uses its snapshot after the lock is gone;
  `WaitForCacheSync` and `Shutdown` wait without `f.lock`. Names may be added and
  removed in every gap.
- *Order.* Removals come before additions, handlers are called one at a time in the
  order of a Go map, the stored set changes last. Events of a stopping instance are
  delivered before or after the deletes of `RemoveNamespace`.
- *Life cycles.* A stop channel may be closed before its goroutine has begun; names
  come back after they were removed; `started` is never reset; the stop phase closes
  channels without deleting them from their map.
- *Partial failure.* Settings are remembered first and handed to the instances in a
  loop that ends at the first error; an index may be missing from some instances.
- *Reentrancy.* A user's handler runs with the library's locks held.
- *Two tables that must match.* The generator keys groups by directory in one table and
  by their own name in another; the generated switch and accessors come from both.

What makes each component correct:

- *NamespaceSet*: every handler follows exactly the stored set whenever the lock is
  free, sees balanced calls, and never follows `NamespaceAll` beside another name.
- *multiNamespaceInformer*: the open stop channels are those of the tracked instances
  (nothing leaks, nothing is cut off); every instance is launched exactly once,
  whether it came before or after `Run`; every instance has the settings made so far;
  what is let go does stop.
- *Set and informer together*: they agree; `HasSynced` says yes only when it is so, and
  does say yes in the end.
- *Event delivery*: the handler knows what the stores hold, removed names are
  announced, and in the end the handler knows exactly the objects of the set.
- *Cache reader*: a read has no duplicates, nothing of names that are gone, and all that
  was cached while it went on.
- *Factory*: every informer follows the set; no name is left unwatched, whatever the
  order of `Start`, `SetNamespaces` and the goroutines; `Shutdown` ends, and quietly.
- *Locks*: no circle of waiting goroutines; every call returns.
- *Generated code and generator*: what is asked for is what comes back, and all that is
  generated can be asked for.

## Modules and how they correspond to the code

| Module | Models | Proofs |
|---|---|---|
| `AtomicNamespaceSet` | what a `NamespaceSet` promises: the set and the views of all handlers change in one step | |
| `NamespaceSet` | `namespace_set.go`, one step per handler call; implements the former | `NamespaceSetProofs` |
| `MultiNamespaceInformer` | `informer.go`, one informer and its client-go instances | `MultiNamespaceInformerProofs` |
| `TransformedInformer` | adds `SetTransform`, which is not atomic | `MultiNamespaceInformerProofs` |
| `TrackedInformer` | `NewMultiNamespaceInformer`: set and informer composed, plus callers of `HasSynced` | `TrackedInformerProofs` |
| `EventDelivery` | what a handler learns of the objects while names come and go | `CacheReaderProofs` |
| `CacheReader` | `cache_reader.go`, reads that overlap the steps of `EventDelivery` | `CacheReaderProofs` |
| `InformerFactory` | `dynamic.go`, `metadata.go` and the generated factories: life cycle of the informers | `InformerFactoryProofs` |
| `LockOrder` | which call takes which mutex in which order | `LockOrderProofs` |
| `GeneratedFactories` | a generated factory's accessors, `ForResource` and `InformerFor` | `GeneratedFactoriesProofs` |
| `KubeInformers`, `KubeWorkloadInformers`, `IstioInformers`, `GatewayInformers`, `RouteInformers` | every generated file of `pkg/generated`, in the shapes of `GeneratedShapes`; `GeneratedTables` has the four factories that they make | |
| `GroupVersions` | `xns-informer-gen`: grouping of packages and the cases of `ForResource` | `GroupVersionsProofs` |
| `MC*` | symmetry sets and structured constants for TLC | |

**NamespaceSet.** `phase` is the program counter of the goroutine that holds `n.lock`
and "idle" when nobody does. `SetNamespaces(s)` takes the lock and computes the first
difference; `CallOnRemove`, `StartAdding`, `CallOnAdd` are the two loops; `FinishSet`
stores the set and releases the lock. `AddHandler`, `CallRegistered`, `FinishRegister`
are the registration of a new handler with its replay. `balance[h][ns]` counts the
`OnAdd` calls less the `OnRemove` calls that `h` got for `ns`: it is what the handler
knows. The order of a Go map is left open: any pending name may come next, but all
handlers are called for it before the next one.

**MultiNamespaceInformer.** Every method here holds `i.lock` from beginning to end, so
each is one action. `Run` has a program counter per caller and three actions: `RunCheck`
(`hasStarted`), `RunLaunch`, and `RunStop`, which is enabled once the caller's stop
channel is closed (`AskStop`). The maps `informers` and `stopChans` are written together
and are one function here; a stop channel goes by the name of its instance.
`BeginRun`, `Sync` and `EndRun` are the goroutine of one client-go instance. client-go
is external: what is modelled is what this code relies on, namely that an instance runs
once, stops when its channel is closed, refuses handlers after its end, and refuses
indexers and watch error handlers after its start. Closing a channel twice is `Panic`,
which ends the process. `removed` is a history variable: the handlers whose owners
called `RemoveEventHandler`.

**TransformedInformer.** `SetTransform` visits one instance per step, without the lock.
An addition or removal meanwhile is a data race. Its outcomes are choices: the Go runtime
detects the concurrent map write and ends the process (`fatal`), or the iteration goes
on, visits everything that stays, and may or may not visit what is new.

**TrackedInformer.** Variables are shared by name; `setPhase` stands for the `phase` of
`NamespaceSet`. One handler call of the set is one method call of the informer
(`HandlerCall`). A caller of `HasSynced` has two steps, one per lock.

**EventDelivery.** One informer, already running, and one user's handler. Each instance
has a `store`, which `Watch` brings nearer to the objects at the `server`, and a `queue`
from which `Deliver` feeds the handler. `RemoveNamespace` is three steps: `BeginRemove`
closes the channel and reads the store, `SendDelete` calls the handler for one object
after the other, `EndRemove` deletes the map entry. Between them, and after, the stopped
instance may still deliver and is `stopping` until `End`, when what is left in its
queue is lost. `view` is what the handler knows. `late` is a history variable: the
objects for which a stopping instance delivered or lost an event.

**CacheReader** extends `EventDelivery`. `BeginRead` takes the snapshot of the tracked
instances; `ReadOne` reads one of them; a read by index ends at an instance that lacks
the index (`ReadFails`), which those made before `AddIndexers` on a running informer do.
Of such an instance `ListIndexFuncValues` (the kind "values") silently gets nothing
(`Answer`), so that what it can read is `Readable`, and not all that is cached.
`Get` asks the one instance that `IndexerFor` picks, under one lock, and is an operator.

**InformerFactory.** Of each informer only what the factory deals with is kept: the
tracked names, where its `Run` is, and which of its per-namespace goroutines are alive
(`live`) or told to stop and not yet gone (`ending`). `SetNamespaces` keeps `f.lock` and
the lock of the set for as long as its calls take (`change`); goroutines inside `Run` go
on meanwhile. The caller of a dynamic factory supplies the set (`dynamic.go:42`) and may
change it without the factory: `byFactory` tells the two apart, and only a change by the
factory keeps `Start`, `Shutdown` and the snapshot of `WaitForCacheSync` out. A waiter
takes a snapshot, then polls one informer after the other.
`Initialized()` and the instances are read in two steps here, too. A cluster-scoped
informer (`ClusterScoped`) has one name and is not on the set. `metadata.go` has neither
`Shutdown` nor a WaitGroup: it is the instance with `Stoppers = {}`, in which nothing
reads either. Options of the generated factories are applied before the factory is
handed out: `WithNamespaces` is the choice of the first set.

**LockOrder.** A goroutine is at a place in its call (`doing`), at an informer (`at`),
and may be `waiting` for a lock. Only locking is modelled: every call is as long as the
locks that it takes. `entered` says where a call began, at the factory, the set or an
informer, and so which locks it has around. Informers in `Direct` are those whose
`AddNamespace` and `RemoveNamespace` an application calls itself, as
`informer_test.go:331` does. `AddNamespace` calls no `OnDelete`; here it may, which only
adds behaviours. `OnDelete[x]` says which locks the `OnDelete` handlers of
informer `x` may take, one at a time: those of an application, or of other informers
through their listers.

**GeneratedFactories and its tables.** A type's generated file is one definition, say
`core_v1_pod`: what its list and watch functions ask the server for, whether namespace by
namespace, and the Go type of its objects. The file names that type three times: for the
objects, in `InformerFor`, and in the lister. A version's `interface.go` is a record of
accessors, a group's is a record of versions, and the switch of `generic.go` is a set of
cases. `GeneratedFactories` is parameterised by these tables and has two operations:
an accessor's `Informer()` or `Lister()`, and `ForResource`. Both look for an informer
under the Go type and make one if there is none. `answers` is a history of what was asked
and what came back.

**GroupVersions.** One step per input package, in any order: `Skip`, `Refuse` and `Add`
are the ways through the loop of `Packages`; `Generate` then collects the cases of
`ForResource` as `GenerateType` does, or crashes where that indexes an empty list. An
entry's versions name their packages, since a version may be recorded for two of them.
`generated` is the list of packages to write and `interfaces` is what their `interface.go`
files come to hold: `p/x/v1` and `q/x/v1` have one output directory, where the later one
overwrites the earlier. Only the tables are modelled.

Operators with a suffix, such as `Normalize_KeepAll`, are deliberately wrong variants of
the definition that follows them. Each property is known to fail when the variant
takes the definition's place; `PROJECT.json` pairs them.

## What the runs show

Each line is a TLC configuration; state counts are of distinct states.

| Run | States | Shows |
|---|---|---|
| `NamespaceSet.cfg` | 12 018 | With three handlers that register at any time and four names, every sequence of sets gives balanced calls, clean transitions and agreement; to all who take the lock a call is atomic (`ImplementsAtomic`). |
| `InformerLifecycle.cfg` | 945 932 | Two goroutines may call `Run` and be stopped while names come and go and settings are made. No leak and no cut-off instance (`OpenIffTracked`), one launch per instance (`LaunchedOnce`), equal settings until the start, no panic before the stop phase. |
| `InformerHandlers.cfg` | 775 288 | Handlers, names and a transform in any order, with `RemoveEventHandler`: all handlers listen everywhere until the first removal, a registration left behind by `RemoveNamespace` is never used for a new instance, and a `SetTransform` that reports success has reached every instance. |
| `Tracked.cfg` | 62 184 | Set and informer agree whenever `n.lock` is free, a yes of `HasSynced` outside a transition is right, `HasSynced` becomes true for good, removed and stopped instances stop. |
| `EventDelivery.cfg` | 510 194 | Two objects and `NamespaceAll`: with what is queued for it, the handler knows what the stores hold, hears of removals, and knows the right objects in the end. |
| `CacheReader.cfg` | 1 373 227 | Reads of a list, by an index and of index values beside transitions between `NamespaceAll` and single names: no duplicates, no removed names after `SetNamespaces` has returned, nothing left out that was readable throughout; `Get` and `List` agree. |
| `Factory.cfg` | 400 293 | A namespaced and a cluster-scoped informer made, started, waited for and shut down while the set is changed through the factory or by itself; see `AllFollow`, `EveryNameIsWatched`, `ShutdownIsQuiet`, `WaitedAreSynced`. |
| `FactoryEnds.cfg` | 83 162 | The same with one name, which may return while its former instance is still ending: `Shutdown` and `WaitForCacheSync` end once the channels are closed. |
| `LockOrder.cfg` | 168 258 | Two goroutines, four informers, two of them called directly as well, handlers that read other informers or take an application's lock: no deadlock, no lock left behind, every call returns. |
| `GeneratedFactories.cfg` | 6 503 | The four factories of `pkg/generated` with all 145 types, asked for any two things in any order: each answer is of the resource, version and type asked for, no resource has two caches, what has an accessor can be had by `ForResource`. |
| `GroupVersions.cfg` | 805 395 | Up to three packages in any order, two of which may share an output directory: `ForResource` has a case for every accessor, and no superfluous one if output directories differ; the generator crashes only if two groups share a directory's name. This run also evaluates `GeneratedTablesMatch`, the presupposition of `GeneratedFactoriesProofs`, on the tables of `pkg/generated`. |

The other configuration, `InformerAnytime.cfg`, looks for a violation and finds it; it is
described [below](#where-the-code-and-its-documentation-disagree).

The properties are stated with their reasons beside their definitions. Some of
them carry a condition that is part of the result:

- `OpenIffTracked`, `HandlersListen` hold *until Run's stop phase*, because the code
  forgets to clear its maps there. `PanicOnlyAfterStop` says that this is also the only way
  to a panic.
- `LaunchedOnce` assumes that one caller of `Run` passes the check; two may, because
  `hasStarted` and the launch are separate critical sections. Then both launch
  every instance, and both stop phases close every channel.
- `YesMeansSynced` speaks of answers outside a `SetNamespaces` call. Inside one, between
  the removals and the additions, an informer has no instances, and `HasSynced` says yes
  though nothing has ever synced: it has released `n.lock` by then.
- `ShutdownIsQuiet` is about the goroutines that `Start` launched, those inside `Run`. The
  instances' goroutines may still run when `Shutdown` returns.
- `WaitedAreSynced` assumes that no `SetNamespaces` went on during the wait.
- `HandlerKeepsUp`, `RemovalIsAnnounced` and `HandlerCatchesUp` speak of objects that no
  stopping instance has disturbed. Of the others nothing is claimed: `RemoveNamespace`
  sends its deletes while the instance is still stopping, whose listener may deliver an
  add after the delete, or whose store may have changed and the event be lost. The handler
  then knows an object of a removed name for good.
- `ReadsWhatStays` says of `ListIndexFuncValues` only that it leaves out nothing of the
  instances that have the index.
- `TransformReachesAll` speaks of names that were there when the call began: later ones do
  not get the transform, which the informer does not remember.
- `ForResourceIsExact` assumes that directories and groups go together one to one
  (`OneToOne`); that there is nothing beside the cases for the accessors assumes, besides,
  that no two packages share an output directory (`Apart`). Otherwise, for `p/x/v1` and
  `q/x/v1` of one group, the second package's `interface.go` takes the place of the first's,
  while the switch has the types of both, and each twice: TLC shows it when `Apart` is
  left out.
- `NoDeadlock` and `CallsReturn` rest on `TameHandlers`. Handlers must stay out of the
  factory, the set and their own informer: with `OnDelete[x] = {x}`, a handler that calls
  its own lister or `HasSynced`, TLC finds a goroutine that waits for itself. As long as
  names are removed only by the one set, handlers may read each other's informers, for
  the lock of the set lets one run at a time. If `RemoveNamespace` is called directly
  (`informer.go:19-25`), they may not: two goroutines that remove from `x` and `y`, with
  handlers that read `y` and `x`, wait for each other for ever, and TLC shows it. Handlers of
  such informers must read only informers that come earlier in some order, and the
  others none that come later than their own. The same holds of informers on two sets
  (two factories, for instance): for those an application must treat both as called
  directly. `MCLockOrder` checks that its handlers are tame.

The type invariants of `EventDelivery`, `InformerFactory` and `GroupVersions` describe
their variables and are not among the runs' properties.

## Bounds

- `Instances` is the number of client-go informers that can ever be made. Two names and
  three instances allow for both names to be tracked and one to be removed and come back,
  which every hazard about names that return needs. `Affordable` (in `TrackedInformer`)
  lets `SetNamespaces` ask only for as many new names as there are unused instances, so
  that a transition is never stuck in the middle. With two instances, as in `Tracked.cfg`
  and `EventDelivery.cfg`, one name can go and return, or give way to `NamespaceAll`; the
  interleavings with three names of a set are those of `NamespaceSet.cfg`.
- Each handler of `MultiNamespaceInformer` is added once, and each informer registers
  one handler with the set, as its constructor does. Two handlers are enough to tell the
  last registration from another one.
- `Runners`: two, where concurrent calls of `Run` matter; one elsewhere.
- `EndingBound` (in `InformerFactory`): no new `SetNamespaces` while more instances than
  this of one informer are still ending. The counter of ending instances would grow
  without limit otherwise. With 0, the instances of one removal have ended before the
  next call, but not before `Run`, `Shutdown` and the waits go on. Each waiter and each
  stopper makes one call. `FactoryEnds.cfg` has one name, as the waits count informers and
  goroutines and not names, and 1 for the bound. One informer of each kind is enough: informers meet only in the
  set's loops, which `NamespaceSet` has with three handlers, and in the WaitGroup.
- `MaxCalls` and `MaxChanges` (in `EventDelivery`): three calls of `SetNamespaces` let a
  name come, go and return; two changes at the server let an object vanish and come back,
  or both objects change. They bring every behaviour to rest, so these runs do not check
  for deadlock, and `HandlerCatchesUp` speaks of what is true at rest. One object per
  namespace is enough, as neither stores nor queues mix objects up.
- `MaxDirs` (in `GroupVersions`) is three packages: two that share a name, or an output
  directory, and a third in between. The generator ends, in success or not, so deadlock is not checked.
- `MaxAnswers` (in `GeneratedFactories`): an informer made earlier can stand in the way of
  one asked for later, which takes two answers; the run does not go on after that, and
  deadlock is not checked.
- Symmetry is used in safety runs only, on sets whose members the specification never
  distinguishes (`All` is not among them).

## Fairness

The specifications assume only that a goroutine that can run does run: the holder of
`n.lock` (`Proceed`, `SetProceeds`), since nothing between `Lock` and `Unlock`
blocks; a caller inside `Run`; the goroutine of an instance, for its beginning and its
end; in `EventDelivery` its watch and its listener while it runs. Callers are never
obliged to call anything. That the API server answers (`Sync`) is assumed by
`EventuallySynced` alone, in the property itself.

Strong fairness appears in three places. Taking a lock that others take again and again,
in `LockOrder` (`Acquire`) and in `InformerFactory` (`Poll`): Go's mutex hands itself to
a waiter that starves. And the choice between the ticker and a closed channel in the poll
loop of `cache.WaitForCacheSync` (`PollGivesUp`): a `select` does not prefer one case
for ever. In `InformerFactory` fairness is per goroutine, never per informer: a waiter
that goes round its informers is one goroutine.

## What is proved

Every safety property that the passing runs check is proved for all values of the
constants, in eight modules, from the assumptions that the models name:

- `NamespaceSetAssumption`: `NamespaceAll` is a name, nil is not a set of names.
- `InformerAssumption`, `TrackedAssumption`: the missing map entry is none of the values,
  removable handlers are handlers.
- `LockAssumption`: locks are different.
- `FactoryAssumption`, `ChangeAssumption`: the placeholders are none of the values, and the
  names are finitely many, as DNS labels of at most 63 characters are.
- `DeliveryAssumption`: the same of placeholders; objects and instances are finitely many.
  Stores and queues are finite in the program, too.
- `GeneratorAssumption`, `EntryAssumption`: packages consist of types, the empty table
  entry is none of the entries.

Nothing else needs to be finite, and no proof uses a bound such as `EndingBound`, `MaxCalls`
or `MaxDirs` beyond its being a number. Two modules add a premise to their theorems, named
below: `TameHandlers` and `TablesMatch`. The inductive invariants are described here module
by module.

*NamespaceSetProofs.* `TypeCorrect`, `Alternation`, `Agreement`, `Exclusiveness`,
`CleanTransition`, and `Refinement` (`Spec => ImplementsAtomic`). The properties say what
handlers have seen between two steps, but not which calls are still to come, so none of
them is inductive. The invariant `Inv` adds it: `BalanceFollows` gives the balance of
every handler and name as a function of the phase, the two sets, the pending names and
how many handlers the current iteration has called; `PendingBounds` says that a name is
pending only if it is in the difference at hand, and that the lock is free only with
nothing pending; sets are normal and no handler is registered twice. Each property
follows from `Inv` alone. In the refinement every step stutters except `FinishSet`
and `FinishRegister`, which map to `Set` and `Register`.

*MultiNamespaceInformerProofs.* `TypeCorrect`, `NoLeak`, `LaunchCount`,
`CurrentRegistrations`, `UniformSettings`, `NoEarlyPanic`, `EveryHandlerListens`. The
invariant has five parts beside the types. `Channels` adds to `OpenIffTracked` that no two
names share an instance (else removing one name would cut off the other), that an unused
instance has an open channel and that only a closed channel ends an instance.
`Launches` ties `started` to a runner that has launched, and says that nothing is
launched or begun without it. `Recorded` says that a registration exists only after some
handler was added, which is why every new instance overwrites an old registration.
`UniformUntilStarted` and `PanicOnlyAfterStop` are inductive relative to those.
`EveryHandlerListens` uses `Channels` once more: before the stop no tracked instance has
ended, hence none refuses a handler and the loop over the instances is never cut short.

*The same module, on TransformedInformer.* `TransformReachesAllHolds`. A call of
`SetTransform` that ranges has, for each tracked name, either still to visit it or given
its instance the transform (`Reached`). A removed name is no longer due; a name that
stays keeps its instance (`InstanceStays`); one that is added is what the property
excepts. A step of the informer keeps `Inv`, so the proof adds to the one above and
repeats nothing.

*TrackedInformerProofs.* `InformerFollowsSetHolds`, `YesMeansSyncedHolds`, `NoObjectTwice`,
`NoLeakHolds`, `ImplementsSet`, `ImplementsInformer`. The composition does what its parts do:
each step is a step of the set, of the informer, of both, or of neither. So the two
invariants above are cited, by INSTANCE of their proof modules. What is new is `Linked`:
an informer tracks a name if and only if the set's calls for it balance to 1. With
`BalanceFollows` this gives
`InformerFollowsSet`, and with `AllIsExclusive` that no object is ever in two caches.
`YesMeansSynced` is about a step: a caller who has seen `Initialized()` now sees all
instances synced; if the lock of the set is free, those are the instances of the set's
names. `ImplementsSet` and `ImplementsInformer` are the safety parts of the two
refinements: initial states and steps.

*InformerFactoryProofs.* `TypesHold`, `AllFollowHolds`, `EveryNameIsWatchedHolds`,
`ShutdownIsQuietHolds`, `WaitedAreSyncedHolds`; the set may be changed through the factory
or by itself. `Following` says what each informer tracks
*during* `SetNamespaces`: names that stay, those it was not yet told to remove, those it
was told to add. `Counting` equates `wg` with the number of informers that are launched
and have not returned; that makes `wg.Done()` safe, and gives `ShutdownIsQuiet` once
`Closing` adds that the flag is set before the wait and that `Start` does nothing
afterwards. `EveryNameIsWatched` is inductive with the types. `Undisturbed` follows a
waiter from its snapshot: as long as no `SetNamespaces` has begun, what it found synced
still is, for only a removal unsyncs an instance. One that begins during a change of the set
by itself counts as disturbed.

*CacheReaderProofs*, on `EventDelivery` and `CacheReader`. `HandlerKeepsUpHolds`,
`RemovalIsAnnouncedHolds`, `NoDuplicatesHolds`, `OnlyNewNamesHolds`, `ReadsWhatStaysHolds`,
`GetAgreesWithListHolds`. All rest on the order of the two loops of `SetNamespaces`: removals
come first. `CallProceeds` and `NamesFollow` give the tracked names as a function of how far the
call is; so no two tracked names ever cover an object (`CachedInOne`), not even between
`NamespaceAll` and single names. `InstancesFollow` ties the life of an instance to its name,
`StoresInScope` says that it has and reports only what its watch returns. The handler's
part is stated for every moment: `RunningReport` is `HandlerKeepsUp` with what the queue
will make of the view (`After`), and `ViewCovered` is `RemovalIsAnnounced` while the deletes
are still being sent. `Calm` objects are those that no stopping instance has disturbed. The readers
add three parts: what is still to be read covers no object twice and none that has been
read (`ReadsApart`), all of it belongs to the names at the beginning (`ReadsNames`), and
what stays cached is in the store of one instance, read or still to be read
(`ReadsStaying`).

*GroupVersionsProofs.* `TypesHold`, `ForResourceIsExactHolds`, `FailsOnlyOnClashHolds`. All
tables are traced to the packages for which something was generated: `TypesTraced` (under
the group's own name), `EntriesTraced` and `PackagesEntered` (under the directory's name),
and `InterfacesTraced`: an output directory holds what one of its packages put there.
`Outcome` keeps what `Generate` computed. The two properties follow without another
induction: where directories and groups go together one to one, the two keys of a package
name the same group, so a case comes from a package with the case's directory
(`CaseOfPackage`), and every type of a package has a case there (`CaseForType`). If output
directories differ it is the one package whose interface is there. A version without
types needs a clash.

*GeneratedFactoriesProofs.* `ServesWhatWasAskedHolds`, `OneCachePerResourceHolds`,
`NothingIsMissingHolds`, for any factories whose tables fit together (`TablesMatch`), in
behaviours of any length. The invariant is that every informer comes from the file of some
accessor; as no two files share a Go type, the one found is the one looked for, whatever was
asked before. That the tables of `pkg/generated` fit together is a fact about 145 files,
which TLC evaluates (`GeneratedTablesMatch`); nothing is gained by proving it.

*LockOrderProofs.* `TypeCorrect`, `ExactOwnership`, `NeverDeadlocked`. `LocksAreHeld`
gives the owner of every lock as a function of the goroutines' places, and is inductive
with the types: no two goroutines are at places that hold one lock. For
`NeverDeadlocked`, suppose that a group of goroutines waits only for its own members.
Who holds an application's lock waits for nothing, so no member waits for one. Who waits
for a lock of the factory or the set holds no informer's. So if some member waits for an
informer's lock, its holder is at that informer in `AddNamespace` or `RemoveNamespace` and
waits, in a handler, for another informer's, whose holder does the same, and so on
(`WaitingHolder`). Two of them cannot be in calls that came through the set, as both would
hold the set's lock; the others are in direct calls, and what they wait for comes earlier
than their own informer in the order that `TameHandlers` gives. A chain that only goes to
earlier informers ends, and it never comes back to one that is not called directly
(`NoCircle`). So no member waits for an informer's lock, and none holds the lock of the
set while it waits; all wait for `f.lock`, whose holder does not. The theorem assumes
`TameHandlers`, as described [above](#what-the-runs-show).

*Model-checked only.* Liveness under fairness is beyond the prover: `EventuallySynced`,
`LetGoStops`, `StopReachesAll`, `HandlerCatchesUp`, `ShutdownEnds`, `WaitEnds`, `CallsReturn`.
What they rest on is in part proved: that channels which should be closed are
(`OpenIffTracked`), that `wg` is exact (`Counting`), and that nobody waits in a circle
(`NoDeadlock`).

## Where the code and its documentation disagree

| Run | What happens |
|---|---|
| `InformerAnytime.cfg` | The stop phase of `Run` leaves closed channels in the map. Removing a name afterwards closes one again: panic. The README says that the set can change "at anytime". |

Others were met while modelling and have no configuration of their own:

- `HasSynced` says yes in the middle of a transition (see `YesMeansSynced` above), against
  `informer_test.go:360`.
- `SetNamespaces(nil)` stores nil, so `Initialized` is false after a call, against the
  comment at `namespace_set.go:88`. `HasSynced` of every informer is then false.
- `RemoveEventHandler` ignores its argument and removes, for each name, the registration
  recorded last (`informer.go:330`). With two handlers, removing the first silences the
  second.
- `Shutdown` waits for the goroutines of `Run`, which do not wait for those of the
  instances: it returns while they run, against "all goroutines have terminated" in the
  comment of `Shutdown` (`generated/kube/factory.go`).
- A name added after the stop phase is launched with a channel that only its removal
  closes (`informer.go:166`).
- Two concurrent calls of `Run` both pass the check (`informer.go:201`).
- Two packages with the same last two elements of their paths overwrite each other's
  generated interface (`packages.go:208-214`, `344`).
- The generator indexes an empty list if two groups share a directory's name
  (`generic.go:119`), and files types of one group under another if the first of them has
  types of that version.

## What is not modelled

- *The text of the generator's templates*, names of Go identifiers and flags. What the
  templates produce is modelled as it is in `pkg/generated`.
- *List options, resync periods and clients* of the generated informers: data that is
  handed through. The typed listers are in the clients' packages.
- *client-go* beyond what this code relies on: resyncs, watch errors and relists.
- *More than one handler in `EventDelivery`*: listeners do not interact.
- `OnDelete` handlers that take two locks at a time, a handler blocked by the application
  for ever, and locks of the application that are held around a call of the library.
- *Direct calls of `AddNamespace` and `RemoveNamespace`* outside `MultiNamespaceInformer`
  (where anybody may call them) and `LockOrder`: `TrackedInformer`, `EventDelivery`,
  `CacheReader` and `InformerFactory` assume that names come from the set alone, since
  otherwise set and informers do not agree.
- *A package given twice to the generator*, and its `--single-directory` layout with
  internal and external packages.
- Test helpers, examples and scripts: sequential code without state, or I/O.

## Plan

Done: all the modules above, and proofs of all the safety properties that the runs check.

What is left to prove:

1. `InformerFactory` against its parts: what the factory keeps of an informer is a view of
   `TrackedInformer`, and its `SetNamespaces` one of `NamespaceSet`.
2. `EventDelivery` against `NamespaceSet`: the order of removals and additions that its
   proofs rest on, as a refinement.
3. Steps towards the liveness properties that are not temporal: for each fair action, that
   it is possible wherever something has still to happen.
