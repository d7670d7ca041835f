------------------------------ MODULE LockOrder ------------------------------
(***************************************************************************)
(* The mutexes of the library and the order in which its calls take them:  *)
(* f.lock of a factory (dynamic.go), n.lock of its namespace set           *)
(* (namespace_set.go) and i.lock of each informer (informer.go).           *)
(*                                                                         *)
(* Most calls take one lock for a moment.  SetNamespaces of the factory    *)
(* takes the locks of the factory, the set and, one after the other, of    *)
(* all the informers.  The set and the informers can be called directly    *)
(* too, and then the locks of what they lie in are not taken.              *)
(* RemoveNamespace, whoever calls it, calls OnDelete of the user's event   *)
(* handlers with its lock held, and these may take a lock too: one of the  *)
(* application's, or one of the library's by calling it.  Mutexes of Go    *)
(* are not reentrant.                                                      *)
(*                                                                         *)
(* What the calls do besides is left out; each is as long as its locks.    *)
(***************************************************************************)
EXTENDS FiniteSets

CONSTANTS
    Goroutines, \* those that call the library
    Informers,  \* the informers of one set; each stands for its lock, too
    Direct,     \* those whose AddNamespace and RemoveNamespace are called directly
    Factory,    \* f.lock
    Set,        \* n.lock
    Mutexes,    \* locks of the application
    OnDelete,   \* OnDelete[x]: the locks that x's handlers may take, one at a time
    None        \* no lock, no owner, no informer

Locks == Informers \union Mutexes \union {Factory, Set}

ASSUME LockAssumption ==
    /\ Factory # Set
    /\ {Factory, Set} \intersect (Informers \union Mutexes) = {}
    /\ Informers \intersect Mutexes = {}
    /\ Direct \subseteq Informers
    /\ None \notin Locks \union Goroutines
    /\ OnDelete \in [Informers -> SUBSET Locks]

VARIABLES
    doing,      \* where each goroutine is in its call
    entered,    \* which lock that call began at: f.lock, n.lock or an i.lock
    lock,       \* the lock it asked for last, or None
    waiting,    \* whether it still waits for it
    at,         \* the informer that SetNamespaces or another call is at, or None
    left,       \* the informers that SetNamespaces has still to call
    owner,      \* the goroutine that holds each lock, or None
    registered  \* n.handlers: the informers that registered with the set

vars == <<doing, entered, lock, waiting, at, left, owner, registered>>

-----------------------------------------------------------------------------
Init ==
    /\ doing = [g \in Goroutines |-> "idle"]
    /\ entered = [g \in Goroutines |-> "none"]
    /\ lock = [g \in Goroutines |-> None]
    /\ waiting = [g \in Goroutines |-> FALSE]
    /\ at = [g \in Goroutines |-> None]
    /\ left = [g \in Goroutines |-> {}]
    /\ owner = [l \in Locks |-> None]
    /\ registered = {}

\* g goes from one place in its call to another; it is not waiting for a lock.
From(g, here) == doing[g] = here /\ ~waiting[g]

\* g comes to a l.Lock().
AskFor(g, l, there) ==
    /\ doing' = [doing EXCEPT ![g] = there]
    /\ lock' = [lock EXCEPT ![g] = l]
    /\ waiting' = [waiting EXCEPT ![g] = TRUE]

\* g, idle until now, begins a call at the factory, the set or an informer.
Enter(g, what) == From(g, "idle") /\ entered' = [entered EXCEPT ![g] = what]

\* g goes on without asking for a lock; it is at informer x, or at none.
GoTo(g, there, x) ==
    /\ doing' = [doing EXCEPT ![g] = there]
    /\ entered' = [entered EXCEPT ![g] = IF there = "idle" THEN "none" ELSE @]
    /\ lock' = [lock EXCEPT ![g] = None]
    /\ at' = [at EXCEPT ![g] = x]
    /\ UNCHANGED waiting

\* Lock() returns.
Acquire(g) ==
    /\ waiting[g]
    /\ owner[lock[g]] = None
    /\ owner' = [owner EXCEPT ![lock[g]] = g]
    /\ waiting' = [waiting EXCEPT ![g] = FALSE]
    /\ UNCHANGED <<doing, entered, lock, at, left, registered>>

Release(l) == owner' = [owner EXCEPT ![l] = None]

-----------------------------------------------------------------------------
(* Calls that take one lock for as long as they last.  f.lock: Start, the  *)
(* snapshot of WaitForCacheSync, the flag of Shutdown.  n.lock: Contains,  *)
(* List, Initialized.  i.lock: AddEventHandler and the other settings,     *)
(* every read of a lister, the three critical sections of Run.  Locks of   *)
(* the application are held around nothing of the library here.            *)

Short(g, l) ==
    /\ From(g, "idle")
    /\ AskFor(g, l, "short")
    /\ UNCHANGED <<entered, at, left, owner, registered>>

ShortReturns(g) ==
    /\ From(g, "short")
    /\ Release(lock[g])
    /\ GoTo(g, "idle", None)
    /\ UNCHANGED <<left, registered>>

-----------------------------------------------------------------------------
(* HasSynced: the lock of the set, and when that is released the           *)
(* informer's.                                                             *)

\* Mutant: HasSynced asks the set with its own lock held.
HasSynced_InstancesFirst(g, x) ==
    /\ \/ From(g, "idle") /\ at' = [at EXCEPT ![g] = x] /\ AskFor(g, x, "short")
       \/ From(g, "short") /\ at[g] = x /\ UNCHANGED at /\ AskFor(g, Set, "initialized")
    /\ UNCHANGED <<entered, left, owner, registered>>

HasSynced(g, x) ==
    /\ From(g, "idle")
    /\ at' = [at EXCEPT ![g] = x]
    /\ AskFor(g, Set, "initialized")
    /\ UNCHANGED <<entered, left, owner, registered>>

\* Mutant: the lock of the set is kept while the instances are checked.
CheckInstances_KeepsSet(g) ==
    /\ From(g, "initialized")
    /\ AskFor(g, at[g], "short")
    /\ UNCHANGED <<entered, at, left, owner, registered>>

\* It returns at once if the set is not initialized.
CheckInstances(g) ==
    /\ From(g, "initialized")
    /\ Release(Set)
    /\ \/ AskFor(g, at[g], "short") /\ UNCHANGED <<entered, at>>
       \/ GoTo(g, "idle", None)
    /\ UNCHANGED <<left, registered>>

-----------------------------------------------------------------------------
(* ForResource and InformerFor: f.lock; for a new informer, its            *)
(* registration with the set, which replays the names.  The constructors   *)
(* of informers are exported too.                                          *)

ForResource(g) ==
    /\ Enter(g, "factory")
    /\ AskFor(g, Factory, "resource")
    /\ UNCHANGED <<at, left, owner, registered>>

\* Mutant: f.lock is not released when the informer exists.
Exists_NoUnlock(g) ==
    /\ From(g, "resource")
    /\ GoTo(g, "idle", None)
    /\ UNCHANGED <<left, owner, registered>>

Exists(g) ==
    /\ From(g, "resource")
    /\ Release(Factory)
    /\ GoTo(g, "idle", None)
    /\ UNCHANGED <<left, registered>>

\* x is an informer that nobody has yet; it asks for the lock of the set.
Register(g, x) ==
    /\ x \notin registered /\ \A h \in Goroutines : at[h] # x
    /\ at' = [at EXCEPT ![g] = x]
    /\ AskFor(g, Set, "register")
    /\ UNCHANGED <<left, owner, registered>>

NewInformer(g, x) == From(g, "resource") /\ UNCHANGED entered /\ Register(g, x)

\* NewMultiNamespaceInformer, called by the application with its set.
NewMultiNamespaceInformer(g, x) == Enter(g, "set") /\ Register(g, x)

\* AddHandler appends the informer and calls AddNamespace, if the set has names.
AddHandler(g) ==
    /\ From(g, "register")
    /\ registered' = registered \union {at[g]}
    /\ \/ AskFor(g, at[g], "instance") /\ UNCHANGED <<entered, at>>
       \/ GoTo(g, "transition", None)
    /\ UNCHANGED <<left, owner>>

-----------------------------------------------------------------------------
(* SetNamespaces of the factory, SetNamespaces of the set itself, and      *)
(* AddNamespace and RemoveNamespace of an informer itself.                 *)

SetNamespaces(g) ==
    /\ Enter(g, "factory")
    /\ AskFor(g, Factory, "set")
    /\ UNCHANGED <<at, left, owner, registered>>

EnterSet(g) ==
    /\ From(g, "set")
    /\ AskFor(g, Set, "enter")
    /\ UNCHANGED <<entered, at, left, owner, registered>>

SetNamespacesOfSet(g) ==
    /\ Enter(g, "set")
    /\ AskFor(g, Set, "enter")
    /\ UNCHANGED <<at, left, owner, registered>>

BeginTransition(g) ==
    /\ From(g, "enter")
    /\ left' = [left EXCEPT ![g] = registered]
    /\ GoTo(g, "transition", None)
    /\ UNCHANGED <<owner, registered>>

AddOrRemoveNamespace(g, x) ==
    /\ Enter(g, "informer")
    /\ at' = [at EXCEPT ![g] = x]
    /\ AskFor(g, x, "instance")
    /\ UNCHANGED <<left, owner, registered>>

\* OnRemove or OnAdd of one informer; the order of the names and informers, and
\* how often each is called, makes no difference to the locks.
CallInformer(g, x) ==
    /\ From(g, "transition")
    /\ x \in left[g]
    /\ at' = [at EXCEPT ![g] = x]
    /\ left' = [left EXCEPT ![g] = @ \ {x}]
    /\ AskFor(g, x, "instance")
    /\ UNCHANGED <<entered, owner, registered>>

\* RemoveNamespace calls OnDelete of a handler that takes a lock.
CallOnDelete(g, l) ==
    /\ From(g, "instance")
    /\ l \in OnDelete[at[g]]
    /\ AskFor(g, l, "handler")
    /\ UNCHANGED <<entered, at, left, owner, registered>>

HandlerReturns(g) ==
    /\ From(g, "handler")
    /\ Release(lock[g])
    /\ GoTo(g, "told", at[g])
    /\ UNCHANGED <<left, registered>>

\* AddNamespace or RemoveNamespace releases i.lock.
InformerReturns(g) ==
    /\ From(g, "instance") \/ From(g, "told")
    /\ Release(at[g])
    /\ GoTo(g, IF entered[g] = "informer" THEN "idle" ELSE "transition", None)
    /\ UNCHANGED <<left, registered>>

EndTransition(g) ==
    /\ From(g, "transition")
    /\ left[g] = {}
    /\ Release(Set)
    /\ GoTo(g, IF entered[g] = "factory" THEN "return" ELSE "idle", None)
    /\ UNCHANGED <<left, registered>>

Return(g) ==
    /\ From(g, "return")
    /\ Release(Factory)
    /\ GoTo(g, "idle", None)
    /\ UNCHANGED <<left, registered>>

-----------------------------------------------------------------------------
Call(g) ==
    \/ \E l \in Mutexes \union {Factory, Set} \union registered : Short(g, l)
    \/ \E x \in registered : HasSynced(g, x)
    \/ ForResource(g)
    \/ \E x \in Informers : NewMultiNamespaceInformer(g, x)
    \/ SetNamespaces(g)
    \/ SetNamespacesOfSet(g)
    \/ \E x \in Direct \intersect registered : AddOrRemoveNamespace(g, x)

\* What g does next by itself, not waiting for a lock.
Proceed(g) ==
    \/ ShortReturns(g) \/ CheckInstances(g)
    \/ Exists(g) \/ AddHandler(g)
    \/ EnterSet(g) \/ BeginTransition(g)
    \/ HandlerReturns(g) \/ InformerReturns(g) \/ EndTransition(g) \/ Return(g)
    \/ \E x \in Informers : NewInformer(g, x) \/ CallInformer(g, x)
    \/ \E l \in Locks : CallOnDelete(g, l)

Next == \E g \in Goroutines : Call(g) \/ Acquire(g) \/ Proceed(g)

\* Goroutines run, and a mutex serves everyone who waits long enough (Go's
\* mutexes hand over to a waiter that has waited for a millisecond).
Fairness ==
    \A g \in Goroutines : WF_vars(Proceed(g)) /\ SF_vars(Acquire(g))

Spec == Init /\ [][Next]_vars /\ Fairness

-----------------------------------------------------------------------------
\* What a call holds around the set, and around an informer, depends on where it began.
AroundSet(g) == IF entered[g] = "factory" THEN {Factory} ELSE {}
AroundInformer(g) == IF entered[g] = "informer" THEN {} ELSE AroundSet(g) \union {Set}

\* The locks that g holds, by the place in its call.
Holds(g) ==
    LET asked == IF waiting[g] THEN {} ELSE {lock[g]} IN
    CASE doing[g] = "idle" -> {}
      [] doing[g] \in {"short", "initialized", "resource", "set"} -> asked
      [] doing[g] \in {"enter", "register"} -> asked \union AroundSet(g)
      [] doing[g] = "transition" -> AroundInformer(g)
      [] doing[g] = "instance" -> asked \union AroundInformer(g)
      [] doing[g] = "handler" -> asked \union {at[g]} \union AroundInformer(g)
      [] doing[g] = "told" -> {at[g]} \union AroundInformer(g)
      [] doing[g] = "return" -> {Factory}

Places == {"idle", "short", "initialized", "resource", "set", "enter", "register",
           "transition", "instance", "handler", "told", "return"}

\* Every variable has its type.
TypeOK ==
    /\ doing \in [Goroutines -> Places]
    /\ entered \in [Goroutines -> {"none", "factory", "set", "informer"}]
    /\ lock \in [Goroutines -> Locks \union {None}]
    /\ waiting \in [Goroutines -> BOOLEAN]
    /\ at \in [Goroutines -> Informers \union {None}]
    /\ left \in [Goroutines -> SUBSET Informers]
    /\ owner \in [Locks -> Goroutines \union {None}]
    /\ registered \in SUBSET Informers

\* Every lock is owned by the goroutine that, at its place, must hold it: no call
\* returns or goes on with a lock it should have released, and no lock is released
\* that somebody else holds.
LocksAreHeld == \A g \in Goroutines, l \in Locks : owner[l] = g <=> l \in Holds(g)

WaitsFor(g, h) == waiting[g] /\ owner[lock[g]] = h

\* An order of the informers in which every non-empty set of them has a first.
Orders ==
    {before \in SUBSET (Informers \X Informers) :
       /\ \A x, y, z \in Informers :
            <<x, y>> \in before /\ <<y, z>> \in before => <<x, z>> \in before
       /\ \A some \in SUBSET Informers :
            some # {} => \E x \in some : \A y \in some : <<y, x>> \notin before}

\* What the application must keep to.  OnDelete handlers stay out of the factory,
\* the set and their own informer.  Those of an informer whose names are removed
\* directly read only informers that come before it in some order; the others, who
\* run one at a time since the lock of the set is held, may read each other's
\* informers, but none for which their own comes before it.
TameHandlers ==
    /\ \A x \in Informers : OnDelete[x] \subseteq (Informers \ {x}) \union Mutexes
    /\ \E before \in Orders : \A x \in Informers : \A y \in OnDelete[x] \intersect Informers :
         IF x \in Direct THEN <<y, x>> \in before ELSE <<x, y>> \notin before

\* Never does a group of goroutines wait only for locks that members of the group
\* hold (one that waits for a lock of its own included), whichever of the modelled
\* calls of a factory, its set and its informers meet.  This needs TameHandlers: two
\* goroutines that call RemoveNamespace of two informers directly, each with a
\* handler that reads the other informer, do wait for each other for ever.
NoDeadlock ==
    \A group \in SUBSET Goroutines :
        group # {} => \E g \in group : \A h \in group : ~WaitsFor(g, h)

\* Every call of the library returns, with the same handlers.
CallsReturn == \A g \in Goroutines : doing[g] # "idle" ~> doing[g] = "idle"
=============================================================================
