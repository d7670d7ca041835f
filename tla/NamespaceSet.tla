---------------------------- MODULE NamespaceSet ----------------------------
(***************************************************************************)
(* The dynamic set of namespaces of pkg/informers/namespace_set.go.        *)
(*                                                                         *)
(* SetNamespaces and AddHandler hold n.lock while they call the handlers,  *)
(* one call at a time.  A handler is foreign code (an informer that starts *)
(* or stops a watch), so each call is a step here, and what the handlers   *)
(* have seen in the middle of a transition is part of the state.  `phase'  *)
(* is the program counter of the goroutine that holds n.lock; Contains,    *)
(* List and Initialized take the same lock and can read only when it is    *)
(* "idle".                                                                 *)
(***************************************************************************)
EXTENDS Integers, Sequences

CONSTANTS
    Namespaces,     \* the namespace names a caller may ask for
    All,            \* metav1.NamespaceAll, the name that selects every namespace
    Handlers,       \* the NamespaceSetHandlers that may be registered
    Nil             \* the nil sets.Set of a set that was never initialized

ASSUME NamespaceSetAssumption == /\ All \in Namespaces
                                 /\ \A s \in SUBSET Namespaces : s # Nil

VARIABLES
    namespaces,     \* n.namespaces: a set of names, or Nil
    handlers,       \* n.handlers, in the order they were added
    phase,          \* where the holder of n.lock is; "idle": the lock is free
    target,         \* newNamespaceSet of the SetNamespaces call under way
    pending,        \* the names the loop under way has not finished with
    current,        \* the name of the iteration under way, when called > 0
    called,         \* how many handlers that iteration has called
    balance         \* balance[h][ns]: OnAdd calls less OnRemove calls h got for ns

call == <<phase, target, pending, current, called>>
vars == <<namespaces, handlers, call, balance>>

-----------------------------------------------------------------------------
(* sets.Set, where nil is a legal empty receiver.                          *)

Sets == {Nil} \union SUBSET Namespaces

Elements(s) == IF s = Nil THEN {} ELSE s

Difference(s1, s2) == Elements(s1) \ Elements(s2)

\* Mutant: NamespaceAll is kept beside other names.
Normalize_KeepAll(s) == s

\* NamespaceAll subsumes the other names and is then tracked alone.
Normalize(s) == IF All \in Elements(s) THEN {All} ELSE s

(* What the three readers answer when they get the lock.                   *)

Initialized == namespaces # Nil
Contains(ns) == ns \in Elements(namespaces)
List == Elements(namespaces)

-----------------------------------------------------------------------------
Registered == {handlers[j] : j \in 1..Len(handlers)}

Phases == {"idle", "removing", "adding", "registering"}

Init ==
    /\ namespaces \in {Normalize(s) : s \in Sets}
    /\ handlers = <<>>
    /\ phase = "idle"
    /\ target = Nil
    /\ pending = {}
    /\ current = All
    /\ called = 0
    /\ balance = [h \in Handlers |-> [ns \in Namespaces |-> 0]]

\* SetNamespaces(s) takes the lock and computes what it has to remove.
SetNamespaces(s) ==
    /\ phase = "idle"
    /\ phase' = "removing"
    /\ target' = Normalize(s)
    /\ pending' = Difference(namespaces, target')
    /\ UNCHANGED <<namespaces, handlers, current, called, balance>>

\* Mutant: the loop over the handlers runs one short of its reset.
Advance_OffByOne(ns) ==
    /\ ns \in pending
    /\ called > 0 => ns = current
    /\ called < Len(handlers)
    /\ current' = ns
    /\ called' = called + 1
    /\ UNCHANGED <<pending, namespaces, handlers, phase, target>>

\* The next handler call of the iteration for ns.  Go ranges over a map: an
\* iteration may start with any pending name, but ends before the next starts.
Advance(ns) ==
    /\ ns \in pending
    /\ called > 0 => ns = current
    /\ called < Len(handlers)
    /\ IF called + 1 = Len(handlers)
         THEN /\ pending' = pending \ {ns}
              /\ current' = All
              /\ called' = 0
         ELSE /\ current' = ns
              /\ called' = called + 1
              /\ UNCHANGED pending
    /\ UNCHANGED <<namespaces, handlers, phase, target>>

Notify(h, ns, n) == balance' = [balance EXCEPT ![h][ns] = @ + n]

\* h.OnRemove(namespace) for one handler.
CallOnRemove(ns) ==
    /\ phase = "removing"
    /\ Advance(ns)
    /\ Notify(handlers[called + 1], ns, -1)

\* Mutant: the handler calls are not waited for.
LoopDone_Always == called = 0

\* Without a handler the loops have no effect.
LoopDone == pending = {} \/ handlers = <<>>

\* Mutant: the names that stay are added again.
StartAdding_All ==
    /\ phase = "removing"
    /\ LoopDone
    /\ phase' = "adding"
    /\ pending' = Elements(target)
    /\ UNCHANGED <<namespaces, handlers, target, current, called, balance>>

\* The removals are over; compute what has to be added.
StartAdding ==
    /\ phase = "removing"
    /\ LoopDone
    /\ phase' = "adding"
    /\ pending' = Difference(target, namespaces)
    /\ UNCHANGED <<namespaces, handlers, target, current, called, balance>>

\* h.OnAdd(namespace) for one handler.
CallOnAdd(ns) ==
    /\ phase = "adding"
    /\ Advance(ns)
    /\ Notify(handlers[called + 1], ns, 1)

\* Mutant: the removed names stay in the stored set.
FinishSet_Merge ==
    /\ phase = "adding"
    /\ LoopDone
    /\ namespaces' = Elements(namespaces) \union Elements(target)
    /\ phase' = "idle"
    /\ target' = Nil
    /\ pending' = {}
    /\ UNCHANGED <<handlers, current, called, balance>>

\* Only now does the set change; the lock is released with the return.
FinishSet ==
    /\ phase = "adding"
    /\ LoopDone
    /\ namespaces' = target
    /\ phase' = "idle"
    /\ target' = Nil
    /\ pending' = {}
    /\ UNCHANGED <<handlers, current, called, balance>>

\* Mutant: a new handler is not told what is tracked already.
AddHandler_NoReplay(h) ==
    /\ phase = "idle"
    /\ h \notin Registered
    /\ handlers' = Append(handlers, h)
    /\ UNCHANGED <<namespaces, call, balance>>

\* AddHandler(h) takes the lock and appends h.  Each informer registers its
\* own handler, once, when it is made (NewMultiNamespaceInformer).
AddHandler(h) ==
    /\ phase = "idle"
    /\ h \notin Registered
    /\ handlers' = Append(handlers, h)
    /\ phase' = "registering"
    /\ pending' = Elements(namespaces)
    /\ UNCHANGED <<namespaces, target, current, called, balance>>

\* handler.OnAdd(ns) for a name that was tracked before the handler came.
CallRegistered(ns) ==
    /\ phase = "registering"
    /\ ns \in pending
    /\ pending' = pending \ {ns}
    /\ Notify(handlers[Len(handlers)], ns, 1)
    /\ UNCHANGED <<namespaces, handlers, phase, target, current, called>>

FinishRegister ==
    /\ phase = "registering"
    /\ pending = {}
    /\ phase' = "idle"
    /\ UNCHANGED <<namespaces, handlers, target, pending, current, called, balance>>

\* The steps of a call that has the lock, as opposed to a new call.
Proceed ==
    \/ \E ns \in Namespaces : CallOnRemove(ns) \/ CallOnAdd(ns) \/ CallRegistered(ns)
    \/ StartAdding
    \/ FinishSet
    \/ FinishRegister

Next ==
    \/ \E s \in Sets : SetNamespaces(s)
    \/ \E h \in Handlers : AddHandler(h)
    \/ Proceed

\* A goroutine that holds the lock runs on: nothing between Lock and Unlock
\* blocks, provided that the handlers return.
Spec == Init /\ [][Next]_vars /\ WF_vars(Proceed)

-----------------------------------------------------------------------------
(* Types                                                                   *)

\* Every variable has its type; inside an iteration at least one handler has
\* been called and at least one is left, and the name has not been finished.
TypeOK ==
    /\ namespaces \in Sets
    /\ handlers \in Seq(Handlers)
    /\ phase \in Phases
    /\ target \in Sets
    /\ pending \in SUBSET Namespaces
    /\ current \in Namespaces
    /\ called \in Nat
    /\ called > 0 => current \in pending /\ called < Len(handlers)
    /\ balance \in [Handlers -> [Namespaces -> Int]]

(* Safety                                                                  *)

\* The namespaces handler h follows at this moment.
View(h) == {ns \in Namespaces : balance[h][ns] > 0}

\* A handler sees the calls for one name alternate, beginning with OnAdd: never
\* a second OnAdd for a name it follows, never an OnRemove for one it does not
\* (SetNamespaces diffs against the set stored by the call before it, and a new
\* handler is replayed exactly the stored set).
CallsAlternate ==
    \A h \in Handlers, ns \in Namespaces : balance[h][ns] \in {0, 1}

\* Whenever the lock is free, every registered handler follows exactly the set
\* that Contains and List report, whenever it registered.
HandlersAgree ==
    phase = "idle" => \A h \in Registered : View(h) = List

\* A handler that follows NamespaceAll follows nothing else, not even in the
\* middle of a transition to or from NamespaceAll: an informer never watches
\* one object through two of its caches (removals come before additions).
AllIsExclusive ==
    \A h \in Handlers : All \in View(h) => View(h) = {All}

\* During SetNamespaces a handler follows part of the old set or part of the
\* new one, never a name of each kind that the other lacks, and the names in
\* both sets are left alone.
TransitionIsClean ==
    phase \in {"removing", "adding"} =>
        \A h \in Registered :
            /\ \/ View(h) \subseteq Elements(namespaces)
               \/ View(h) \subseteq Elements(target)
            /\ Elements(namespaces) \intersect Elements(target) \subseteq View(h)

(* Refinement: seen by those who take the lock, a call is one atomic step. *)

Committed == IF phase = "registering"
               THEN {handlers[j] : j \in 1..(Len(handlers) - 1)}
               ELSE Registered

CommittedViews ==
    [h \in Handlers |-> IF phase = "idle" THEN View(h)
                        ELSE IF h \in Committed THEN Elements(namespaces) ELSE {}]

Atomic == INSTANCE AtomicNamespaceSet
            WITH tracked <- namespaces, registered <- Committed, views <- CommittedViews

\* SetNamespaces and AddHandler take effect, on the set and on all handlers at
\* once, when they release the lock.
ImplementsAtomic == Atomic!Spec
=============================================================================
