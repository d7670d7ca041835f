------------------------- MODULE AtomicNamespaceSet -------------------------
(***************************************************************************)
(* What a NamespaceSet promises (the interface of namespace_set.go): the   *)
(* set of tracked namespaces changes in one step, and in that same step    *)
(* every registered handler comes to follow the new set.  No handler calls *)
(* and no lock appear here; module NamespaceSet shows how the code obtains *)
(* this from single OnAdd and OnRemove calls made under a mutex.           *)
(***************************************************************************)
CONSTANTS
    Namespaces,     \* the namespace names a caller may ask for
    All,            \* metav1.NamespaceAll, the name that selects every namespace
    Handlers,       \* the NamespaceSetHandlers that may be registered
    Nil             \* the nil sets.Set of a set that was never initialized

VARIABLES
    tracked,        \* the tracked set, or Nil
    registered,     \* the handlers that have been added
    views           \* views[h]: the namespaces handler h was told to follow

vars == <<tracked, registered, views>>

\* The namespaces of a set that may be nil: ranging over nil visits nothing.
Elements(s) == IF s = Nil THEN {} ELSE s

\* The set that SetNamespaces stores for an argument: NamespaceAll stands alone.
Normalize(s) == IF All \in Elements(s) THEN {All} ELSE s

Sets == {Nil} \union SUBSET Namespaces

Init ==
    /\ tracked \in {Normalize(s) : s \in Sets}
    /\ registered = {}
    /\ views = [h \in Handlers |-> {}]

Set(s) ==
    /\ tracked' = Normalize(s)
    /\ views' = [h \in Handlers |->
                    IF h \in registered THEN Elements(tracked') ELSE views[h]]
    /\ UNCHANGED registered

Register(h) ==
    /\ h \notin registered
    /\ registered' = registered \union {h}
    /\ views' = [views EXCEPT ![h] = Elements(tracked)]
    /\ UNCHANGED tracked

Next == \/ \E s \in Sets : Set(s)
        \/ \E h \in Handlers : Register(h)

Spec == Init /\ [][Next]_vars
=============================================================================
