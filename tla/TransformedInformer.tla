------------------------- MODULE TransformedInformer -------------------------
(***************************************************************************)
(* SetTransform of a multiNamespaceInformer, added to                      *)
(* MultiNamespaceInformer.                                                 *)
(*                                                                         *)
(* It is the one method that ranges over i.informers without i.lock, and   *)
(* it is not remembered for names added later.  A name that is added or    *)
(* removed meanwhile is a data race: the runtime of Go may notice that the *)
(* map is written during an iteration and end the process; if it does not, *)
(* the iteration misses no entry that stays and may or may not see one     *)
(* that is new.                                                            *)
(***************************************************************************)
EXTENDS MultiNamespaceInformer

CONSTANTS
    Setters     \* goroutines that call SetTransform, each once

VARIABLES
    setter,     \* where each of them is
    transformed, \* the instances that have the transform
    fatal       \* the runtime ended the process

transformVars == <<setter, transformed, fatal>>
allVars == <<vars, transformVars>>

\* The names an iteration has visited and those it may not miss; whether an
\* instance refused; whether the map was written meanwhile; whether a name was
\* added since the call began (history).
Setter == [at : {"idle", "ranging", "nil", "error"},
           visited : SUBSET Namespaces, due : SUBSET Namespaces,
           refused : BOOLEAN, written : BOOLEAN, added : BOOLEAN]

IdleSetter == [at |-> "idle", visited |-> {}, due |-> {},
               refused |-> FALSE, written |-> FALSE, added |-> FALSE]

TrackedNames == {ns \in Namespaces : Tracks(ns)}

TransformInit ==
    /\ Init
    /\ setter = [s \in Setters |-> IdleSetter]
    /\ transformed = {}
    /\ fatal = FALSE

-----------------------------------------------------------------------------
SetTransform(s) ==
    /\ setter[s].at = "idle"
    /\ setter' = [setter EXCEPT ![s] = [@ EXCEPT !.at = "ranging", !.due = TrackedNames]]
    /\ UNCHANGED <<vars, transformed, fatal>>

\* Mutant: the error of the last instance stands for all.
Refused_Last(s, i) == i \in HasBegun

\* The errors are aggregated; client-go refuses once an instance has started.
Refused(s, i) == setter[s].refused \/ i \in HasBegun

Visit(s, ns) ==
    /\ setter[s].at = "ranging"
    /\ Tracks(ns) /\ ns \notin setter[s].visited
    /\ setter' = [setter EXCEPT ![s].visited = @ \union {ns}, ![s].due = @ \ {ns},
                                ![s].refused = Refused(s, informers[ns])]
    /\ transformed' = transformed \union ({informers[ns]} \ HasBegun)
    /\ UNCHANGED <<vars, fatal>>

EndRange(s) ==
    /\ setter[s].at = "ranging"
    /\ setter[s].due = {}
    /\ setter' = [setter EXCEPT ![s] =
                    IF @.refused THEN [IdleSetter EXCEPT !.at = "error"]
                    ELSE [IdleSetter EXCEPT !.at = "nil", !.added = setter[s].added]]
    /\ UNCHANGED <<vars, transformed, fatal>>

\* "fatal error: concurrent map iteration and map write"
RaceDetected(s) ==
    /\ setter[s].at = "ranging"
    /\ setter[s].written
    /\ fatal' = TRUE
    /\ UNCHANGED <<vars, setter, transformed>>

Adds == ~(TrackedNames' \subseteq TrackedNames)

\* What a step of the informer means for a call that is ranging or has returned.
Raced(st) ==
    CASE st.at \in {"idle", "error"} -> st
      [] st.at = "nil" -> [st EXCEPT !.added = @ \/ Adds]
      [] st.at = "ranging" -> [st EXCEPT !.due = @ \intersect TrackedNames',
                                         !.written = @ \/ TrackedNames' # TrackedNames,
                                         !.added = @ \/ Adds]

InformerStep ==
    /\ Next
    /\ setter' = [s \in Setters |-> Raced(setter[s])]
    /\ UNCHANGED <<transformed, fatal>>

TransformNext ==
    \/ /\ ~fatal
       /\ \/ InformerStep
          \/ \E s \in Setters :
                \/ ~panicked /\ (SetTransform(s) \/ EndRange(s) \/ RaceDetected(s))
                \/ ~panicked /\ \E ns \in Namespaces : Visit(s, ns)
    \/ fatal /\ UNCHANGED allVars

TransformSpec == TransformInit /\ [][TransformNext]_allVars

-----------------------------------------------------------------------------
\* If SetTransform returned without an error and no name was added since it began,
\* every tracked instance has the transform: whatever was removed or started while
\* it ranged over the map, none was passed over.
TransformReachesAll ==
    \A s \in Setters :
        setter[s].at = "nil" /\ ~setter[s].added => Tracked \subseteq transformed
=============================================================================
