------------------------- MODULE GeneratedFactories --------------------------
(***************************************************************************)
(* A generated factory as its callers see it: accessors such as            *)
(* factory.Core().V1().Pods(), and ForResource, both of which end in       *)
(* InformerFor, which files informers under the Go type of their objects.  *)
(* What comes back depends on what was asked for before.                   *)
(*                                                                         *)
(* Which accessors, cases and types there are is a parameter; the modules  *)
(* KubeInformers, IstioInformers, GatewayInformers and RouteInformers have *)
(* those of the generated code, in the shapes of GeneratedShapes.  Every   *)
(* call holds f.lock from the lookup to the entry, so it is one step here; *)
(* running the informers is the business of InformerFactory.               *)
(***************************************************************************)
EXTENDS Naturals, FiniteSets, GeneratedShapes

CONSTANTS
    Factories,  \* [groups |-> the accessors, cases |-> the switch of ForResource] of each
    Unknown,    \* a resource that no factory knows
    MaxAnswers  \* bound: the number of different answers in a behaviour

VARIABLES
    factory,    \* the factory that is used
    informers,  \* f.informers: the informers made, each under its key
    panicked,   \* a constructor was called without a namespace set
    answers     \* what was asked and what came back (history)

vars == <<factory, informers, panicked, answers>>

Accessors == AccessorsOf(factory)

\* The type's file at the end of an accessor's path.
InformerAt(path) == FileAt(factory, path)

Resources == {InformerAt(p).lists : p \in Accessors} \union {c.resource : c \in factory.cases}
               \union {Unknown}

Init ==
    /\ factory \in Factories
    /\ informers = {}
    /\ panicked = FALSE
    /\ answers = {}

\* Mutant: informers are filed under the resource's name without its version.
Existing_AnyVersion(i) == {j \in informers : j.key[2] = i.key[2]}

Existing(i) == {j \in informers : j.key = i.key}

Answer(asked, lister, got) ==
    answers' = answers \union {[asked |-> asked, lister |-> lister, got |-> got]}

\* InformerFor looks under the type; if there is nothing it calls the constructor,
\* which registers a multi-namespace informer with the set it was given.
InformerFor(i, asked, lister) ==
    \/ /\ Existing(i) # {}
       /\ \E j \in Existing(i) : Answer(asked, lister, {j})
       /\ UNCHANGED <<informers, panicked>>
    \/ /\ Existing(i) = {}
       /\ IF i.perNamespace /\ ~i.onSet
            THEN panicked' = TRUE /\ UNCHANGED <<informers, answers>>
            ELSE /\ informers' = informers \union {i}
                 /\ Answer(asked, lister, {i})
                 /\ UNCHANGED panicked

\* Informer() and Lister() of a type.
AskAccessor(path) ==
    InformerFor(InformerAt(path), InformerAt(path).lists, InformerAt(path).lister)

CasesFor(r) == {c \in factory.cases : c.resource = r}

\* The informer is asked for at once; the lister of a GenericInformer casts nothing.
ForResource(r) ==
    \/ \E c \in CasesFor(r) : InformerFor(InformerAt(c.path), r, InformerAt(c.path).object)
    \/ /\ CasesFor(r) = {}      \* "no informer found"
       /\ Answer(r, <<>>, {})
       /\ UNCHANGED <<informers, panicked>>

Next ==
    /\ ~panicked
    /\ Cardinality(answers) < MaxAnswers
    /\ \/ \E p \in Accessors : AskAccessor(p)
       \/ \E r \in Resources : ForResource(r)
    /\ UNCHANGED factory

Spec == Init /\ [][Next]_vars

-----------------------------------------------------------------------------
\* Whatever was asked for before, and whether by accessor or by resource: the
\* informer that comes back lists the resource in the version asked for, and holds
\* objects of the type that the lister casts them to, which would panic otherwise.
ServesWhatWasAsked ==
    \A x \in answers : \A i \in x.got : i.lists = x.asked /\ i.object = x.lister

\* A factory never lists and watches the same resource twice, and a second one is
\* made for no reason: the informers are shared.
OneCachePerResource ==
    \A i, j \in informers : i.lists = j.lists => i = j

\* A resource that ForResource refuses has no accessor, and no constructor is called
\* without the set it needs: what can be had one way can be had both ways.
NothingIsMissing ==
    /\ ~panicked
    /\ \A x \in answers : x.got = {} => \A p \in Accessors : InformerAt(p).lists # x.asked
=============================================================================
