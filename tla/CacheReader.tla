----------------------------- MODULE CacheReader -----------------------------
(***************************************************************************)
(* The reads of a cacheReader (pkg/informers/cache_reader.go), which is    *)
(* what GetStore, GetIndexer and the listers of an informer read through,  *)
(* while the informer of module EventDelivery goes on.                     *)
(*                                                                         *)
(* Every read begins with a snapshot of the instances' indexers, taken     *)
(* under the informer's lock, and then reads them one by one without it.   *)
(* List and ListKeys gather what each of them returns.  Index, IndexKeys   *)
(* and ByIndex do, too, but end with the first error, the error of an      *)
(* indexer that does not have the index; of such an indexer                *)
(* ListIndexFuncValues gets no values, and no error.  Get and GetByKey ask *)
(* one indexer.  Writes are refused and change nothing.  An object stands  *)
(* here for its key and for an index value of its own, too.                *)
(***************************************************************************)
EXTENDS EventDelivery

CONSTANTS
    Readers     \* goroutines that read, each once

VARIABLES
    reader,     \* where each reader is
    indexAdded, \* AddIndexers was called, after the start of the informer
    lacking     \* the instances made before that: they do not have the index

readVars == <<reader, indexAdded, lacking>>
allVars  == <<vars, readVars>>

-----------------------------------------------------------------------------
\* The objects that are in the store of a tracked instance.
Merged == UNION {store[i] : i \in Tracked}

\* The kinds of reads: List, by an index, and ListIndexFuncValues.
Kinds == {"list", "index", "values"}

\* The objects of those tracked instances that such a read gets an answer from.
Readable(kind) ==
    UNION {store[i] : i \in IF kind = "values" THEN Tracked \ lacking ELSE Tracked}

\* What a reader reads, how far it is, the instances it has
\* still to read and how often it has got each object; and two histories: the
\* objects that were readable all the time since it began, and the set it began
\* with (None if SetNamespaces was under way then or was called since).
Reader == [kind : Kinds, at : {"idle", "reading", "done", "failed"},
           todo : SUBSET Instances, got : [Objects -> Nat],
           cached : SUBSET Objects, names : Arguments \union {None}]

IdleReader == [kind |-> "list", at |-> "idle", todo |-> {}, got |-> [o \in Objects |-> 0],
               cached |-> {}, names |-> None]

ReaderInit ==
    /\ Init
    /\ reader = [r \in Readers |-> IdleReader]
    /\ indexAdded = FALSE
    /\ lacking = {}

\* GetIndexers: a copy of the map under i.lock.
BeginRead(r, kind) ==
    /\ LockFree
    /\ reader[r].at = "idle"
    /\ kind # "list" => indexAdded
    /\ reader' = [reader EXCEPT ![r] =
                    [IdleReader EXCEPT !.kind = kind, !.at = "reading", !.todo = Tracked,
                       !.cached = Readable(kind),
                       !.names = IF target = None THEN namespaces ELSE None]]
    /\ UNCHANGED <<vars, indexAdded, lacking>>

Fails(r, i) == reader[r].kind = "index" /\ i \in lacking

\* What an instance answers.
Answer(r, i) == IF reader[r].kind = "values" /\ i \in lacking THEN {} ELSE store[i]

ReadFails(r, i) ==
    /\ reader[r].at = "reading" /\ i \in reader[r].todo
    /\ Fails(r, i)
    /\ reader' = [reader EXCEPT ![r].at = "failed"]
    /\ UNCHANGED <<vars, indexAdded, lacking>>

\* Mutant: an indexer that returns an error is passed over.
ReadOne_SkipsErrors(r, i) ==
    /\ reader[r].at = "reading" /\ i \in reader[r].todo
    /\ reader' = [reader EXCEPT ![r].todo = @ \ {i},
                    ![r].got = [o \in Objects |->
                       IF o \in Answer(r, i) /\ ~Fails(r, i) THEN @[o] + 1 ELSE @[o]]]
    /\ UNCHANGED <<vars, indexAdded, lacking>>

\* The map is ranged over in any order.
ReadOne(r, i) ==
    /\ reader[r].at = "reading" /\ i \in reader[r].todo
    /\ ~Fails(r, i)
    /\ reader' = [reader EXCEPT ![r].todo = @ \ {i},
                    ![r].got = [o \in Objects |-> IF o \in Answer(r, i) THEN @[o] + 1 ELSE @[o]]]
    /\ UNCHANGED <<vars, indexAdded, lacking>>

EndRead(r) ==
    /\ reader[r].at = "reading" /\ reader[r].todo = {}
    /\ reader' = [reader EXCEPT ![r].at = "done"]
    /\ UNCHANGED <<vars, indexAdded, lacking>>

\* AddIndexers of the running informer: its instances refuse the new index, and
\* the first of them ends the loop; but it is remembered for later instances.
AddIndexers ==
    /\ LockFree
    /\ ~indexAdded
    /\ indexAdded' = TRUE
    /\ lacking' = {i \in Instances : life[i] # "unused"}
    /\ UNCHANGED <<vars, reader>>

\* Mutant: NamespaceAll's instance is not looked for.
IndexerFor_ByNameOnly(o) == informers[o]

\* indexerForNamespace: the instance that Get and GetByKey ask, or None.
IndexerFor(o) == IF Tracks(All) THEN informers[All] ELSE informers[o]

Get(o) == IndexerFor(o) # None /\ o \in store[IndexerFor(o)]

-----------------------------------------------------------------------------
\* The histories of the readers after a step of the informer.
Observed(rd) ==
    IF rd.at # "reading" THEN rd
    ELSE [rd EXCEPT !.cached = @ \intersect Merged', !.names = IF target' = None THEN @ ELSE None]

InformerStep == /\ Next
                /\ reader' = [r \in Readers |-> Observed(reader[r])]
                /\ UNCHANGED <<indexAdded, lacking>>

ReaderNext ==
    \/ InformerStep
    \/ AddIndexers
    \/ \E r \in Readers :
        \/ \E kind \in Kinds : BeginRead(r, kind)
        \/ \E i \in Instances : ReadOne(r, i) \/ ReadFails(r, i)
        \/ EndRead(r)

ReaderSpec == ReaderInit /\ [][ReaderNext]_allVars

-----------------------------------------------------------------------------
\* No read returns an object twice, though NamespaceAll and a single name may
\* replace each other while it goes on.
NoDuplicates ==
    \A r \in Readers : \A o \in Objects : reader[r].got[o] <= 1

\* "This will now only list ConfigMaps in the new namespaces" (README.md:64): a
\* read that begins when SetNamespaces has returned gets no other objects, though
\* the instances of removed names may still be stopping.
OnlyNewNames ==
    \A r \in Readers : reader[r].names # None =>
        \A o \in Objects : reader[r].got[o] > 0 =>
            \E ns \in reader[r].names : o \in ObjectsOf(ns)

\* A read that ends without an error has every object that was cached from its
\* beginning to its end, whatever was added and removed meanwhile.  One by index never
\* leaves out the objects of an instance that does not have the index;
\* ListIndexFuncValues does, and of it this is said of the other instances only.
ReadsWhatStays ==
    \A r \in Readers : reader[r].at = "done" =>
        \A o \in reader[r].cached : reader[r].got[o] > 0

\* Get, which picks one instance by the object's namespace, finds exactly the
\* objects that a List of all instances would find, in the middle of a transition
\* between NamespaceAll and single names, too.
GetAgreesWithList == LockFree => \A o \in Objects : Get(o) <=> o \in Merged
=============================================================================
