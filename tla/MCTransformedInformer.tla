----------------------- MODULE MCTransformedInformer -----------------------
(* TransformedInformer, and with it MultiNamespaceInformer, for TLC.  The  *)
(* members of each constant set are interchangeable.                       *)
EXTENDS TransformedInformer, TLC

Symmetry == Permutations(Namespaces) \union Permutations(Instances)
              \union Permutations(Runners) \union Permutations(Handlers)
              \union Permutations(IndexerSets) \union Permutations(WatchHandlers)
=============================================================================
