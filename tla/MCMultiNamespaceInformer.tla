---------------------- MODULE MCMultiNamespaceInformer ----------------------
(* MultiNamespaceInformer for TLC.  The members of each constant set are   *)
(* interchangeable; the safety runs take states up to their permutation.   *)
EXTENDS MultiNamespaceInformer, TLC

Symmetry == Permutations(Namespaces) \union Permutations(Instances)
              \union Permutations(Runners) \union Permutations(Handlers)
              \union Permutations(IndexerSets) \union Permutations(WatchHandlers)
=============================================================================
