---------------------------- MODULE MCCacheReader ----------------------------
(* CacheReader for TLC.  The members of each constant set are              *)
(* interchangeable.                                                        *)
EXTENDS CacheReader

Symmetry == Permutations(Objects) \union Permutations(Readers)
=============================================================================
