---------------------------- MODULE MCRecordCache ----------------------------
(***************************************************************************)
(* The cache on small sets; keys, data and origins are interchangeable.    *)
(***************************************************************************)
EXTENDS RecordCache, TLC

Symmetry == Permutations(Keys) \cup Permutations(Data) \cup Permutations(Origins)

=============================================================================
