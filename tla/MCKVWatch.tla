----------------------------- MODULE MCKVWatch -----------------------------
(***************************************************************************)
(* KVWatch for TLC: writers, watchers and keys are interchangeable.        *)
(***************************************************************************)
EXTENDS KVWatch, TLC

Symmetry == Permutations(Writers) \cup Permutations(Watchers) \cup Permutations(Keys)
=============================================================================
