----------------------------- MODULE MCElection -----------------------------
(***************************************************************************)
(* Election for TLC: the nodes are interchangeable.                        *)
(***************************************************************************)
EXTENDS Election, TLC

Symmetry == Permutations(Nodes)
=============================================================================
