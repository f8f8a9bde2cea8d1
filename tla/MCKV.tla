-------------------------------- MODULE MCKV --------------------------------
(***************************************************************************)
(* KV for TLC.  The sets of clients, keys and values are interchangeable.  *)
(***************************************************************************)
EXTENDS KV, TLC

Symmetry == Permutations(Clients) \cup Permutations(Keys) \cup Permutations(Values)
=============================================================================
