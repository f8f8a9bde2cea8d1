-------------------------------- MODULE MCMQ --------------------------------
(***************************************************************************)
(* MQ for TLC: consumers c1 and c2 form one group, c3 another; or one      *)
(* consumer per group.                                                     *)
(***************************************************************************)
EXTENDS MQ, TLC

CONSTANTS c1, c2, c3, shared, other

TwoInOneGroup == c1 :> shared @@ c2 :> shared @@ c3 :> other
OnePerGroup   == c1 :> shared @@ c2 :> other

MessageSymmetry == Permutations(Messages)
=============================================================================
