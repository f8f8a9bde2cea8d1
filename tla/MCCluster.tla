------------------------------ MODULE MCCluster ------------------------------
(***************************************************************************)
(* Cluster for TLC.                                                        *)
(***************************************************************************)
EXTENDS Cluster, TLC

CONSTANTS n1, n2

MCNodeOrder == <<n1, n2>>
MCUsage == n1 :> 0 @@ n2 :> 0
MCPolicies == {[min |-> 0, max |-> 2, up |-> 2, down |-> 2]}
==============================================================================
