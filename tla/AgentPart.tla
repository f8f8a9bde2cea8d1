------------------------------ MODULE AgentPart ------------------------------
(***************************************************************************)
(* The agent of a node, as one of the parts that share no state with any   *)
(* other.                                                                  *)
(***************************************************************************)
CONSTANTS Workloads, MaxNodeFaults

VARIABLES created, placed, pc, todo, want, extra, conts, stop, faults, steady, away, clean, made

Ag == INSTANCE NodeAgent WITH MaxFaults <- MaxNodeFaults

ASSUME AgentAssumption == Ag!AgentAssumption

agentVars ==
  <<created, placed, pc, todo, want, extra, conts, stop, faults, steady, away, clean, made>>

-----------------------------------------------------------------------------
\* A pass of reconcileOnce without a failing call removes no container that was
\* wanted all the time and leaves none that was not wanted at any time, except
\* one created after the pass listed the containers (see NodeAgent).
SweepIsExact == Ag!SweepIsExact

\* Containers of workloads that are not placed on the node go away in the end
\* (see NodeAgent).
AgentCleansUp == Ag!AgentCleansUp
==============================================================================
