------------------------------ MODULE NodeParts ------------------------------
(***************************************************************************)
(* What a node has beside its agent's loop: Exec and Logs over the         *)
(* runtime, and the bridges of the projects.                               *)
(***************************************************************************)
EXTENDS Parts

CONSTANTS
  Callers,
  Images, Torn, MaxCreates, MaxExecs,
  Projects, Networks, Containers, ShortID(_), Panics, MaxLinkFaults

VARIABLES images, cont, log, bufs, ran, exec, networks, bridges, veths, linkFaults, tried

Rt == INSTANCE Exec WITH MaxCalls <- MaxExecs
Net == INSTANCE CNI WITH faults <- linkFaults, MaxFaults <- MaxLinkFaults

ASSUME CallersAssumption == Rt!CallersAssumption /\ Net!CallersAssumption

-----------------------------------------------------------------------------
\* An Exec that succeeded is a line of one log, of a container that existed
\* during the call, and Logs returns a prefix of a log (see Exec).
ExecLogged == part = "exec" => Rt!ExecLogged

\* A link hangs on a bridge that an Attach of it asked for, and an undisturbed
\* Attach leaves it up and on its project's bridge (see CNI).
LinksFollowCalls == part = "links" => Net!LinksFollowCalls
==============================================================================
