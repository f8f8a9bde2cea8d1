-------------------------------- MODULE Parts --------------------------------
(***************************************************************************)
(* What the parts of the platform that run side by side have in common:    *)
(* Storage, NodeParts and ApiPart name their state.  They share nothing    *)
(* but the names below, and part says which of them a behaviour is about.  *)
(***************************************************************************)
CONSTANTS
  None,      \* no record, no file, nobody
  MaxCalls   \* calls started

VARIABLES
  part,      \* the part that runs
  call,      \* what each of its callers is doing
  calls,     \* the calls started
  mu         \* who holds its mutex
==============================================================================
