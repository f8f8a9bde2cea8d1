------------------------------- MODULE ApiPart -------------------------------
(***************************************************************************)
(* The HTTP API in front of the store, and its clients.                    *)
(***************************************************************************)
EXTENDS Parts

CONSTANTS Clients, Names, TokenLife, MaxTime, MaxRequests

VARIABLES now, server, users, keys, store, cred, sent, focus

API == INSTANCE Api

ASSUME NamesAssumption == API!NamesAssumption

-----------------------------------------------------------------------------
\* Only handlers called by an administrator change what is stored (see Api).
OnlyAdminsWrite == API!OnlyAdminsWrite

\* The requests of the SDK and of cloudctl fit the handlers, if no argument was
\* left empty (see Api).
ClientsFit == part = "api" => API!ClientsFit
==============================================================================
