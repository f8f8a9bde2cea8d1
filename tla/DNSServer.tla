------------------------------ MODULE DNSServer ------------------------------
(***************************************************************************)
(* internal/dns: Run and the goroutines it starts, which serve queries     *)
(* until the context ends.  What a query is answered is in DNS.  A read or *)
(* an accept returns after 500 ms at the latest, and at once when Run has  *)
(* closed the socket; a TCP connection has no deadline.                    *)
(***************************************************************************)
EXTENDS Naturals, FiniteSets

CONSTANT Conns   \* TCP connections

VARIABLES
  run,      \* Run: what it does next, "failed" or "returned"; "dead" with the process
  ctx,      \* "live" or "done"
  open,     \* the sockets that are open
  loop,     \* serveUDP, serveTCP and zoneRefresher: "none", "read", "query" or "ended"
  conn      \* the goroutine of each connection

vars == <<run, ctx, open, loop, conn>>

Loops == {"udp", "tcp", "zone"}

NewServer ==
  /\ open = {}
  /\ loop = [l \in Loops |-> "none"]
  /\ conn = [c \in Conns |-> "none"]

\* main of clouddns makes a server and calls Run; when that fails, it exits.
Init == NewServer /\ run = "udp" /\ ctx = "live"

\* Run opens one socket after the other, fills the zone ...
Listen(s) ==
  /\ run = s
  /\ \/ run' = (IF s = "udp" THEN "tcp" ELSE "prime") /\ open' = open \cup {s}
     \/ run' = "failed" /\ UNCHANGED open
  /\ UNCHANGED <<ctx, loop, conn>>

\* ... and starts the goroutines.  After an error it returns and leaves open
\* what it opened.
Prime ==
  /\ run = "prime"
  /\ \/ run' = "wait" /\ loop' = [l \in Loops |-> "read"]
     \/ run' = "failed" /\ UNCHANGED loop
  /\ UNCHANGED <<ctx, open, conn>>

\* The end of Run; stopCh is closed when run is "returned".
Shut ==
  /\ run = "wait" /\ ctx = "done"
  /\ run' = "returned" /\ open' = {}
  /\ UNCHANGED <<ctx, loop, conn>>

Alive == run # "dead"

Cancel ==
  /\ Alive /\ ctx = "live"
  /\ ctx' = "done"
  /\ UNCHANGED <<run, open, loop, conn>>

Over == ctx = "done" \/ run = "returned"

\* Mutant of ReadFails: the loop goes on.
ReadFailsForever(l) ==
  /\ Alive /\ loop[l] = "read" /\ Over
  /\ UNCHANGED vars

\* A read, an accept or a wait for the ticker comes back with nothing: the loop
\* ends if it is over, else it tries again.
ReadFails(l) ==
  /\ Alive /\ loop[l] = "read" /\ Over
  /\ loop' = [loop EXCEPT ![l] = "ended"]
  /\ UNCHANGED <<run, ctx, open, conn>>

\* A datagram, or a tick of the zone's ticker, ...
Read(l) ==
  /\ Alive /\ loop[l] = "read"
  /\ l = "zone" \/ (l = "udp" /\ "udp" \in open)
  /\ loop' = [loop EXCEPT ![l] = "query"]
  /\ UNCHANGED <<run, ctx, open, conn>>

\* handleQuery on a name that readName does not come to the end of.
Die == run' = "dead" /\ open' = {} /\ UNCHANGED <<ctx, loop, conn>>

\* ... is handled in the loop itself: handleQuery and the answer, or refreshZone.
Handle(l) ==
  /\ Alive /\ loop[l] = "query"
  /\ \/ loop' = [loop EXCEPT ![l] = "read"] /\ UNCHANGED <<run, ctx, open, conn>>
     \/ l = "udp" /\ Die

\* serveTCP starts a goroutine for a connection.
Accept(c) ==
  /\ Alive /\ loop["tcp"] = "read" /\ "tcp" \in open
  /\ conn[c] = "none"
  /\ conn' = [conn EXCEPT ![c] = "body"]
  /\ UNCHANGED <<run, ctx, open, loop>>

\* The length and as many bytes arrive, or the client leaves.
Arrive(c) ==
  /\ Alive /\ conn[c] = "body"
  /\ \E pc \in {"query", "closed"} : conn' = [conn EXCEPT ![c] = pc]
  /\ UNCHANGED <<run, ctx, open, loop>>

\* handleQuery, and the answer behind its length, or none to what is no query.
Respond(c) ==
  /\ Alive /\ conn[c] = "query"
  /\ \/ /\ \E pc \in {"answered", "closed"} : conn' = [conn EXCEPT ![c] = pc]
        /\ UNCHANGED <<run, ctx, open, loop>>
     \/ Die

Next ==
  \/ \E s \in {"udp", "tcp"} : Listen(s)
  \/ Prime \/ Shut \/ Cancel
  \/ \E l \in Loops : ReadFails(l) \/ Read(l) \/ Handle(l)
  \/ \E c \in Conns : Accept(c) \/ Arrive(c) \/ Respond(c)

\* Run goes on, a goroutine that can move does, reads time out, and a select
\* between the end of the context and the ticker does not always take the ticker.
Fairness ==
  /\ WF_vars((\E s \in {"udp", "tcp"} : Listen(s)) \/ Prime) /\ WF_vars(Shut)
  /\ WF_vars(ReadFails("udp")) /\ WF_vars(ReadFails("tcp")) /\ SF_vars(ReadFails("zone"))
  /\ \A l \in Loops : WF_vars(Handle(l))
  /\ \A c \in Conns : WF_vars(Respond(c))

Spec == Init /\ [][Next]_vars /\ Fairness

-----------------------------------------------------------------------------
\* Once the context ends, Run returns with its sockets closed and its three
\* loops end, whatever they were doing, unless it had failed before it served;
\* and a query that arrived on a connection is dealt with even then.  A query
\* whose name has no end takes the process down instead, at any time.
ServerStops ==
  /\ (ctx = "done") ~> \/ run \in {"failed", "dead"}
                       \/ run = "returned" /\ open = {} /\ \A l \in Loops : loop[l] = "ended"
  /\ \A c \in Conns : (conn[c] = "query") ~> (conn[c] \in {"answered", "closed"} \/ run = "dead")
=============================================================================
