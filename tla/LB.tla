--------------------------------- MODULE LB ---------------------------------
(***************************************************************************)
(* internal/lb: one balancer.  A handler keeps the pointer that pick gave  *)
(* it while refresh rewrites the slice it points into (b.backends[:0] and  *)
(* append), so the pointer is a slot of the backing array, and after an    *)
(* append that outgrows the array it points into an array nobody reads.    *)
(***************************************************************************)
EXTENDS Integers, Sequences, FiniteSets

CONSTANTS
  Addrs,      \* backend addresses
  Handlers,   \* connections, each served by one goroutine
  Least       \* TRUE for StrategyLeastConnections, FALSE for round-robin

VARIABLES
  ready,      \* store: the addresses of the placements with Status "Ready"
  array,      \* the backing array of b.backends: addr, conns, healthy
  len,        \* len(b.backends)
  serving,    \* Serve has done its first refresh
  run,        \* the loop of Run: "tick" or "check"
  checked,    \* slots probed by the healthCheck that holds the mutex
  handler     \* each handler: pc, the slot it points at (0: an old array), addr

vars == <<ready, array, len, serving, run, checked, handler>>

\* The mutex is held across a whole healthCheck.
Locked == checked > 0

Backend(a) == [addr |-> a, conns |-> 0, healthy |-> TRUE]

AddrLists == {s \in UNION {[1..k -> Addrs] : k \in 0..Cardinality(Addrs)} :
                \A i, j \in DOMAIN s : s[i] = s[j] => i = j}

Init ==
  /\ ready \in AddrLists
  /\ array = <<>> /\ len = 0
  /\ serving = FALSE /\ run = "tick" /\ checked = 0
  /\ handler = [h \in Handlers |-> [pc |-> "closed", slot |-> 0, addr |-> {}]]

-----------------------------------------------------------------------------
\* The capacity append gives an array that must hold n elements: it doubles.
Capacity(n) == CHOOSE c \in {2^k : k \in 0..n} : n <= c /\ \A k \in 0..n : n <= 2^k => c <= 2^k

\* A handler whose pointer is left in the old array: the address that it will
\* dial is the one that the array was last filled with.
Detached(r, addrs) ==
  [r EXCEPT !.slot = 0,
            !.addr = IF r.slot > 0 /\ r.pc \in {"count", "dial"} THEN {addrs[r.slot]} ELSE @]

\* The critical section of refresh.  Slots past the new length keep what they
\* held; when the array is too small it is filled, and the elements move to a
\* new one.
Rebuild(addrs) ==
  LET n    == Len(addrs)
      grow == n > Len(array)
  IN /\ ~Locked
     /\ len' = n
     /\ array' = [i \in 1..(IF grow THEN Capacity(n) ELSE Len(array)) |->
                    IF i <= n THEN Backend(addrs[i])
                    ELSE IF grow THEN [addr |-> {}, conns |-> 0, healthy |-> FALSE]
                    ELSE array[i]]
     /\ handler' = IF grow THEN [h \in Handlers |-> Detached(handler[h], addrs)] ELSE handler

\* What refresh reads: the addresses, or none when GetPlacements fails.  When
\* the service is not found it returns before the critical section.
Refreshes ==
  \/ \E addrs \in {ready, <<>>} : Rebuild(addrs)
  \/ UNCHANGED <<array, len, handler>>

SetPlacements ==
  /\ ready' \in AddrLists \ {ready}
  /\ UNCHANGED <<array, len, serving, run, checked, handler>>

Serve ==
  /\ ~serving /\ serving' = TRUE
  /\ Refreshes
  /\ UNCHANGED <<ready, run, checked>>

\* A tick of Run: refresh, ...
Refresh ==
  /\ run = "tick" /\ run' = "check"
  /\ Refreshes
  /\ UNCHANGED <<ready, serving, checked>>

\* ... then healthCheck, one probe at a time under the mutex.
Probe ==
  /\ run = "check" /\ checked < len
  /\ checked' = checked + 1
  /\ \E ok \in BOOLEAN : array' = [array EXCEPT ![checked + 1].healthy = ok]
  /\ UNCHANGED <<ready, len, serving, run, handler>>

CheckEnds ==
  /\ run = "check" /\ checked = len
  /\ run' = "tick" /\ checked' = 0
  /\ UNCHANGED <<ready, array, len, serving, handler>>

-----------------------------------------------------------------------------
(* handle.                                                                 *)

Healthy == {i \in 1..len : array[i].healthy}

Pick(h) ==
  /\ serving /\ ~Locked /\ handler[h].pc = "closed"
  /\ \E i \in Healthy :
       /\ Least => \A j \in Healthy : array[i].conns < array[j].conns
                                      \/ (array[i].conns = array[j].conns /\ i <= j)
       /\ handler' = [handler EXCEPT ![h] = [pc |-> "count", slot |-> i, addr |-> {array[i].addr}]]
  /\ UNCHANGED <<ready, array, len, serving, run, checked>>

\* The field of the backend the handler points at changes by d.
AddConns(h, d) ==
  array' = IF handler[h].slot = 0 THEN array
           ELSE [array EXCEPT ![handler[h].slot].conns = @ + d]

Count(h) ==
  /\ handler[h].pc = "count"
  /\ AddConns(h, 1)
  /\ handler' = [handler EXCEPT ![h].pc = "dial"]
  /\ UNCHANGED <<ready, len, serving, run, checked>>

\* The address is read now, not when the backend was picked.
Dial(h) ==
  /\ handler[h].pc = "dial"
  /\ handler' = [handler EXCEPT ![h].pc = "copy",
                   ![h].addr = IF handler[h].slot = 0 THEN @ ELSE {array[handler[h].slot].addr}]
  /\ UNCHANGED <<ready, array, len, serving, run, checked>>

\* The address cannot be dialled: the slot, whatever it holds by now, is marked.
DialFails(h) ==
  /\ handler[h].pc = "dial"
  /\ array' = IF handler[h].slot = 0 THEN array
              ELSE [array EXCEPT ![handler[h].slot].healthy = FALSE]
  /\ handler' = [handler EXCEPT ![h].pc = "done"]
  /\ UNCHANGED <<ready, len, serving, run, checked>>

\* The copy ends and the deferred decrement runs.
Close(h) ==
  /\ handler[h].pc \in {"copy", "done"}
  /\ AddConns(h, -1)
  /\ handler' = [handler EXCEPT ![h] = [pc |-> "closed", slot |-> 0, addr |-> {}]]
  /\ UNCHANGED <<ready, len, serving, run, checked>>

Next ==
  \/ SetPlacements \/ Serve \/ Refresh \/ Probe \/ CheckEnds
  \/ \E h \in Handlers : Pick(h) \/ Count(h) \/ Dial(h) \/ DialFails(h) \/ Close(h)

Spec == Init /\ [][Next]_vars

-----------------------------------------------------------------------------
\* The connections that are open to an address.
Open(a) == Cardinality({h \in Handlers : handler[h].pc \in {"dial", "copy", "done"}
                                         /\ a \in handler[h].addr})

\* The least-connections strategy: a new connection goes to a healthy backend
\* to which no more connections are open than to any other healthy one.  It
\* fails after a refresh: the counts of the backends restart at 0 while their
\* connections stay open, and the decrements of these then make them negative.
LeastConnections ==
  [][\A h \in Handlers : (handler[h].pc = "closed" /\ handler'[h].pc = "count") =>
       \A a \in handler'[h].addr, i \in Healthy : Open(a) <= Open(array[i].addr)]_vars
=============================================================================
