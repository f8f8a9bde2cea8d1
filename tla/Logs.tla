-------------------------------- MODULE Logs --------------------------------
(***************************************************************************)
(* The ring of log records of internal/primitives/obs.  Append and Tail    *)
(* hold the lock from start to end.  A record is its number; the ring is   *)
(* indexed from 0.                                                         *)
(***************************************************************************)
EXTENDS Integers, Sequences

CONSTANTS
  RingSizes,    \* what NewLogs is called with
  DefaultRing,  \* 1024
  MaxRecords    \* bound: records appended

ASSUME LogsAssumption == RingSizes \subseteq Int /\ DefaultRing \in Nat \ {0} /\ MaxRecords \in Nat

VARIABLES
  log,          \* the ring, the next index, whether it wrapped, its size
  appended      \* history: the records in the order of the calls

logVars == <<log, appended>>

NewLogs(maxSize) ==
  LET max == IF maxSize <= 0 THEN DefaultRing ELSE maxSize
  IN [ring |-> [i \in 0..(max - 1) |-> 0], next |-> 0, full |-> FALSE, max |-> max]

LogsInit == appended = <<>> /\ \E size \in RingSizes : log = NewLogs(size)

\* Mutant of AppendLog: a ring that wrapped does not count as full.
AppendLogNeverFull(l, rec) ==
  [ring |-> [l.ring EXCEPT ![l.next] = rec], next |-> (l.next + 1) % l.max, full |-> l.full, max |-> l.max]

AppendLog(l, rec) ==
  LET n == (l.next + 1) % l.max
  IN [ring |-> [l.ring EXCEPT ![l.next] = rec], next |-> n, full |-> (l.full \/ n = 0), max |-> l.max]

LogStep ==
  /\ Len(appended) < MaxRecords
  /\ LET rec == Len(appended) + 1
     IN log' = AppendLog(log, rec) /\ appended' = Append(appended, rec)

LogsSpec == LogsInit /\ [][LogStep]_logVars

Least3(a, b, c) == CHOOSE m \in {a, b, c} : m <= a /\ m <= b /\ m <= c

\* Tail: newest first; a negative index wraps.
TailOf(l, n) ==
  LET count == IF l.full THEN l.max ELSE l.next
  IN [i \in 1..Least3(n, l.max, count) |->
        l.ring[IF l.next - i < 0 THEN l.next - i + l.max ELSE l.next - i]]

\* Tail(n) returns the newest n records, newest first, as far as they were
\* appended and the ring keeps them, before and after the ring wrapped.
TailIsNewest ==
  \A n \in 0..(log.max + 1) :
    TailOf(log, n) = [i \in 1..Least3(n, log.max, Len(appended)) |-> appended[Len(appended) + 1 - i]]
==============================================================================
