-------------------------------- MODULE Retry --------------------------------
(***************************************************************************)
(* internal/util/retry: Do runs a function until it succeeds, fails for    *)
(* good, the attempts are used up or the context ends.  A run of Do is a   *)
(* record: its arguments after the defaults (max, base, cap), the number   *)
(* of calls made, the delays waited and the result, "none" while Do runs.  *)
(* Durations are integers of a fixed width: float64 -> int64 gives the     *)
(* smallest integer when the product does not fit.                         *)
(***************************************************************************)
EXTENDS Integers, Sequences

CONSTANTS
  DefaultAttempts, DefaultBase, DefaultCap,  \* 6, 100 ms and 30 s
  MaxDuration,                               \* 2^63 - 1
  Arguments                                  \* of Do: attempts, base, cap

ASSUME RetryAssumption ==
  /\ {DefaultAttempts, DefaultBase, DefaultCap} \subseteq Nat \ {0} /\ MaxDuration \in Nat
  /\ \A a \in Arguments : {a.attempts, a.base, a.cap} \subseteq Int

VARIABLES
  do,           \* the run of Do
  over          \* fn succeeded or failed for good

retryVars == <<do, over>>

\* Do's defaults for arguments that are not positive.
StartDo(attempts, base, cap) ==
  [max    |-> IF attempts <= 0 THEN DefaultAttempts ELSE attempts,
   base   |-> IF base <= 0 THEN DefaultBase ELSE base,
   cap    |-> IF cap <= 0 THEN DefaultCap ELSE cap,
   calls  |-> 0, waits |-> <<>>, result |-> "none"]

\* Mutant of Backoff: the product is not capped.
BackoffUncapped(r, attempt) == r.base * 2^(attempt - 1)

Backoff(r, attempt) ==
  LET raw == r.base * 2^(attempt - 1)
      d   == IF raw > MaxDuration THEN -MaxDuration - 1 ELSE raw
  IN IF d > r.cap THEN r.cap ELSE d

\* rand.Int64N panics when its argument is not positive.
Jitters(d) == 0..(d \div 4 - 1)

\* One pass of the loop: the context is tested, fn returns (ok, fail or
\* permanent), and a failed call that is not the last one waits, unless the
\* context ends the wait.  The set of runs it may lead to.
Attempt(r, outcome, canceled) ==
  LET n == r.calls + 1
      called(res) == [r EXCEPT !.calls = n, !.result = res]
      d == Backoff(r, n)
  IN IF canceled = "before" THEN {[r EXCEPT !.result = "canceled"]}
     ELSE IF outcome = "ok" THEN {called("ok")}
     ELSE IF outcome = "permanent" THEN {called("permanent")}
     ELSE IF n = r.max THEN {called("exhausted")}
     ELSE IF Jitters(d) = {} THEN {called("panic")}
     ELSE IF canceled = "waiting" THEN {called("canceled")}
     ELSE {[called("none") EXCEPT !.waits = Append(r.waits, d + j)] : j \in Jitters(d)}

RetryInit == over = FALSE /\ \E a \in Arguments : do = StartDo(a.attempts, a.base, a.cap)

RetryStep ==
  /\ do.result = "none"
  /\ \E outcome \in {"ok", "fail", "permanent"}, canceled \in {"no", "before", "waiting"} :
       /\ do' \in Attempt(do, outcome, canceled)
       /\ over' = (canceled # "before" /\ outcome # "fail")

RetrySpec == RetryInit /\ [][RetryStep]_retryVars

Smaller(a, b) == IF a < b THEN a ELSE b

\* retry.Do calls fn at most maxAttempts times and returns after the first
\* success or permanent error.  The wait after call i is base * 2^(i-1), at most
\* cap, and less than a quarter more.  It panics only when a delay is under four
\* units or the product does not fit the duration.
RetryBacksOff ==
  LET nominal(i) == Smaller(do.base * 2^(i - 1), do.cap)
  IN /\ do.calls <= do.max
     /\ over => do.result \in {"ok", "permanent"}
     /\ Len(do.waits) < do.max
     /\ \A i \in DOMAIN do.waits : do.waits[i] >= nominal(i) /\ 4 * do.waits[i] < 5 * nominal(i)
     /\ (do.base >= 4 /\ do.cap >= 4 /\ do.base * 2^(do.max - 1) <= MaxDuration) => do.result # "panic"
==============================================================================
