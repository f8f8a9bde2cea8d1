------------------------------ MODULE AtomicKV ------------------------------
(***************************************************************************)
(* What the interface db.KV promises (internal/primitives/db/kv.go): a map *)
(* in which each write takes effect in one step, gives a key that is there *)
(* the next version, and is never undone by a crash.                       *)
(***************************************************************************)
EXTENDS Naturals

CONSTANTS Keys, Values, Nil

VARIABLE kv

Init == kv = [k \in Keys |-> Nil]

\* Put, and CompareAndSwap when the version matches.  Which version a key gets
\* when it is written again after a Delete is left open: the interface speaks of
\* a "monotonically increasing per-key revision" (kv.go:30), the store starts
\* again at 1.
Write(k, v) ==
  /\ kv' = [kv EXCEPT ![k] = kv'[k]]
  /\ kv'[k] # Nil /\ kv'[k].value = v
  /\ IF kv[k] = Nil THEN kv'[k].version > 0 ELSE kv'[k].version = kv[k].version + 1

Delete(k) == kv' = [kv EXCEPT ![k] = Nil]

Next == \E k \in Keys : Delete(k) \/ \E v \in Values : Write(k, v)

Spec == Init /\ [][Next]_kv
=============================================================================
