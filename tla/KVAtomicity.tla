---------------------------- MODULE KVAtomicity ----------------------------
(***************************************************************************)
(* The store of KV, used by one client and without snapshots, implements   *)
(* AtomicKV.  While the process is up the abstract map is st.entries.      *)
(* While it is down, or reading its journal, the abstract map is what the  *)
(* journal will produce; a write that was journaled but not yet applied    *)
(* takes effect at the crash.                                              *)
(***************************************************************************)
EXTENDS KV

\* One client, no peers, a disk that works, and fewer calls than make the first
\* snapshot due.
ASSUME SequentialAssumption ==
  /\ \E c \in Clients : Clients = {c}
  /\ CfgPeers \subseteq {Self} /\ PeerIDs = {}
  /\ MaxFaults = 0 /\ MaxOps < SnapEvery

\* The place of the last entry about the key among the first n of the journal
\* j; none if there is none.
LastOf(j, k, n) == {i \in 1..n : j[i].key = k /\ \A l \in (i + 1)..n : j[l].key # k}

\* What recover() makes of the first n entries of the journal j.  Their indices
\* ascend (AtomicInv in AtomicityProofs), so applyLocked lets all of them through.
Replay(j, n) ==
  [k \in Keys |->
     IF \E i \in LastOf(j, k, n) : j[i].op = "put"
     THEN LET i == CHOOSE i \in LastOf(j, k, n) : TRUE
          IN [value |-> j[i].value, version |-> j[i].version]
     ELSE Nil]

Replayed == Replay(journal, Len(journal))

Abstract == INSTANCE AtomicKV WITH kv <- IF status = "up" THEN entries ELSE Replayed

\* Every step of the store is one atomic write of AtomicKV or invisible, and
\* crashes lose nothing that was visible: Put, Delete, CompareAndSwap, the
\* journal and recover() together implement the interface.
ImplementsAtomicKV == Abstract!Spec
=============================================================================
