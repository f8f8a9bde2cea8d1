------------------------------ MODULE KVProofs ------------------------------
(***************************************************************************)
(* Proofs about KV for every value of its constants: any number of         *)
(* clients, keys, values, peers, crashes, faults and any snapshot period.  *)
(***************************************************************************)
EXTENDS KV, FiniteSetTheorems, TLAPS

\* Applying an entry to a map gives a map.
LEMMA AppliedType ==
  ASSUME NEW m \in Map, NEW e \in LogEntry
  PROVE  Applied(m, e) \in Map
  BY Zenon DEF Map, Entry, LogEntry, Applied

\* The list a process starts with is a sequence that has Self in it.
LEMMA ConfiguredPeers ==
  ASSUME NEW s \in Configured
  PROVE  /\ s \in Seq(CfgPeers \cup PeerIDs \cup {Self})
         /\ \E i \in DOMAIN s : s[i] = Self
  <1>. DEFINE ids == CfgPeers \cup {Self}
              n   == Cardinality(ids)
  <1>1. n \in Nat
    <2>1. IsFiniteSet(ids)  BY ZenonT(30), KVAssumption, FS_Union, FS_Singleton
    <2>. QED  BY Zenon, <2>1, FS_CardinalityType
  <1>2. s \in [1..n -> ids] /\ \E i \in 1..n : s[i] = Self
    BY Zenon DEF Configured
  <1>. HIDE DEF n
  <1>3. s \in Seq(CfgPeers \cup PeerIDs \cup {Self})  BY <1>1, <1>2
  <1>. QED  BY Zenon, <1>2, <1>3

\* Natural numbers are integers.
LEMMA IntFacts == 1 \in Int /\ \A n \in Nat : n \in Int
  OBVIOUS

\* The list of peers is finite, so acks and Need are numbers.
LEMMA PeersFinite ==
  ASSUME TypeOK
  PROVE  /\ Len(peers) \in Nat /\ DOMAIN peers = 1..Len(peers)
         /\ \A R \in SUBSET DOMAIN peers : Cardinality(R) \in Nat
  <1>1. Len(peers) \in Nat /\ DOMAIN peers = 1..Len(peers)  BY DEF TypeOK
  <1>2. IsFiniteSet(DOMAIN peers)  BY Zenon, <1>1, FS_Interval, IntFacts
  <1>. QED  BY Zenon, <1>1, <1>2, FS_Subset, FS_CardinalityType

\* The initial state is well typed.
LEMMA TypeInit == Init => TypeOK
  <1>. SUFFICES ASSUME Init PROVE TypeOK
    OBVIOUS
  <1>1. entries \in Map  BY Zenon DEF Init, EmptyMap, Map
  <1>2. pc \in [Clients -> Sections] /\ req \in [Clients -> LogEntry \cup {Nil}]
        /\ acks \in [Clients -> Nat] /\ \A p \in Clients : pc[p] = "idle"
    BY Zenon DEF Init, Sections
  <1>3. log \in Seq(LogEntry) /\ journal \in Seq(LogEntry)
    BY DEF Init
  <1>4. peers \in Seq(CfgPeers \cup PeerIDs \cup {Self})  BY Zenon, ConfiguredPeers DEF Init
  <1>. QED  BY ZenonT(30), <1>1, <1>2, <1>3, <1>4 DEF Init, TypeOK

\* A call that is under way has an index.
LEMMA IndexNat ==
  ASSUME TypeOK, NEW p \in Clients, pc[p] # "idle"
  PROVE  req[p].index \in Nat
  BY Zenon DEF TypeOK, LogEntry

\* The steps of a call keep the types.
LEMMA TypeIssue ==
  ASSUME TypeOK, NEW p \in Clients, NEW op \in {"put", "del"}, NEW k \in Keys,
         NEW v \in Values \cup {Nil}, NEW ver \in Nat, Issue(p, op, k, v, ver)
  PROVE  TypeOK'
  <1>1. [index |-> 0, term |-> 0, op |-> op, key |-> k, value |-> v, version |-> ver] \in LogEntry
    BY Zenon DEF LogEntry
  <1>. QED
    BY <1>1, SMTT(60) DEF TypeOK, Issue, Goto, Sections, mem, proc, runner, disk, hist

\* Starting Put, Delete or CompareAndSwap keeps the types.
LEMMA TypeBegin == ASSUME TypeOK, NEW p \in Clients, Begin(p) PROVE TypeOK'
  <1>1. \A k \in Keys : NextVersion(k) \in Nat
    BY NilAssumption DEF TypeOK, Map, Entry, NextVersion
  <1>2. ASSUME NEW k \in Keys, NEW v \in Values, BeginPut(p, k, v) PROVE TypeOK'
    BY Zenon, <1>1, <1>2, TypeIssue DEF BeginPut
  <1>3. ASSUME NEW k \in Keys, BeginDelete(p, k) PROVE TypeOK'
    BY Zenon, <1>3, TypeIssue DEF BeginDelete
  <1>4. ASSUME NEW k \in Keys, NEW v \in Values, NEW x \in 0..MaxOps, BeginCAS(p, k, v, x)
        PROVE  TypeOK'
    <2>1. x + 1 \in Nat  BY KVAssumption
    <2>. QED  BY Zenon, <1>4, <2>1, TypeIssue DEF BeginCAS
  <1>5. ASSUME NEW k \in Keys, NEW x \in 0..MaxOps, CASMismatch(p, k, x) PROVE TypeOK'
    BY <1>5 DEF CASMismatch, TypeOK, mem, proc, client, runner, disk, hist
  <1>. QED  BY Zenon, <1>2, <1>3, <1>4, <1>5 DEF Begin

\* Every critical section of a call keeps the types.
LEMMA TypeStep == ASSUME TypeOK, NEW p \in Clients, Step(p) PROVE TypeOK'
  <1>. USE DEF TypeOK, Goto, Return, Sections, mem, proc, client, runner, disk, hist, budget
  <1>1. CASE AppendLog(p)
    <2>. DEFINE term == Max2(currentTerm, 1)
                e    == Stamped(req[p], Len(log) + 1, term)
    <2>1. term \in Nat  BY Zenon DEF Max2
    <2>2. e \in LogEntry  BY <1>1, <2>1 DEF AppendLog, LogEntry, Stamped
    <2>3. currentTerm' = term /\ log' = Append(log, e) /\ req' = [req EXCEPT ![p] = e]
      BY Zenon, <1>1 DEF AppendLog
    <2>4. log' \in Seq(LogEntry)  BY <2>2, <2>3
    <2>. HIDE DEF term, e
    <2>. QED  BY <1>1, <2>1, <2>2, <2>3, <2>4 DEF AppendLog
  <1>2. CASE JournalWrite(p)  BY <1>2 DEF JournalWrite
  <1>3. CASE JournalClosed(p)  BY <1>3 DEF JournalClosed
  <1>4. CASE JournalFault(p)
    <2>1. req[p] \in LogEntry  BY Zenon, <1>4 DEF JournalFault
    <2>2. CASE UNCHANGED <<journal, journaled>>  BY <1>4, <2>2 DEF JournalFault
    <2>3. CASE /\ journal' = Append(journal, req[p])
               /\ journaled' = journaled \cup {req[p]}
      BY <1>4, <2>1, <2>3 DEF JournalFault
    <2>. QED  BY Zenon, <1>4, <2>2, <2>3 DEF JournalFault
  <1>5. CASE CommitAlone(p)  BY <1>5, IndexNat DEF CommitAlone
  <1>6. CASE Dial(p)
    <2>1. PICK R \in SUBSET {i \in DOMAIN peers : peers[i] # Self} :
            acks' = [acks EXCEPT ![p] = Cardinality(R) + (IF Places(Self) # {} THEN 1 ELSE 0)]
      BY ZenonT(30), <1>6 DEF Dial, ReplicateTo
    <2>2. Cardinality(R) \in Nat  BY Zenon, PeersFinite
    <2>3. acks' \in [Clients -> Nat]  BY <2>1, <2>2
    <2>. QED  BY <1>6, <2>3 DEF Dial
  <1>7. CASE AwaitQuorum(p)
    <2>1. Max2(commitIndex, req[p].index) \in Nat  BY Zenon, <1>7, IndexNat DEF AwaitQuorum, Max2
    <2>. QED  BY <1>7, <2>1 DEF AwaitQuorum
  <1>8. CASE AwaitTimeout(p)  BY <1>8 DEF AwaitTimeout
  <1>9. CASE ApplyClaim(p)  BY <1>9, IndexNat DEF ApplyClaim
  <1>10. CASE ApplySkip(p)  BY <1>10 DEF ApplySkip
  <1>11. CASE ApplyStore(p)
    <2>1. entries' \in Map  BY Zenon, <1>11, AppliedType DEF ApplyStore
    <2>. QED  BY <1>11, <2>1 DEF ApplyStore
  <1>12. CASE Notify(p)  BY <1>12 DEF Notify
  <1>13. CASE Reply(p)  BY <1>13 DEF Reply
  <1>14. CASE CommitGroup(p)  BY <1>14 DEF CommitGroup
  <1>15. CASE MakeAcks(p)  BY <1>15, PeersFinite DEF MakeAcks
  <1>16. CASE DialStuck(p)  BY <1>16 DEF DialStuck
  <1>17. CASE CountNeed(p)  BY <1>17 DEF CountNeed
  <1>. QED
    BY Zenon, <1>1, <1>2, <1>3, <1>4, <1>5, <1>6, <1>7, <1>8, <1>9, <1>10, <1>11, <1>12,
       <1>13, <1>14, <1>15, <1>16, <1>17 DEF Step

\* The steps of run() and snapshot() keep the types.
LEMMA TypeLoop == ASSUME TypeOK, Loop PROVE TypeOK'
  <1>. USE DEF TypeOK, mem, proc, client, disk, hist, budget
  <1>1. CASE LoopWake  BY ZenonT(30), <1>1 DEF LoopWake
  <1>2. CASE ElectionTimeout  BY <1>2 DEF ElectionTimeout
  <1>3. CASE LoopStop  BY Zenon, <1>3 DEF LoopStop
  <1>4. CASE LoopCheck  BY <1>4 DEF LoopCheck
  <1>5. CASE SnapCopy
    <2>1. image' \in Image  BY Zenon, <1>5 DEF SnapCopy, Image
    <2>. QED  BY Zenon, <1>5, <2>1 DEF SnapCopy
  <1>6. CASE SnapCloseJournal  BY ZenonT(30), <1>6 DEF SnapCloseJournal
  <1>7. CASE SnapRename  BY Zenon, <1>7 DEF SnapRename
  <1>8. CASE SnapReopen  BY <1>8 DEF SnapReopen
  <1>9. CASE SnapFault  BY <1>9 DEF SnapFault
  <1>. QED
    BY Zenon, <1>1, <1>2, <1>3, <1>4, <1>5, <1>6, <1>7, <1>8, <1>9 DEF Loop

\* A process that dies leaves well-typed memory behind.
LEMMA TypeDie ==
  ASSUME TypeOK, Die, torn' \in BOOLEAN,
         UNCHANGED <<journal, snap, hist>>, ops' \in Nat, crashes' \in Nat,
         faults' \in Nat, closes' \in Nat
  PROVE  TypeOK'
  <1>1. entries' \in Map  BY Zenon DEF Die, EmptyMap, Map
  <1>2. pc' \in [Clients -> Sections] /\ req' \in [Clients -> LogEntry \cup {Nil}]
        /\ acks' \in [Clients -> Nat] /\ \A p \in Clients : pc'[p] = "idle"
    BY Zenon DEF Die, Sections
  <1>3. log' \in Seq(LogEntry)  BY DEF Die
  <1>4. peers' \in Seq(CfgPeers \cup PeerIDs \cup {Self})  BY Zenon, ConfiguredPeers DEF Die
  <1>. QED  BY ZenonT(30), <1>1, <1>2, <1>3, <1>4 DEF Die, TypeOK, hist

\* The entry recover reads next.
LEMMA JournalEntry ==
  ASSUME TypeOK, status = "recovering", pos <= Len(journal)
  PROVE  pos \in DOMAIN journal /\ journal[pos] \in LogEntry
  BY DEF TypeOK

\* One turn of recover keeps the types.
LEMMA TypeRecoverEntry == ASSUME TypeOK, RecoverEntry PROVE TypeOK'
  <1>. DEFINE e == journal[pos]
              fresh == e.index > lastApplied
  <1>1. e \in LogEntry  BY Zenon, JournalEntry DEF RecoverEntry
  <1>2. e.index \in Nat /\ e.term \in Nat  BY Zenon, <1>1 DEF LogEntry
  <1>3. /\ log' = Append(log, e)
        /\ currentTerm' = Max2(currentTerm, e.term)
        /\ commitIndex' = IF Len(peers) = 1 THEN Max2(commitIndex, e.index)
                                             ELSE commitIndex
        /\ lastApplied' = Max2(lastApplied, e.index)
        /\ entries' = IF fresh THEN Applied(entries, e) ELSE entries
        /\ version' = IF fresh THEN version + 1 ELSE version
        /\ metsApplied' = IF fresh THEN metsApplied + 1 ELSE metsApplied
        /\ applyCh' = (applyCh \/ fresh)
    BY Zenon DEF RecoverEntry
  <1>. HIDE DEF e
  <1>4. log' \in Seq(LogEntry)  BY <1>1, <1>3 DEF TypeOK
  <1>5. currentTerm' \in Nat /\ commitIndex' \in Nat /\ lastApplied' \in Nat
    BY Zenon, <1>2, <1>3 DEF TypeOK, Max2
  <1>6. entries' \in Map  BY Zenon, <1>1, <1>3, AppliedType DEF TypeOK
  <1>7. version' \in Nat /\ metsApplied' \in Nat  BY <1>3 DEF TypeOK
  <1>8. applyCh' \in BOOLEAN  BY Zenon, <1>3 DEF TypeOK
  <1>10. pos' \in Nat /\ pos' > 0  BY DEF RecoverEntry, TypeOK
  <1>11. UNCHANGED <<peers, status, closed, dropped, client, runner, disk, journaled, acked, budget>>
    BY Zenon DEF RecoverEntry
  <1>. QED
    BY <1>4, <1>5, <1>6, <1>7, <1>8, <1>10, <1>11
    DEF TypeOK, client, runner, disk, budget

\* openRaft and recover keep the types.
LEMMA TypeRecovery == ASSUME TypeOK, Recovery PROVE TypeOK'
  <1>1. CASE Open
    BY <1>1 DEF Open, TypeOK, mem, client, runner, hist, budget
  <1>2. CASE RecoverEntry  BY Zenon, <1>2, TypeRecoverEntry
  <1>3. CASE RecoverFail
    BY Zenon, <1>3, TypeDie DEF RecoverFail, TypeOK, budget
  <1>4. CASE RecoverDone
    <2>1. /\ entries' \in Map /\ version' \in Nat
          /\ commitIndex' \in Nat /\ lastApplied' \in Nat
      BY Zenon, <1>4 DEF RecoverDone, TypeOK, Image
    <2>2. currentTerm' \in Nat  BY Zenon, <1>4 DEF RecoverDone, TypeOK, Max2
    <2>. QED
      BY Zenon, <1>4, <2>1, <2>2 DEF RecoverDone, TypeOK, client, disk, hist, budget
  <1>. QED  BY Zenon, <1>1, <1>2, <1>3, <1>4 DEF Recovery

\* Every step keeps the types.
LEMMA TypeNext == TypeOK /\ [Next]_vars => TypeOK'
  <1>. SUFFICES ASSUME TypeOK, [Next]_vars PROVE TypeOK'
    OBVIOUS
  <1>1. ASSUME NEW p \in Clients, Begin(p) PROVE TypeOK'  BY Zenon, <1>1, TypeBegin
  <1>2. ASSUME NEW p \in Clients, Step(p) PROVE TypeOK'  BY Zenon, <1>2, TypeStep
  <1>3. CASE Loop  BY Zenon, <1>3, TypeLoop
  <1>4. CASE Recovery  BY Zenon, <1>4, TypeRecovery
  <1>5. CASE Close
    <2>1. closed' \in BOOLEAN /\ journalOpen' \in BOOLEAN
      BY <1>5, Zenon DEF Close
    <2>2. closes' \in Nat
      BY <1>5 DEF Close, TypeOK
    <2>3. UNCHANGED <<mem, status, pos, dropped, client, runner, journal, torn, snap, hist,
                      ops, crashes, faults>>
      BY Zenon, <1>5 DEF Close
    <2>. QED  BY <2>1, <2>2, <2>3 DEF TypeOK, mem, client, runner, hist
  <1>6. CASE Crash
    <2>1. torn' \in BOOLEAN  BY Zenon, <1>6 DEF Crash, TypeOK
    <2>2. Die /\ UNCHANGED <<journal, snap, hist>>  BY Zenon, <1>6 DEF Crash
    <2>3. ops' \in Nat /\ crashes' \in Nat /\ faults' \in Nat /\ closes' \in Nat
      BY <1>6 DEF Crash, TypeOK
    <2>. QED  BY Zenon, <2>1, <2>2, <2>3, TypeDie
  <1>7. ASSUME NEW id \in PeerIDs, AddPeer(id) \/ RemovePeer(id) PROVE TypeOK'
    <2>1. CASE AddPeer(id)
      <3>1. peers' \in Seq(CfgPeers \cup PeerIDs \cup {Self})
        BY <2>1 DEF AddPeer, TypeOK
      <3>. QED
        BY <2>1, <3>1, SMTT(30) DEF AddPeer, TypeOK, proc, client, runner, disk, hist, budget
    <2>2. CASE RemovePeer(id)
      <3>1. PICK i \in Places(id) :
               peers' = [j \in 1..(Len(peers) - 1) |-> IF j < i THEN peers[j] ELSE peers[j + 1]]
        BY Zenon, <2>2 DEF RemovePeer
      <3>2. i \in 1..Len(peers) /\ Len(peers) \in Nat  BY Zenon, <3>1, PeersFinite DEF Places
      <3>3. peers' \in Seq(CfgPeers \cup PeerIDs \cup {Self})
        BY <3>1, <3>2 DEF TypeOK
      <3>4. dropped' \in BOOLEAN  BY Zenon, <2>2 DEF RemovePeer, TypeOK
      <3>. QED
        BY <2>2, <3>3, <3>4, SMTT(30) DEF RemovePeer, TypeOK, client, runner, disk, hist, budget
    <2>. QED  BY Zenon, <1>7, <2>1, <2>2
  <1>8. CASE UNCHANGED vars
    BY <1>8, SMTT(30) DEF vars, TypeOK, mem, proc, client, runner, disk, hist, budget
  <1>. QED  BY Zenon, <1>1, <1>2, <1>3, <1>4, <1>5, <1>6, <1>7, <1>8 DEF Next

\* The store is well typed in every reachable state: in particular a call that
\* is under way always has a log entry, and recover always reads inside the
\* journal.
THEOREM TypeCorrect == Spec => []TypeOK
  BY TypeInit, TypeNext, PTL DEF Spec
-----------------------------------------------------------------------------
(***************************************************************************)
(* Write-ahead                                                             *)
(***************************************************************************)
\* More log entries justify at least as much.
LEMMA WrittenMonotone ==
  ASSUME NEW m, NEW J, NEW K, J \subseteq K, AllWrittenBy(J, m)
  PROVE  AllWrittenBy(K, m)
  BY Zenon DEF AllWrittenBy

\* Applying one of the entries keeps the map justified.
LEMMA WrittenApplied ==
  ASSUME NEW m \in Map, NEW J, NEW e \in LogEntry, e \in J, AllWrittenBy(J, m)
  PROVE  AllWrittenBy(J, Applied(m, e))
  <1>. SUFFICES ASSUME NEW k \in Keys, Applied(m, e)[k] # Nil
                PROVE  \E j \in J : /\ j.op = "put" /\ j.key = k
                                    /\ j.value = Applied(m, e)[k].value
                                    /\ j.version = Applied(m, e)[k].version
    BY Zenon DEF AllWrittenBy
  <1>1. CASE k = e.key
    BY Zenon, <1>1 DEF Applied, Map, LogEntry
  <1>2. CASE k # e.key
    BY Zenon, <1>2 DEF Applied, Map, LogEntry, AllWrittenBy
  <1>. QED  BY Zenon, <1>1, <1>2

\* The empty map needs no log entry.
LEMMA WrittenEmpty == \A J : AllWrittenBy(J, EmptyMap)
  BY Zenon DEF AllWrittenBy, EmptyMap

\* A process that dies keeps the invariant: it only holds less.
LEMMA WriteAheadDie ==
  ASSUME WriteAheadInv, Die, UNCHANGED <<journal, snap, hist>>
  PROVE  WriteAheadInv'
  BY Zenon, WrittenEmpty DEF WriteAheadInv, WriteAhead, Die, hist

\* Every critical section of a call keeps the write-ahead invariant.
LEMMA WriteAheadStep ==
  ASSUME TypeOK, WriteAheadInv, NEW p \in Clients, Step(p)
  PROVE  WriteAheadInv'
  <1>. USE DEF WriteAheadInv, WriteAhead, Goto, Return, mem, runner, disk, hist
  <1>0. pc \in [Clients -> Sections] /\ req \in [Clients -> LogEntry \cup {Nil}]
    BY Zenon DEF TypeOK
  <1>1. CASE AppendLog(p)  BY Zenon, <1>0, <1>1 DEF AppendLog
  <1>2. ASSUME pc[p] = "journal", journal' = Append(journal, req[p]),
               journaled' = journaled \cup {req[p]}
        PROVE  /\ \A i \in DOMAIN journal' : journal'[i] \in journaled'
               /\ AllWrittenBy(journaled', entries)
               /\ image # Nil => AllWrittenBy(journaled', image.state)
               /\ snap # Nil => AllWrittenBy(journaled', snap.state)
    <2>1. req[p] \in LogEntry /\ journal \in Seq(LogEntry)  BY Zenon, <1>2 DEF TypeOK
    <2>2. \A i \in DOMAIN journal' : journal'[i] \in journaled'  BY SMTT(30), <1>2, <2>1
    <2>3. journaled \subseteq journaled'  BY Zenon, <1>2
    <2>. QED  BY Zenon, <2>2, <2>3, WrittenMonotone
  <1>3. CASE JournalWrite(p)  BY Zenon, <1>0, <1>2, <1>3 DEF JournalWrite
  <1>4. CASE JournalClosed(p)  BY Zenon, <1>0, <1>4 DEF JournalClosed
  <1>5. CASE JournalFault(p)
    <2>1. CASE UNCHANGED <<journal, journaled>>  BY Zenon, <1>0, <1>5, <2>1 DEF JournalFault
    <2>2. CASE /\ journal' = Append(journal, req[p])
               /\ journaled' = journaled \cup {req[p]}
      BY Zenon, <1>0, <1>2, <1>5, <2>2 DEF JournalFault
    <2>. QED  BY Zenon, <1>5, <2>1, <2>2 DEF JournalFault
  <1>6. CASE CommitAlone(p)  BY Zenon, <1>0, <1>6 DEF CommitAlone
  <1>7. CASE Dial(p)  BY Zenon, <1>0, <1>7 DEF Dial
  <1>8. CASE AwaitQuorum(p)  BY Zenon, <1>0, <1>8 DEF AwaitQuorum
  <1>9. CASE AwaitTimeout(p)  BY Zenon, <1>0, <1>9 DEF AwaitTimeout
  <1>10. CASE ApplyClaim(p)  BY Zenon, <1>0, <1>10 DEF ApplyClaim
  <1>11. CASE ApplySkip(p)  BY Zenon, <1>0, <1>11 DEF ApplySkip
  <1>12. CASE ApplyStore(p)
    <2>1. entries \in Map /\ req[p] \in LogEntry /\ req[p] \in journaled
      BY ZenonT(30), <1>12 DEF ApplyStore, TypeOK
    <2>2. AllWrittenBy(journaled, entries')
      BY Zenon, <1>12, <2>1, WrittenApplied DEF ApplyStore
    <2>. QED  BY Zenon, <1>0, <1>12, <2>2 DEF ApplyStore
  <1>13. CASE Notify(p)  BY Zenon, <1>0, <1>13 DEF Notify
  <1>14. CASE Reply(p)  BY Zenon, <1>0, <1>14 DEF Reply
  <1>15. CASE CommitGroup(p)  BY Zenon, <1>0, <1>15 DEF CommitGroup
  <1>16. CASE MakeAcks(p)  BY Zenon, <1>0, <1>16 DEF MakeAcks
  <1>17. CASE DialStuck(p)  BY Zenon, <1>0, <1>17 DEF DialStuck
  <1>18. CASE CountNeed(p)  BY Zenon, <1>0, <1>18 DEF CountNeed
  <1>. QED
    BY Zenon, <1>1, <1>3, <1>4, <1>5, <1>6, <1>7, <1>8, <1>9, <1>10, <1>11, <1>12, <1>13,
       <1>14, <1>15, <1>16, <1>17, <1>18 DEF Step

\* The steps of run() and snapshot() keep the write-ahead invariant.
LEMMA WriteAheadLoop == ASSUME WriteAheadInv, Loop PROVE WriteAheadInv'
  <1>. USE DEF WriteAheadInv, WriteAhead, mem, client, disk, hist
  <1>1. CASE LoopWake  BY Zenon, <1>1 DEF LoopWake
  <1>2. CASE ElectionTimeout  BY Zenon, <1>2 DEF ElectionTimeout
  <1>3. CASE LoopStop  BY Zenon, <1>3 DEF LoopStop
  <1>4. CASE LoopCheck  BY Zenon, <1>4 DEF LoopCheck
  <1>5. CASE SnapCopy  BY Zenon, <1>5 DEF SnapCopy
  <1>6. CASE SnapCloseJournal  BY Zenon, <1>6 DEF SnapCloseJournal
  <1>7. CASE SnapRename  BY Zenon, <1>7 DEF SnapRename
  <1>8. CASE SnapReopen
    <2>1. journal' = <<>>  BY Zenon, <1>8 DEF SnapReopen
    <2>2. UNCHANGED <<entries, pc, req, image, snap, journaled, acked>>  BY Zenon, <1>8 DEF SnapReopen
    <2>3. \A i \in DOMAIN journal' : journal'[i] \in journaled'  BY SMTT(30), <2>1
    <2>. QED  BY Zenon, <2>2, <2>3
  <1>9. CASE SnapFault  BY Zenon, <1>9 DEF SnapFault
  <1>. QED
    BY Zenon, <1>1, <1>2, <1>3, <1>4, <1>5, <1>6, <1>7, <1>8, <1>9 DEF Loop

\* openRaft and recover keep the write-ahead invariant.
LEMMA WriteAheadRecovery ==
  ASSUME TypeOK, WriteAheadInv, Recovery PROVE WriteAheadInv'
  <1>. USE DEF WriteAheadInv, WriteAhead, mem, client, runner, disk, hist
  <1>1. CASE Open  BY Zenon, <1>1 DEF Open
  <1>2. CASE RecoverEntry
    <2>1. journal[pos] \in LogEntry /\ journal[pos] \in journaled
      <3>1. status = "recovering" /\ pos <= Len(journal)  BY Zenon, <1>2 DEF RecoverEntry
      <3>2. pos \in DOMAIN journal /\ journal[pos] \in LogEntry  BY Zenon, <3>1, JournalEntry
      <3>. QED  BY Zenon, <3>2
    <2>2. entries' = entries \/ entries' = Applied(entries, journal[pos])
      BY Zenon, <1>2 DEF RecoverEntry
    <2>3. AllWrittenBy(journaled, entries')
      BY Zenon, <2>1, <2>2, WrittenApplied DEF TypeOK
    <2>. QED  BY Zenon, <1>2, <2>3 DEF RecoverEntry
  <1>3. CASE RecoverFail  BY Zenon, <1>3, WriteAheadDie DEF RecoverFail
  <1>4. CASE RecoverDone  BY Zenon, <1>4 DEF RecoverDone
  <1>. QED  BY Zenon, <1>1, <1>2, <1>3, <1>4 DEF Recovery

\* Every step keeps the write-ahead invariant.
LEMMA WriteAheadNext == TypeOK /\ WriteAheadInv /\ [Next]_vars => WriteAheadInv'
  <1>. SUFFICES ASSUME TypeOK, WriteAheadInv, [Next]_vars PROVE WriteAheadInv'
    OBVIOUS
  <1>. USE DEF WriteAheadInv, WriteAhead, mem, client, runner, disk, hist
  <1>1. ASSUME NEW p \in Clients, Begin(p) PROVE WriteAheadInv'
    <2>1. UNCHANGED <<mem, runner, disk, hist>>
      BY Zenon, <1>1 DEF Begin, BeginPut, BeginDelete, BeginCAS, CASMismatch, Issue
    <2>2. \A q \in Clients : q # p => pc'[q] = pc[q] /\ req'[q] = req[q]
      BY ZenonT(60), <1>1 DEF Begin, BeginPut, BeginDelete, BeginCAS, CASMismatch, Issue, Goto, TypeOK
    <2>3. pc'[p] \in {"idle", "append"}
      BY Zenon, <1>1 DEF Begin, BeginPut, BeginDelete, BeginCAS, CASMismatch, CanCall, Issue, Goto, TypeOK
    <2>. QED  BY Zenon, <2>1, <2>2, <2>3
  <1>2. ASSUME NEW p \in Clients, Step(p) PROVE WriteAheadInv'  BY Zenon, <1>2, WriteAheadStep
  <1>3. CASE Loop  BY Zenon, <1>3, WriteAheadLoop
  <1>4. CASE Recovery  BY Zenon, <1>4, WriteAheadRecovery
  <1>5. CASE Close  BY Zenon, <1>5 DEF Close
  <1>6. CASE Crash  BY Zenon, <1>6, WriteAheadDie DEF Crash
  <1>7. ASSUME NEW id \in PeerIDs, AddPeer(id) \/ RemovePeer(id) PROVE WriteAheadInv'
    BY Zenon, <1>7 DEF AddPeer, RemovePeer
  <1>8. CASE UNCHANGED vars  BY Zenon, <1>8 DEF vars
  <1>. QED  BY Zenon, <1>1, <1>2, <1>3, <1>4, <1>5, <1>6, <1>7, <1>8 DEF Next

\* kv.go promises that "every write is durably journaled before being
\* applied".  It holds for every number of concurrent writers, crashes, disk
\* faults and snapshots: no reader ever sees, and no caller is ever told of, a
\* write that was not in the journal first.
THEOREM WriteAheadHolds == Spec => []WriteAhead
  <1>1. Init => WriteAheadInv
    BY WrittenEmpty DEF Init, WriteAheadInv, WriteAhead
  <1>2. WriteAheadInv => WriteAhead
    BY Zenon DEF WriteAheadInv
  <1>. QED  BY <1>1, <1>2, WriteAheadNext, TypeCorrect, PTL DEF Spec
-----------------------------------------------------------------------------
(***************************************************************************)
(* Revisions                                                               *)
(***************************************************************************)
\* The number of calls inside applyLocked is a natural number.
LEMMA ClaimingFinite == IsFiniteSet(Claiming) /\ Cardinality(Claiming) \in Nat
  <1>1. IsFiniteSet(Claiming)  BY Zenon, KVAssumption, FS_Subset DEF Claiming
  <1>. QED  BY Zenon, <1>1, FS_CardinalityType

\* A step that neither claims an index nor applies one, and under which
\* version and lastApplied stay, keeps the invariant.
LEMMA RevisionFrame ==
  ASSUME TypeOK, RevisionInv, NEW p \in Clients, NEW l \in Sections \ {"apply"},
         pc[p] # "apply", l \in {"notify", "reply"} => req[p].index <= lastApplied,
         pc' = [pc EXCEPT ![p] = l],
         \A q \in Clients \ {p} : req'[q] = req[q],
         l # "idle" => req'[p].index = req[p].index \/ l \in {"append", "journal"},
         status = "up" \/ l = "idle",
         UNCHANGED <<version, lastApplied, status>>
  PROVE  RevisionInv'
  <1>1. Claiming' = Claiming  BY Zenon DEF Claiming, TypeOK
  <1>2. RevisionBound'  BY Zenon, <1>1 DEF RevisionInv, RevisionBound
  <1>3. RepliesCovered'  BY Zenon DEF RevisionInv, RepliesCovered, TypeOK
  <1>4. (status # "up" => \A q \in Clients : pc[q] = "idle")'
    BY Zenon DEF RevisionInv, TypeOK
  <1>. QED  BY Zenon, <1>2, <1>3, <1>4 DEF RevisionInv

\* A call that is under way runs in a process that is up.
LEMMA CallsNeedUp ==
  ASSUME RevisionInv, NEW p \in Clients, pc[p] # "idle"
  PROVE  status = "up"
  BY Zenon DEF RevisionInv

\* Every critical section of a call keeps the revision invariant.
LEMMA RevisionStep ==
  ASSUME TypeOK, RevisionInv, NEW p \in Clients, Step(p)
  PROVE  RevisionInv'
  <1>0. pc \in [Clients -> Sections] /\ req \in [Clients -> LogEntry \cup {Nil}]
        /\ version \in Nat /\ lastApplied \in Nat
    BY Zenon DEF TypeOK
  <1>1. CASE AppendLog(p)
    BY ZenonT(30), <1>0, <1>1, CallsNeedUp, RevisionFrame DEF AppendLog, Goto, Sections, proc
  <1>2. CASE JournalWrite(p)
    BY Zenon, <1>0, <1>2, CallsNeedUp, RevisionFrame DEF JournalWrite, Goto, Sections, mem, proc
  <1>3. CASE JournalClosed(p)
    BY Zenon, <1>0, <1>3, CallsNeedUp, RevisionFrame DEF JournalClosed, Return, Goto, Sections, mem, proc
  <1>4. CASE JournalFault(p)
    BY Zenon, <1>0, <1>4, CallsNeedUp, RevisionFrame DEF JournalFault, Return, Goto, Sections, mem, proc
  <1>5. CASE CommitAlone(p)
    BY Zenon, <1>0, <1>5, CallsNeedUp, RevisionFrame DEF CommitAlone, Goto, Sections, proc
  <1>6. CASE Dial(p)
    BY Zenon, <1>0, <1>6, CallsNeedUp, RevisionFrame DEF Dial, Goto, Sections, mem, proc
  <1>7. CASE AwaitQuorum(p)
    BY Zenon, <1>0, <1>7, CallsNeedUp, RevisionFrame DEF AwaitQuorum, Goto, Sections, proc
  <1>8. CASE AwaitTimeout(p)
    BY ZenonT(30), <1>0, <1>8, CallsNeedUp, RevisionFrame DEF AwaitTimeout, Return, Goto, Sections, mem, proc
  <1>9. CASE ApplyClaim(p)
    <2>1. status' = "up"  BY ZenonT(30), <1>9, CallsNeedUp DEF ApplyClaim, proc
    <2>2. req[p].index \in Nat /\ lastApplied' = req[p].index /\ lastApplied' > lastApplied
      BY Zenon, <1>9, IndexNat DEF ApplyClaim
    <2>3. Claiming' = Claiming \cup {p} /\ p \notin Claiming
      BY Zenon, <1>0, <1>9 DEF ApplyClaim, Goto, Claiming
    <2>4. Cardinality(Claiming') = Cardinality(Claiming) + 1
      BY Zenon, <2>3, ClaimingFinite, FS_AddElement
    <2>5. RevisionBound'
      BY <1>0, <1>9, <2>2, <2>4, ClaimingFinite DEF ApplyClaim, RevisionInv, RevisionBound
    <2>6. ASSUME NEW q \in Clients, pc'[q] \in {"apply", "notify", "reply"}
          PROVE  req'[q].index <= lastApplied'
      <3>1. CASE q = p
        <4>1. req' = req /\ lastApplied' = req[p].index  BY Zenon, <1>9 DEF ApplyClaim
        <4>2. \A n \in Nat : n <= n  BY SMTT(30)
        <4>. QED  BY Zenon, <2>2, <3>1, <4>1, <4>2
      <3>2. CASE q # p
        <4>1. pc[q] = pc'[q] /\ req'[q] = req[q]  BY Zenon, <1>0, <1>9, <3>2 DEF ApplyClaim, Goto
        <4>2. req[q].index \in Nat  BY Zenon, <2>6, <4>1, IndexNat
        <4>3. req[q].index <= lastApplied
          BY Zenon, <2>6, <4>1 DEF RevisionInv, RepliesCovered
        <4>4. lastApplied \in Nat /\ lastApplied' \in Nat /\ lastApplied <= lastApplied'
          BY <1>0, <2>2
        <4>5. \A a, b, c \in Nat : a <= b /\ b <= c => a <= c  BY SMTT(30)
        <4>. QED  BY Zenon, <4>1, <4>2, <4>3, <4>4, <4>5
      <3>. QED  BY Zenon, <3>1, <3>2
    <2>. QED  BY Zenon, <2>1, <2>5, <2>6 DEF RevisionInv, RepliesCovered
  <1>10. CASE ApplySkip(p)
    BY ZenonT(30), <1>0, <1>10, CallsNeedUp, RevisionFrame DEF ApplySkip, Goto, Sections, mem, proc
  <1>11. CASE ApplyStore(p)
    <2>1. status' = "up"  BY Zenon, <1>11, CallsNeedUp DEF ApplyStore, proc
    <2>2. Claiming' = Claiming \ {p} /\ p \in Claiming
      BY Zenon, <1>0, <1>11 DEF ApplyStore, Goto, Claiming
    <2>3. Cardinality(Claiming') = Cardinality(Claiming) - 1
      BY Zenon, <2>2, ClaimingFinite, FS_RemoveElement
    <2>4. RevisionBound'
      BY SMTT(30), <1>0, <1>11, <2>3, ClaimingFinite DEF ApplyStore, RevisionInv, RevisionBound
    <2>5. RepliesCovered'
      BY Zenon, <1>0, <1>11 DEF ApplyStore, Goto, RevisionInv, RepliesCovered
    <2>. QED  BY Zenon, <2>1, <2>4, <2>5 DEF RevisionInv
  <1>12. CASE Notify(p)
    <2>1. req[p].index <= lastApplied  BY ZenonT(30), <1>12 DEF Notify, RevisionInv, RepliesCovered
    <2>. QED
      BY ZenonT(30), <1>0, <1>12, <2>1, CallsNeedUp, RevisionFrame DEF Notify, Goto, Sections, proc
  <1>13. CASE Reply(p)
    BY ZenonT(30), <1>0, <1>13, CallsNeedUp, RevisionFrame DEF Reply, Return, Goto, Sections, mem, proc
  <1>14. CASE CommitGroup(p)
    BY Zenon, <1>0, <1>14, CallsNeedUp, RevisionFrame DEF CommitGroup, Goto, Sections, mem, proc
  <1>15. CASE MakeAcks(p)
    BY Zenon, <1>0, <1>15, CallsNeedUp, RevisionFrame DEF MakeAcks, Goto, Sections, mem, proc
  <1>16. CASE DialStuck(p)
    BY Zenon, <1>0, <1>16, CallsNeedUp, RevisionFrame DEF DialStuck, Goto, Sections, mem, proc
  <1>17. CASE CountNeed(p)
    <2>1. PICK l \in {"await", "late"} : Goto(p, l)  BY Zenon, <1>17 DEF CountNeed
    <2>. QED
      BY Zenon, <1>0, <1>17, <2>1, CallsNeedUp, RevisionFrame DEF CountNeed, Goto, Sections, mem, proc
  <1>. QED
    BY Zenon, <1>1, <1>2, <1>3, <1>4, <1>5, <1>6, <1>7, <1>8, <1>9, <1>10, <1>11, <1>12,
       <1>13, <1>14, <1>15, <1>16, <1>17 DEF Step

\* Without calls the bound is about version and lastApplied alone.
LEMMA RevisionIdle ==
  ASSUME TypeOK, RevisionInv, \A p \in Clients : pc[p] = "idle"
  PROVE  version <= lastApplied
  <1>1. Claiming = {}  BY Zenon DEF Claiming
  <1>2. Cardinality(Claiming) = 0  BY Zenon, <1>1, FS_EmptySet
  <1>. QED  BY SMTT(30), <1>2 DEF TypeOK, RevisionInv, RevisionBound

\* The same for the next state.
LEMMA RevisionIdleNext ==
  ASSUME \A p \in Clients : pc'[p] = "idle",
         version' \in Nat, lastApplied' \in Nat, version' <= lastApplied'
  PROVE  RevisionInv'
  <1>1. Claiming' = {}  BY Zenon DEF Claiming
  <1>2. Cardinality(Claiming') = 0  BY Zenon, <1>1, FS_EmptySet
  <1>3. \A v, l \in Nat : v <= l => v + 0 <= l  OBVIOUS
  <1>4. RevisionBound'  BY <1>2, <1>3, Zenon DEF RevisionBound
  <1>5. RepliesCovered'  BY Zenon DEF RepliesCovered
  <1>. QED  BY Zenon, <1>4, <1>5 DEF RevisionInv

\* Every step keeps the revision invariant.
LEMMA RevisionNext == TypeOK /\ RevisionInv /\ [Next]_vars => RevisionInv'
  <1>. SUFFICES ASSUME TypeOK, RevisionInv, [Next]_vars PROVE RevisionInv'
    OBVIOUS
  <1>0. ASSUME UNCHANGED <<pc, req, version, lastApplied, status>> PROVE RevisionInv'
    BY Zenon, <1>0 DEF RevisionInv, RevisionBound, RepliesCovered, Claiming
  <1>1. ASSUME NEW p \in Clients, Begin(p) PROVE RevisionInv'
    <2>1. ASSUME NEW op, NEW k, NEW v, NEW ver, status = "up", pc[p] = "idle",
                 Issue(p, op, k, v, ver)
          PROVE  RevisionInv'
      BY Zenon, <2>1, RevisionFrame DEF Issue, Goto, Sections, mem, proc, TypeOK
    <2>2. CASE \E k \in Keys : \E x \in 0..MaxOps : CASMismatch(p, k, x)
      BY Zenon, <1>0, <2>2 DEF CASMismatch, mem, proc, client
    <2>. QED  BY Zenon, <1>1, <2>1, <2>2 DEF Begin, BeginPut, BeginDelete, BeginCAS, CanCall
  <1>2. ASSUME NEW p \in Clients, Step(p) PROVE RevisionInv'  BY Zenon, <1>2, RevisionStep
  <1>3. CASE Loop
    BY Zenon, <1>0, <1>3 DEF Loop, LoopWake, ElectionTimeout, LoopStop, LoopCheck, SnapCopy,
       SnapCloseJournal, SnapRename, SnapReopen, SnapFault, mem, proc, client
  <1>4. CASE Recovery
    <2>1. CASE Open
      <3>1. \A p \in Clients : pc[p] = "idle"  BY Zenon, <2>1 DEF Open, RevisionInv
      <3>. QED
        BY Zenon, <2>1, <3>1 DEF Open, RevisionInv, RevisionBound, RepliesCovered, Claiming, mem, client
    <2>2. CASE RecoverEntry
      <3>1. \A p \in Clients : pc[p] = "idle"  BY Zenon, <2>2 DEF RecoverEntry, RevisionInv
      <3>2. \A p \in Clients : pc'[p] = "idle"  BY Zenon, <2>2, <3>1 DEF RecoverEntry, client
      <3>3. journal[pos].index \in Nat  BY Zenon, <2>2, JournalEntry DEF RecoverEntry, LogEntry
      <3>4. version <= lastApplied  BY Zenon, <3>1, RevisionIdle
      <3>5. version' \in Nat /\ lastApplied' \in Nat /\ version' <= lastApplied'
        <4>1. version \in Nat /\ lastApplied \in Nat  BY Zenon DEF TypeOK
        <4>2. lastApplied' = Max2(lastApplied, journal[pos].index)
          BY Zenon, <2>2 DEF RecoverEntry
        <4>3. version' = IF journal[pos].index > lastApplied THEN version + 1 ELSE version
          BY Zenon, <2>2 DEF RecoverEntry
        <4>. QED  BY SMTT(30), <3>3, <3>4, <4>1, <4>2, <4>3 DEF Max2
      <3>. QED  BY Zenon, <3>2, <3>5, RevisionIdleNext
    <2>3. CASE RecoverFail
      BY <2>3, RevisionIdleNext DEF RecoverFail, Die
    <2>4. CASE RecoverDone
      <3>1. \A p \in Clients : pc[p] = "idle"  BY Zenon, <2>4 DEF RecoverDone, RevisionInv
      <3>2. \A p \in Clients : pc'[p] = "idle"  BY Zenon, <2>4, <3>1 DEF RecoverDone, client
      <3>3. version <= lastApplied  BY ZenonT(60), <3>1, RevisionIdle
      <3>4. version' \in Nat /\ lastApplied' \in Nat /\ version' <= lastApplied'
        <4>1. CASE snap = Nil  BY Zenon, <2>4, <3>3, <4>1 DEF RecoverDone, TypeOK
        <4>2. CASE snap # Nil
          <5>1. version' = snap.index /\ lastApplied' = snap.index
            BY Zenon, <2>4, <4>2 DEF RecoverDone
          <5>2. snap.index \in Nat  BY Zenon, <4>2 DEF TypeOK, Image
          <5>3. \A n \in Nat : n <= n  OBVIOUS
          <5>. QED  BY Zenon, <5>1, <5>2, <5>3
        <4>. QED  BY Zenon, <4>1, <4>2
      <3>. QED  BY ZenonT(60), <3>2, <3>4, RevisionIdleNext
    <2>. QED  BY Zenon, <1>4, <2>1, <2>2, <2>3, <2>4 DEF Recovery
  <1>5. CASE Close  BY Zenon, <1>0, <1>5 DEF Close, mem, client
  <1>6. CASE Crash  BY SMTT(30), <1>6, RevisionIdleNext DEF Crash, Die
  <1>7. ASSUME NEW id \in PeerIDs, AddPeer(id) \/ RemovePeer(id) PROVE RevisionInv'
    BY Zenon, <1>0, <1>7 DEF AddPeer, RemovePeer, proc, client
  <1>8. CASE UNCHANGED vars  BY Zenon, <1>0, <1>8 DEF vars, mem, proc, client
  <1>. QED  BY Zenon, <1>1, <1>2, <1>3, <1>4, <1>5, <1>6, <1>7, <1>8 DEF Next

\* The revision invariant always holds.
LEMMA RevisionAlways == Spec => []RevisionInv
  <1>1. Init => RevisionInv
    <2>. SUFFICES ASSUME Init PROVE RevisionInv
      OBVIOUS
    <2>1. Claiming = {}  BY Zenon DEF Init, Claiming
    <2>2. Cardinality(Claiming) = 0  BY Zenon, <2>1, FS_EmptySet
    <2>. QED  BY <2>2 DEF Init, RevisionInv, RevisionBound, RepliesCovered
  <1>. QED  BY <1>1, RevisionNext, TypeCorrect, PTL DEF Spec

\* st.version, which snapshot() saves as the index to resume from, never runs
\* ahead of lastApplied, whatever the interleaving of applyLocked's two
\* critical sections and however often the process restarts.
THEOREM RevisionBoundHolds == Spec => []RevisionBound
  <1>1. RevisionInv => RevisionBound  BY Zenon DEF RevisionInv
  <1>. QED  BY <1>1, RevisionAlways, PTL

\* No call is past applyLocked before lastApplied has reached its index.
THEOREM RepliesCoveredHolds == Spec => []RepliesCovered
  <1>1. RevisionInv => RepliesCovered  BY Zenon DEF RevisionInv
  <1>. QED  BY <1>1, RevisionAlways, PTL
-----------------------------------------------------------------------------
(***************************************************************************)
(* Terms                                                                   *)
(***************************************************************************)
\* Appending an entry whose term is covered, and raising the term, keeps the
\* log covered.
LEMMA TermAppend ==
  ASSUME TypeOK, TermCoversLog, NEW e \in LogEntry, log' = Append(log, e),
         currentTerm' \in Nat, currentTerm' >= currentTerm, currentTerm' >= e.term
  PROVE  TermCoversLog'
  <1>1. log \in Seq(LogEntry) /\ currentTerm \in Nat  BY Zenon DEF TypeOK
  <1>. SUFFICES ASSUME NEW i \in DOMAIN log' PROVE log'[i].term <= currentTerm'
    BY Zenon DEF TermCoversLog
  <1>2. CASE i = Len(log) + 1  BY <1>1, <1>2
  <1>3. CASE i \in DOMAIN log
    <2>1. log'[i] = log[i] /\ log[i] \in LogEntry  BY SMTT(30), <1>1, <1>3
    <2>2. log[i].term \in Nat /\ log[i].term <= currentTerm
      BY Zenon, <1>3, <2>1 DEF LogEntry, TermCoversLog
    <2>. QED  BY <1>1, <2>1, <2>2
  <1>. QED  BY SMTT(30), <1>1, <1>2, <1>3

\* Every step keeps the terms of the log covered.
LEMMA TermNext == TypeOK /\ TermCoversLog /\ [Next]_vars => TermCoversLog'
  <1>. SUFFICES ASSUME TypeOK, TermCoversLog, [Next]_vars PROVE TermCoversLog'
    OBVIOUS
  <1>0. ASSUME log' = log, currentTerm' \in Nat, currentTerm' >= currentTerm
        PROVE  TermCoversLog'
    <2>. SUFFICES ASSUME NEW i \in DOMAIN log PROVE log[i].term <= currentTerm'
      BY Zenon, <1>0 DEF TermCoversLog
    <2>1. log[i] \in LogEntry /\ currentTerm \in Nat  BY DEF TypeOK
    <2>2. log[i].term \in Nat  BY Zenon, <2>1 DEF LogEntry
    <2>. QED  BY <1>0, <2>1, <2>2 DEF TermCoversLog
  <1>00. currentTerm \in Nat  BY Zenon DEF TypeOK
  <1>10. ASSUME UNCHANGED <<log, currentTerm>> PROVE TermCoversLog'
    BY Zenon, <1>10 DEF TermCoversLog
  <1>1. ASSUME NEW p \in Clients, Begin(p) PROVE TermCoversLog'
    <2>1. UNCHANGED mem
      BY Zenon, <1>1 DEF Begin, BeginPut, BeginDelete, BeginCAS, CASMismatch, Issue
    <2>. QED  BY Zenon, <1>10, <2>1 DEF mem
  <1>2. ASSUME NEW p \in Clients, Step(p) PROVE TermCoversLog'
    <2>1. CASE AppendLog(p)
      <3>. DEFINE term == Max2(currentTerm, 1)
                  e    == Stamped(req[p], Len(log) + 1, term)
      <3>1. term \in Nat /\ term >= currentTerm  BY <1>00 DEF Max2
      <3>6. pc[p] = "append"  BY Zenon, <2>1 DEF AppendLog
      <3>4. req[p] \in LogEntry  BY Zenon, <3>6 DEF TypeOK
      <3>5. Len(log) + 1 \in Nat  BY DEF TypeOK
      <3>. HIDE DEF term
      <3>2. e \in LogEntry /\ e.term = term  BY Zenon, <3>1, <3>4, <3>5 DEF Stamped, LogEntry
      <3>3. log' = Append(log, e) /\ currentTerm' = term  BY Zenon, <2>1 DEF AppendLog, term
      <3>. HIDE DEF e
      <3>. QED  BY <3>1, <3>2, <3>3, TermAppend
    <2>2. CASE ~AppendLog(p)
      <3>1. UNCHANGED <<log, currentTerm>>
        BY Zenon, <1>2, <2>2 DEF Step, JournalWrite, JournalClosed, JournalFault, CommitAlone,
           CommitGroup, MakeAcks, Dial, DialStuck, CountNeed, AwaitQuorum, AwaitTimeout, ApplyClaim, ApplySkip, ApplyStore, Notify,
           Reply, mem
      <3>. QED  BY Zenon, <1>10, <3>1
    <2>. QED  BY Zenon, <2>1, <2>2
  <1>3. CASE Loop
    <2>1. CASE ElectionTimeout
      <3>1. log' = log /\ currentTerm' = currentTerm + 1  BY Zenon, <2>1 DEF ElectionTimeout
      <3>2. currentTerm' \in Nat /\ currentTerm' >= currentTerm  BY <1>00, <3>1
      <3>. QED  BY Zenon, <1>0, <3>1, <3>2
    <2>2. CASE ~ElectionTimeout
      <3>1. UNCHANGED <<log, currentTerm>>
        BY Zenon, <1>3, <2>2 DEF Loop, LoopWake, LoopStop, LoopCheck, SnapCopy, SnapCloseJournal,
           SnapRename, SnapReopen, SnapFault, mem
      <3>. QED  BY Zenon, <1>10, <3>1
    <2>. QED  BY Zenon, <2>1, <2>2
  <1>4. CASE Recovery
    <2>1. CASE Open  BY Zenon, <1>10, <2>1 DEF Open, mem
    <2>2. CASE RecoverEntry
      <3>1. journal[pos] \in LogEntry  BY Zenon, <2>2, JournalEntry DEF RecoverEntry
      <3>2. journal[pos].term \in Nat  BY Zenon, <3>1 DEF LogEntry
      <3>3. log' = Append(log, journal[pos]) /\ currentTerm' = Max2(currentTerm, journal[pos].term)
        BY Zenon, <2>2 DEF RecoverEntry
      <3>4. currentTerm' \in Nat /\ currentTerm' >= currentTerm /\ currentTerm' >= journal[pos].term
        BY <1>00, <3>2, <3>3 DEF Max2
      <3>. QED  BY Zenon, <3>1, <3>3, <3>4, TermAppend
    <2>3. CASE RecoverFail
      <3>1. log' = <<>>  BY Zenon, <2>3 DEF RecoverFail, Die
      <3>. QED  BY <3>1 DEF TermCoversLog
    <2>4. CASE RecoverDone
      <3>1. currentTerm' \in Nat /\ currentTerm' >= currentTerm /\ log' = log
        BY <1>00, <2>4 DEF RecoverDone, Max2
      <3>. QED  BY Zenon, <1>0, <3>1
    <2>. QED  BY ZenonT(60), <1>4, <2>1, <2>2, <2>3, <2>4 DEF Recovery
  <1>5. CASE Close  BY Zenon, <1>10, <1>5 DEF Close, mem
  <1>6. CASE Crash
    <2>1. log' = <<>>  BY Zenon, <1>6 DEF Crash, Die
    <2>. QED  BY SMTT(60), <2>1 DEF TermCoversLog
  <1>7. ASSUME NEW id \in PeerIDs, AddPeer(id) \/ RemovePeer(id) PROVE TermCoversLog'
    <2>1. UNCHANGED <<log, currentTerm>>  BY Zenon, <1>7 DEF AddPeer, RemovePeer
    <2>. QED  BY ZenonT(60), <1>10, <2>1
  <1>8. CASE UNCHANGED vars  BY Zenon, <1>10, <1>8 DEF vars, mem
  <1>. QED  BY ZenonT(60), <1>1, <1>2, <1>3, <1>4, <1>5, <1>6, <1>7, <1>8 DEF Next

\* The node's term covers every entry of its log although the term is never
\* written to disk: recover() raises it to the highest term it reads.
THEOREM TermCoversLogHolds == Spec => []TermCoversLog
  <1>1. Init => TermCoversLog  BY DEF Init, TermCoversLog
  <1>. QED  BY <1>1, TermNext, TypeCorrect, PTL DEF Spec
-----------------------------------------------------------------------------
(***************************************************************************)
(* The ack channel of replicate                                            *)
(***************************************************************************)
\* The invariant depends on the peers, the sections, the acks and dropped.
LEMMA AckRoomFrame ==
  ASSUME AckRoomInv, UNCHANGED <<pc, acks, peers, dropped>>
  PROVE  AckRoomInv'
  BY Zenon DEF AckRoomInv, OwnAckFits, Wedged, Places

\* A call that goes to another section, none of the two that count here.
LEMMA AckRoomGoto ==
  ASSUME TypeOK, AckRoomInv, NEW p \in Clients, NEW l \in Sections \ {"dial", "stuck"}, Goto(p, l),
         \A q \in Clients \ {p} : acks'[q] = acks[q], UNCHANGED <<peers, dropped>>
  PROVE  AckRoomInv'
  <1>1. \A q \in Clients : pc'[q] \in {"dial", "stuck"} => q # p /\ pc[q] = pc'[q]
    BY Zenon DEF Goto, TypeOK
  <1>2. Places(Self)' = Places(Self)  BY Zenon DEF Places
  <1>. QED  BY Zenon, <1>1, <1>2 DEF AckRoomInv, OwnAckFits, Wedged

\* Every critical section of a call keeps the room.
LEMMA AckRoomStep == ASSUME TypeOK, AckRoomInv, NEW p \in Clients, Step(p) PROVE AckRoomInv'
  <1>0. pc \in [Clients -> Sections] /\ acks \in [Clients -> Nat]  BY Zenon DEF TypeOK
  <1>1. CASE MakeAcks(p)
    <2>1. Places(Self)' = Places(Self) /\ dropped' = dropped  BY Zenon, <1>1 DEF MakeAcks, Places, mem, proc
    <2>2. \A i \in Places(Self) : i <= Len(peers)  BY <1>1, PeersFinite DEF Places
    <2>3. acks'[p] = Len(peers) /\ \A q \in Clients \ {p} : acks'[q] = acks[q] /\ pc'[q] = pc[q]
      BY Zenon, <1>0, <1>1 DEF MakeAcks, Goto
    <2>4. pc'[p] = "dial"  BY Zenon, <1>0, <1>1 DEF MakeAcks, Goto
    <2>5. Wedged' => Wedged  BY Zenon, <2>3, <2>4 DEF Wedged
    <2>. QED  BY Zenon, <2>1, <2>2, <2>3, <2>5 DEF AckRoomInv, OwnAckFits
  <1>2. CASE DialStuck(p)
    <2>1. PICK i \in Places(Self) : acks[p] < i  BY Zenon, <1>2 DEF DialStuck
    <2>2. ~(i <= acks[p])  BY <1>0, <2>1, PeersFinite DEF Places
    <2>3. pc[p] = "dial"  BY Zenon, <1>2 DEF DialStuck
    <2>4. dropped' = dropped /\ dropped  BY Zenon, <1>2, <2>2, <2>3 DEF DialStuck, AckRoomInv, proc
    <2>5. dropped \in BOOLEAN  BY Zenon DEF TypeOK
    <2>. QED  BY Zenon, <2>4, <2>5 DEF AckRoomInv, OwnAckFits
  <1>3. CASE CountNeed(p)
    <2>1. PICK l \in {"await", "late"} : Goto(p, l)  BY Zenon, <1>3 DEF CountNeed
    <2>. QED  BY Zenon, <1>3, <2>1, AckRoomGoto DEF CountNeed, Sections, mem, proc
  <1>4. CASE AppendLog(p)  BY Zenon, <1>4, AckRoomGoto DEF AppendLog, Sections, proc
  <1>5. CASE JournalWrite(p)  BY Zenon, <1>5, AckRoomGoto DEF JournalWrite, Sections, mem, proc
  <1>6. CASE JournalClosed(p)  BY Zenon, <1>0, <1>6, AckRoomGoto DEF JournalClosed, Return, Sections, mem, proc
  <1>7. CASE JournalFault(p)  BY Zenon, <1>0, <1>7, AckRoomGoto DEF JournalFault, Return, Sections, mem, proc
  <1>8. CASE CommitAlone(p)  BY Zenon, <1>8, AckRoomGoto DEF CommitAlone, Sections, proc
  <1>9. CASE CommitGroup(p)  BY Zenon, <1>9, AckRoomGoto DEF CommitGroup, Sections, mem, proc
  <1>10. CASE Dial(p)
    <2>1. \A q \in Clients \ {p} : acks'[q] = acks[q]  BY Zenon, <1>0, <1>10 DEF Dial
    <2>. QED  BY Zenon, <1>10, <2>1, AckRoomGoto DEF Dial, Sections, mem, proc
  <1>11. CASE AwaitQuorum(p)  BY Zenon, <1>0, <1>11, AckRoomGoto DEF AwaitQuorum, Sections, proc
  <1>12. CASE AwaitTimeout(p)  BY Zenon, <1>0, <1>12, AckRoomGoto DEF AwaitTimeout, Return, Sections, mem, proc
  <1>13. CASE ApplyClaim(p)  BY Zenon, <1>13, AckRoomGoto DEF ApplyClaim, Sections, proc
  <1>14. CASE ApplySkip(p)  BY Zenon, <1>14, AckRoomGoto DEF ApplySkip, Sections, mem, proc
  <1>15. CASE ApplyStore(p)  BY Zenon, <1>15, AckRoomGoto DEF ApplyStore, Sections, proc
  <1>16. CASE Notify(p)  BY Zenon, <1>16, AckRoomGoto DEF Notify, Sections, proc
  <1>17. CASE Reply(p)  BY Zenon, <1>0, <1>17, AckRoomGoto DEF Reply, Return, Sections, mem, proc
  <1>. QED
    BY Zenon, <1>1, <1>2, <1>3, <1>4, <1>5, <1>6, <1>7, <1>8, <1>9, <1>10, <1>11, <1>12, <1>13,
       <1>14, <1>15, <1>16, <1>17 DEF Step

\* AddPeer appends a peer that is not there; RemovePeer moves those behind the
\* one it takes out one place forward.
LEMMA AckRoomPeers ==
  ASSUME TypeOK, AckRoomInv, NEW id \in PeerIDs, AddPeer(id) \/ RemovePeer(id)
  PROVE  AckRoomInv'
  <1>0. /\ UNCHANGED <<pc, acks>> /\ ~Wedged /\ acks \in [Clients -> Nat]
        /\ dropped \in BOOLEAN /\ peers \in Seq(CfgPeers \cup PeerIDs \cup {Self})
        /\ Len(peers) \in Nat /\ DOMAIN peers = 1..Len(peers)
    BY Zenon, PeersFinite DEF AddPeer, RemovePeer, client, TypeOK
  <1>1. ~Wedged'  BY Zenon, <1>0 DEF Wedged
  <1>. SUFFICES ASSUME ~dropped'
                PROVE  /\ Places(Self)' # {}
                       /\ \A p \in Clients : pc[p] = "dial" => \A i \in Places(Self)' : i <= acks[p]
    BY Zenon, <1>0, <1>1 DEF AckRoomInv, OwnAckFits
  <1>2. CASE AddPeer(id)
    <2>1. ~dropped /\ id # Self  BY Zenon, <1>2 DEF AddPeer, proc, AckRoomInv
    <2>2. peers' = Append(peers, id)  BY Zenon, <1>2 DEF AddPeer
    <2>3. /\ DOMAIN peers' = 1..(Len(peers) + 1) /\ peers'[Len(peers) + 1] = id
          /\ \A i \in 1..Len(peers) : peers'[i] = peers[i]
      BY <1>0, <2>2
    <2>4. Places(Self)' = Places(Self)  BY <1>0, <2>1, <2>3 DEF Places
    <2>. QED  BY Zenon, <2>1, <2>4 DEF AckRoomInv
  <1>3. CASE RemovePeer(id)
    <2>1. ~dropped /\ id # Self  BY Zenon, <1>3 DEF RemovePeer
    <2>2. PICK k \in Places(id) :
             peers' = [j \in 1..(Len(peers) - 1) |-> IF j < k THEN peers[j] ELSE peers[j + 1]]
      BY Zenon, <1>3 DEF RemovePeer
    <2>3. k \in 1..Len(peers) /\ peers[k] = id  BY Zenon, <1>0, <2>2 DEF Places
    <2>4. ASSUME NEW i \in Places(Self) PROVE Places(Self)' # {}
      <3>1. i \in 1..Len(peers) /\ peers[i] = Self /\ i # k  BY Zenon, <1>0, <2>1, <2>3, <2>4 DEF Places
      <3>2. CASE i < k
        <4>1. i \in 1..(Len(peers) - 1) /\ peers'[i] = peers[i]  BY <1>0, <2>2, <2>3, <3>1, <3>2
        <4>. QED  BY Zenon, <2>2, <3>1, <4>1 DEF Places
      <3>3. CASE ~(i < k)
        <4>1. i - 1 \in 1..(Len(peers) - 1) /\ ~(i - 1 < k) /\ (i - 1) + 1 = i  BY <1>0, <2>3, <3>1, <3>3
        <4>2. peers'[i - 1] = peers[i]  BY Zenon, <2>2, <4>1
        <4>. QED  BY Zenon, <2>2, <3>1, <4>1, <4>2 DEF Places
      <3>. QED  BY Zenon, <3>2, <3>3
    <2>5. ASSUME NEW p \in Clients, pc[p] = "dial", NEW i \in Places(Self)' PROVE i <= acks[p]
      <3>1. i \in 1..(Len(peers) - 1) /\ peers'[i] = Self  BY Zenon, <2>2, <2>5 DEF Places
      <3>2. i \in 1..Len(peers) /\ i + 1 \in 1..Len(peers)  BY <1>0, <3>1
      <3>3. peers[i] = Self \/ peers[i + 1] = Self  BY Zenon, <2>2, <3>1
      <3>4. i \in Places(Self) \/ i + 1 \in Places(Self)  BY Zenon, <1>0, <3>2, <3>3 DEF Places
      <3>5. i <= acks[p] \/ i + 1 <= acks[p]  BY Zenon, <2>1, <2>5, <3>4 DEF AckRoomInv
      <3>. QED  BY <1>0, <3>2, <3>5
    <2>. QED  BY Zenon, <2>1, <2>4, <2>5 DEF AckRoomInv
  <1>. QED  BY Zenon, <1>2, <1>3

\* A process that starts has no calls and itself in its list.
LEMMA AckRoomFresh ==
  ASSUME peers' \in Configured, \A p \in Clients : pc'[p] = "idle" PROVE AckRoomInv'
  BY Zenon, ConfiguredPeers DEF AckRoomInv, OwnAckFits, Wedged, Places

\* Every step keeps the room.
LEMMA AckRoomNext == TypeOK /\ AckRoomInv /\ [Next]_vars => AckRoomInv'
  <1>. SUFFICES ASSUME TypeOK, AckRoomInv, [Next]_vars PROVE AckRoomInv'
    OBVIOUS
  <1>1. ASSUME NEW p \in Clients, Begin(p) PROVE AckRoomInv'
    <2>1. Goto(p, "append") \/ pc' = pc
      BY Zenon, <1>1 DEF Begin, BeginPut, BeginDelete, BeginCAS, CASMismatch, Issue, client
    <2>2. UNCHANGED <<acks, peers, dropped>>
      BY Zenon, <1>1 DEF Begin, BeginPut, BeginDelete, BeginCAS, CASMismatch, Issue, client, mem, proc
    <2>. QED  BY Zenon, <2>1, <2>2, AckRoomFrame, AckRoomGoto DEF Sections
  <1>2. ASSUME NEW p \in Clients, Step(p) PROVE AckRoomInv'  BY Zenon, <1>2, AckRoomStep
  <1>3. CASE Loop
    BY Zenon, <1>3, AckRoomFrame DEF Loop, LoopWake, ElectionTimeout, LoopStop, LoopCheck, SnapCopy,
       SnapCloseJournal, SnapRename, SnapReopen, SnapFault, mem, proc, client
  <1>4. CASE Recovery
    <2>1. CASE RecoverFail  BY Zenon, <2>1, AckRoomFresh DEF RecoverFail, Die
    <2>. QED
      BY Zenon, <1>4, <2>1, AckRoomFrame DEF Recovery, Open, RecoverEntry, RecoverDone, mem, client
  <1>5. CASE Close  BY Zenon, <1>5, AckRoomFrame DEF Close, mem, client
  <1>6. CASE Crash  BY Zenon, <1>6, AckRoomFresh DEF Crash, Die
  <1>7. ASSUME NEW id \in PeerIDs, AddPeer(id) \/ RemovePeer(id) PROVE AckRoomInv'
    BY Zenon, <1>7, AckRoomPeers
  <1>8. CASE UNCHANGED vars  BY Zenon, <1>8, AckRoomFrame DEF vars, mem, proc, client
  <1>. QED  BY ZenonT(60), <1>1, <1>2, <1>3, <1>4, <1>5, <1>6, <1>7, <1>8 DEF Next

\* However peers are added and removed between the moment replicate makes its
\* channel and the moment it walks the list, no call blocks with r.mu held,
\* unless the node was taken off its own list.
THEOREM OwnAckFitsHolds == Spec => []OwnAckFits
  <1>1. Init => AckRoomInv
    BY Zenon, ConfiguredPeers DEF Init, AckRoomInv, OwnAckFits, Wedged, Places
  <1>2. AckRoomInv => OwnAckFits  BY Zenon DEF AckRoomInv
  <1>. QED  BY <1>1, <1>2, AckRoomNext, TypeCorrect, PTL DEF Spec
=============================================================================
