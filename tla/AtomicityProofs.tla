-------------------------- MODULE AtomicityProofs --------------------------
(***************************************************************************)
(* Proofs about KV as KVAtomicity uses it: one client, no peers, no        *)
(* failing disk, any keys and values, any number of crashes, and fewer     *)
(* calls than make the first snapshot due.  The store implements AtomicKV  *)
(* and loses nothing that it acknowledged.                                 *)
(***************************************************************************)
EXTENDS KVAtomicity, KVProofs

-----------------------------------------------------------------------------
(* What the journal stands for.                                            *)

LEMMA ReplayZero == \A j : Replay(j, 0) = EmptyMap
  BY DEF Replay, LastOf, EmptyMap

LEMMA ReplayType ==
  ASSUME NEW j \in Seq(LogEntry), NEW n \in 0..Len(j)
  PROVE  Replay(j, n) \in Map
<1> SUFFICES ASSUME NEW k \in Keys, \E i \in LastOf(j, k, n) : j[i].op = "put"
             PROVE  LET i == CHOOSE i \in LastOf(j, k, n) : TRUE
                    IN [value |-> j[i].value, version |-> j[i].version] \in Entry
  BY Zenon DEF Replay, Map
<1> DEFINE i == CHOOSE i \in LastOf(j, k, n) : TRUE
<1>1. i \in LastOf(j, k, n)
  OBVIOUS
<1>2. i \in 1..Len(j)
  BY <1>1 DEF LastOf
<1>3. j[i] \in LogEntry
  BY <1>2
<1> QED
  BY Zenon, <1>3 DEF LogEntry, Entry

\* Writing a line at the end of the journal leaves what the lines before it
\* stand for.
LEMMA ReplayPrefix ==
  ASSUME NEW j \in Seq(LogEntry), NEW e \in LogEntry, NEW n \in 0..Len(j)
  PROVE  Replay(Append(j, e), n) = Replay(j, n)
<1>1. \A i \in 1..n : Append(j, e)[i] = j[i]
  OBVIOUS
<1>2. \A k : LastOf(Append(j, e), k, n) = LastOf(j, k, n)
  BY <1>1 DEF LastOf
<1>3. \A k : \A i \in LastOf(j, k, n) : Append(j, e)[i] = j[i]
  BY Zenon, <1>1 DEF LastOf
<1>4. ASSUME NEW k \in Keys PROVE Replay(Append(j, e), n)[k] = Replay(j, n)[k]
  <2> DEFINE L == LastOf(j, k, n)
             i == CHOOSE i \in L : TRUE
  <2>1. (\E l \in L : Append(j, e)[l].op = "put") <=> (\E l \in L : j[l].op = "put")
    BY Zenon, <1>3
  <2>2. CASE \E l \in L : j[l].op = "put"
    <3>1. Append(j, e)[i] = j[i]
      BY Zenon, <1>3, <2>2
    <3>2. Replay(j, n)[k] = [value |-> j[i].value, version |-> j[i].version]
      BY Zenon, <2>2 DEF Replay
    <3>3. Replay(Append(j, e), n)[k] = [value |-> Append(j, e)[i].value, version |-> Append(j, e)[i].version]
      <4>1. LastOf(Append(j, e), k, n) = L
        BY Zenon, <1>2
      <4> QED
        BY <2>1, <2>2, <4>1, Zenon DEF Replay
    <3> QED
      BY Zenon, <3>1, <3>2, <3>3
  <2>3. CASE ~\E l \in L : j[l].op = "put"
    BY Zenon, <1>2, <2>1, <2>3 DEF Replay
  <2> QED
    BY Zenon, <2>2, <2>3
<1> QED
  BY Zenon, <1>4 DEF Replay

\* One more line is one more entry applied.
LEMMA ReplayNext ==
  ASSUME NEW j \in Seq(LogEntry), NEW n \in 0..Len(j), n < Len(j)
  PROVE  Replay(j, n + 1) = Applied(Replay(j, n), j[n + 1])
<1> DEFINE e == j[n + 1]
<1>1. e \in LogEntry /\ e.key \in Keys
  <2>1. n + 1 \in 1..Len(j)
    OBVIOUS
  <2>2. e \in LogEntry
    BY <2>1
  <2> QED
    BY Zenon, <2>2 DEF LogEntry
<1>2. LastOf(j, e.key, n + 1) = {n + 1}
  BY DEF LastOf
<1>3. ASSUME NEW k \in Keys, k # e.key PROVE LastOf(j, k, n + 1) = LastOf(j, k, n)
  <2>1. \A i \in LastOf(j, k, n) : i \in LastOf(j, k, n + 1)
    BY <1>3 DEF LastOf
  <2>2. \A i \in LastOf(j, k, n + 1) : i \in LastOf(j, k, n)
    BY <1>3 DEF LastOf
  <2> QED
    BY Zenon, <2>1, <2>2
<1>4. ASSUME NEW k \in Keys, k # e.key PROVE Replay(j, n + 1)[k] = Replay(j, n)[k]
  BY Zenon, <1>3, <1>4 DEF Replay
<1>5. Replay(j, n + 1)[e.key] = IF e.op = "put" THEN [value |-> e.value, version |-> e.version] ELSE Nil
  <2>1. (CHOOSE i \in {n + 1} : TRUE) = n + 1
    OBVIOUS
  <2> QED
    BY Zenon, <1>1, <1>2, <2>1 DEF Replay
<1>6. DOMAIN Replay(j, n) = Keys /\ DOMAIN Replay(j, n + 1) = Keys
  BY Zenon DEF Replay
<1>7. \A k \in Keys : Replay(j, n + 1)[k] = Applied(Replay(j, n), e)[k]
  BY Zenon, <1>1, <1>4, <1>5, <1>6 DEF Applied
<1>8. Replay(j, n + 1) = [k \in Keys |-> Replay(j, n + 1)[k]]
  BY Zenon DEF Replay
<1>9. Applied(Replay(j, n), e) = [k \in Keys |-> Applied(Replay(j, n), e)[k]]
  BY Zenon, <1>6 DEF Applied
<1> QED
  BY Zenon, <1>7, <1>8, <1>9
-----------------------------------------------------------------------------
(* The invariant.                                                          *)

\* No peers and no snapshot.
Alone == snap = Nil /\ loop \in {"off", "select", "check", "stopped"} /\ Len(peers) = 1

\* The journal is numbered from 1 and has all that was ever journaled.
Numbered ==
  /\ \A i \in DOMAIN journal : journal[i].index = i
  /\ journaled = {journal[i] : i \in DOMAIN journal}

\* No more entries were applied than journaled, and no more journaled than
\* calls were made; a call on its way is not counted yet.
Counted ==
  /\ ops <= MaxOps /\ Len(journal) <= ops /\ metsApplied <= Len(journal)
  /\ \A c \in Clients : pc[c] \in {"append", "journal"} => Len(journal) < ops
  /\ \A c \in Clients : pc[c] \in {"commit", "check", "apply", "notify"} => metsApplied < Len(journal)

\* A process that is down has nothing in memory, ...
Fresh == status = "down" => entries = EmptyMap /\ lastApplied = 0 /\ metsApplied = 0 /\ Len(log) = 0

\* ... one that recovers has what it has read of the journal, ...
HalfRead ==
  status = "recovering" =>
    /\ pos > 0 /\ pos <= Len(journal) + 1
    /\ Len(log) = pos - 1 /\ lastApplied = pos - 1 /\ metsApplied <= pos - 1
    /\ entries = Replay(journal, pos - 1)

\* ... and one that is up has all of it, but for the entry that its client has
\* journaled and not yet applied.
Call(c) ==
  /\ pc[c] \notin {"make", "dial", "stuck", "need", "await", "late"}
  /\ journalOpen => Len(log) = IF pc[c] = "journal" THEN Len(journal) + 1 ELSE Len(journal)
  /\ journalOpen /\ pc[c] = "journal" => req[c].index = Len(journal) + 1
  /\ pc[c] \in {"commit", "check", "apply", "notify", "reply"} => Len(journal) > 0 /\ journal[Len(journal)] = req[c]
  /\ lastApplied = IF pc[c] \in {"commit", "check"} THEN Len(journal) - 1 ELSE Len(journal)
  /\ entries = Replay(journal, IF pc[c] \in {"commit", "check", "apply"} THEN Len(journal) - 1 ELSE Len(journal))
  /\ pc[c] \in {"append", "journal", "commit", "check", "apply"} /\ req[c].op = "put" =>
       req[c].value \in Values /\ req[c].version = NextVersion(req[c].key)

Calls == status = "up" => \A c \in Clients : Call(c)

\* A key that was not deleted since an entry has the version of that entry or a
\* later one.
Survives ==
  \A i \in DOMAIN journal :
    (\A l \in DOMAIN journal : l >= i /\ journal[l].key = journal[i].key => journal[l].op = "put") =>
      Replayed[journal[i].key] # Nil /\ Replayed[journal[i].key].version >= journal[i].version

AtomicInv == Alone /\ Numbered /\ Counted /\ Fresh /\ HalfRead /\ Calls /\ Survives

-----------------------------------------------------------------------------
(* The steps of a call.                                                    *)

LEMMA StoreTypes ==
  ASSUME TypeOK
  PROVE  /\ journal \in Seq(LogEntry) /\ log \in Seq(LogEntry) /\ entries \in Map
         /\ pc \in [Clients -> Sections] /\ pos \in Nat /\ metsApplied \in Nat /\ lastApplied \in Nat
  BY Zenon DEF TypeOK

LEMMA OneClient == \A p, q \in Clients : p = q
  BY Zenon, SequentialAssumption

\* A process without peers starts with itself in its list.
LEMMA ConfiguredAlone == \A s \in Configured : Len(s) = 1
<1> TAKE s \in Configured
<1>1. CfgPeers \cup {Self} = {Self}
  BY Zenon, SequentialAssumption
<1>2. Cardinality({Self}) = 1
  BY Zenon, FS_Singleton
<1>3. s \in [1..1 -> {Self}]
  BY Zenon, <1>1, <1>2 DEF Configured
<1> QED
  BY <1>3

LEMMA AtomicInit == Init => AtomicInv
<1> SUFFICES ASSUME Init PROVE AtomicInv
  OBVIOUS
<1>1. Len(<<>>) = 0 /\ DOMAIN <<>> = {}
  OBVIOUS
<1>2. Len(peers) = 1
  BY Zenon, ConfiguredAlone DEF Init
<1>3. Alone /\ Fresh /\ HalfRead /\ Calls
  BY Zenon, <1>1, <1>2 DEF Init, Alone, Fresh, HalfRead, Calls
<1>4. Numbered /\ Survives
  BY Zenon, <1>1 DEF Init, Numbered, Survives
<1>5. Counted
  BY <1>1, KVAssumption DEF Init, Counted
<1> QED
  BY Zenon, <1>3, <1>4, <1>5 DEF AtomicInv

\* A step of a call that leaves the journal alone keeps what is about it.
LEMMA KeepJournal ==
  ASSUME AtomicInv, status = "up", UNCHANGED <<status, snap, loop, peers, journal, journaled>>
  PROVE  (Alone /\ Numbered /\ Fresh /\ HalfRead /\ Survives)'
<1>1. (Alone /\ Fresh /\ HalfRead)'
  BY Zenon DEF AtomicInv, Alone, Fresh, HalfRead
<1>2. Numbered'
  BY Zenon DEF AtomicInv, Numbered
<1>3. Replayed' = Replayed
  BY Zenon DEF Replayed
<1>4. Survives'
  BY Zenon, <1>3 DEF AtomicInv, Survives
<1> QED
  BY Zenon, <1>1, <1>2, <1>4

\* So only the call itself and the counts have to be looked at.
LEMMA KeepInv ==
  ASSUME AtomicInv, status = "up", UNCHANGED <<status, snap, loop, peers, journal, journaled>>,
         NEW p \in Clients, Call(p)', ops' <= MaxOps, Len(journal) <= ops', metsApplied' <= Len(journal),
         pc'[p] \in {"append", "journal"} => Len(journal) < ops',
         pc'[p] \in {"commit", "check", "apply", "notify"} => metsApplied' < Len(journal)
  PROVE  AtomicInv'
<1>1. Counted'
  BY Zenon, OneClient DEF Counted
<1>2. Calls'
  BY Zenon, OneClient DEF Calls
<1> QED
  BY Zenon, <1>1, <1>2, KeepJournal DEF AtomicInv

\* Put, Delete and CompareAndSwap start with the next version of their key.
LEMMA AtomicBegin == ASSUME TypeOK, AtomicInv, NEW p \in Clients, Begin(p) PROVE AtomicInv'
<1>1. ASSUME NEW op, NEW k \in Keys, NEW v, NEW ver, status = "up", pc[p] = "idle", ops < MaxOps,
             Issue(p, op, k, v, ver), op = "put" => v \in Values /\ ver = NextVersion(k)
      PROVE  AtomicInv'
  <2>1. /\ UNCHANGED <<status, snap, loop, peers, journal, journaled, entries, journalOpen, log, lastApplied, metsApplied>>
        /\ ops' = ops + 1 /\ pc'[p] = "append"
        /\ req'[p] = [index |-> 0, term |-> 0, op |-> op, key |-> k, value |-> v, version |-> ver]
    BY Zenon, <1>1 DEF Issue, Goto, TypeOK, mem, proc, runner, disk, hist
  <2>2. Len(journal) \in Nat /\ ops \in Nat /\ metsApplied \in Nat /\ MaxOps \in Nat
    BY KVAssumption DEF TypeOK
  <2>3. Call(p) /\ Len(journal) <= ops /\ metsApplied <= Len(journal)
    BY Zenon, <1>1 DEF AtomicInv, Calls, Counted
  <2>4. NextVersion(k)' = NextVersion(k)
    BY Zenon, <2>1 DEF NextVersion
  <2>5. Call(p)'
    BY <1>1, <2>1, <2>3, <2>4 DEF Call
  <2>6. ops' <= MaxOps /\ Len(journal) <= ops' /\ metsApplied' <= Len(journal) /\ Len(journal) < ops'
    BY <1>1, <2>1, <2>2, <2>3
  <2> QED
    BY <1>1, <2>1, <2>5, <2>6, KeepInv
<1>2. ASSUME NEW k \in Keys, NEW expect \in 0..MaxOps, CASMismatch(p, k, expect)
      PROVE  AtomicInv'
  <2>1. UNCHANGED <<status, snap, loop, peers, journal, journaled, entries, journalOpen, log, lastApplied, metsApplied, pc, req>>
    BY Zenon, <1>2 DEF CASMismatch, mem, proc, client, runner, disk, hist
  <2>2. status = "up" /\ ops' = ops + 1 /\ ops < MaxOps /\ pc[p] = "idle"
    BY Zenon, <1>2 DEF CASMismatch, CanCall
  <2>3. Len(journal) \in Nat /\ ops \in Nat /\ metsApplied \in Nat /\ MaxOps \in Nat
    BY KVAssumption DEF TypeOK
  <2>4. Call(p) /\ Len(journal) <= ops /\ metsApplied <= Len(journal)
    BY Zenon, <2>2 DEF AtomicInv, Calls, Counted
  <2>5. Call(p)'
    BY Zenon, <2>1, <2>4 DEF Call, NextVersion
  <2> QED
    BY <2>1, <2>2, <2>3, <2>4, <2>5, KeepInv
<1>3. ASSUME NEW k \in Keys, NEW v \in Values, BeginPut(p, k, v) PROVE AtomicInv'
  BY Zenon, <1>1, <1>3 DEF BeginPut, CanCall
<1>4. ASSUME NEW k \in Keys, BeginDelete(p, k) PROVE AtomicInv'
  BY Zenon, <1>1, <1>4 DEF BeginDelete, CanCall
<1>5. ASSUME NEW k \in Keys, NEW expect \in 0..MaxOps, NEW v \in Values, BeginCAS(p, k, v, expect) PROVE AtomicInv'
  <2>1. expect + 1 = NextVersion(k)
    BY <1>5, KVAssumption DEF BeginCAS, Matches, NextVersion
  <2> QED
    BY Zenon, <1>1, <1>5, <2>1 DEF BeginCAS, CanCall
<1> QED
  BY Zenon, <1>2, <1>3, <1>4, <1>5 DEF Begin

\* What the steps of a call rest on.
LEMMA StepFacts ==
  ASSUME TypeOK, RevisionInv, AtomicInv, NEW p \in Clients, pc[p] # "idle"
  PROVE  /\ status = "up" /\ Call(p) /\ req[p] \in LogEntry
         /\ Len(journal) \in Nat /\ Len(log) \in Nat /\ lastApplied \in Nat
         /\ ops \in Nat /\ metsApplied \in Nat
         /\ ops <= MaxOps /\ Len(journal) <= ops /\ metsApplied <= Len(journal)
         /\ pc[p] \in {"append", "journal"} => Len(journal) < ops
         /\ pc[p] \in {"commit", "check", "apply", "notify"} => metsApplied < Len(journal)
  BY DEF TypeOK, RevisionInv, AtomicInv, Calls, Counted

\* A call that has written its entry finds it at the end of the journal.
LEMMA CallEntry ==
  ASSUME TypeOK, RevisionInv, AtomicInv, NEW p \in Clients,
         pc[p] \in {"commit", "check", "apply", "notify", "reply"}
  PROVE  /\ journal \in Seq(LogEntry) /\ Len(journal) \in Nat /\ Len(journal) > 0
         /\ journal[Len(journal)] = req[p] /\ req[p].index = Len(journal)
<1>1. Len(journal) > 0 /\ journal[Len(journal)] = req[p]
  BY Zenon, StepFacts DEF Call
<1>2. journal \in Seq(LogEntry)
  BY Zenon, StoreTypes
<1>3. Len(journal) \in DOMAIN journal
  BY <1>1, <1>2
<1> QED
  BY <1>1, <1>2, <1>3 DEF AtomicInv, Numbered

\* The whole journal, when its last entry is not applied yet.
LEMMA ReplayLast ==
  ASSUME TypeOK, Len(journal) > 0
  PROVE  Replayed = Applied(Replay(journal, Len(journal) - 1), journal[Len(journal)])
<1>1. journal \in Seq(LogEntry) /\ Len(journal) \in Nat
  BY StoreTypes
<1>2. Len(journal) - 1 \in 0..Len(journal) /\ Len(journal) - 1 < Len(journal) /\ (Len(journal) - 1) + 1 = Len(journal)
  BY <1>1
<1>3. Replay(journal, (Len(journal) - 1) + 1) = Applied(Replay(journal, Len(journal) - 1), journal[(Len(journal) - 1) + 1])
  BY Zenon, <1>1, <1>2, ReplayNext
<1> QED
  BY Zenon, <1>2, <1>3 DEF Replayed

\* append, and the write to the journal or its failure.
LEMMA AtomicAppendLog ==
  ASSUME TypeOK, RevisionInv, AtomicInv, NEW p \in Clients, AppendLog(p)
  PROVE  AtomicInv'
<1>1. pc[p] = "append" /\ pc'[p] = "journal"
  BY Zenon DEF AppendLog, Goto, TypeOK
<1>2. UNCHANGED <<status, snap, loop, peers, journal, journaled, entries, journalOpen, lastApplied, metsApplied, ops>>
  BY Zenon DEF AppendLog, proc, runner, disk, hist, budget
<1>3. /\ Len(log') = Len(log) + 1 /\ req'[p].index = Len(log) + 1 /\ req'[p].op = req[p].op
      /\ req'[p].key = req[p].key /\ req'[p].value = req[p].value /\ req'[p].version = req[p].version
  BY DEF AppendLog, Stamped, TypeOK
<1>4. Call(p)'
  BY <1>1, <1>2, <1>3, StepFacts DEF Call, NextVersion
<1> QED
  BY Zenon, <1>1, <1>2, <1>4, StepFacts, KeepInv

LEMMA AtomicJournalClosed ==
  ASSUME TypeOK, RevisionInv, AtomicInv, NEW p \in Clients, JournalClosed(p)
  PROVE  AtomicInv'
<1>1. pc[p] = "journal" /\ pc'[p] = "idle" /\ ~journalOpen
  BY Zenon DEF JournalClosed, Return, Goto, TypeOK
<1>2. UNCHANGED <<status, snap, loop, peers, journal, journaled, entries, journalOpen, lastApplied, metsApplied, ops, log>>
  BY Zenon DEF JournalClosed, mem, proc, runner, disk, hist, budget
<1>3. Call(p)'
  BY <1>1, <1>2, StepFacts DEF Call
<1> QED
  BY Zenon, <1>1, <1>2, <1>3, StepFacts, KeepInv

\* The write to the journal: the entry is the next in the order of the journal,
\* and its version is later than what the key had.
LEMMA AtomicJournalWrite ==
  ASSUME TypeOK, RevisionInv, AtomicInv, NEW p \in Clients, JournalWrite(p)
  PROVE  AtomicInv'
<1> DEFINE n == Len(journal)
           e == req[p]
<1>1. pc[p] = "journal" /\ pc'[p] = "commit" /\ journalOpen
  BY Zenon DEF JournalWrite, Goto, TypeOK
<1>2. UNCHANGED <<status, snap, loop, peers, entries, journalOpen, lastApplied, metsApplied, ops, log, req>>
  BY Zenon DEF JournalWrite, mem, proc, runner, budget
<1>3. /\ status = "up" /\ Call(p) /\ e \in LogEntry /\ n \in Nat /\ metsApplied \in Nat
      /\ n < ops /\ metsApplied <= n /\ ops <= MaxOps /\ ops \in Nat
  BY Zenon, <1>1, StepFacts
<1>4. journal \in Seq(LogEntry) /\ journal' = Append(journal, e) /\ journaled' = journaled \cup {e}
  BY Zenon DEF JournalWrite, TypeOK
<1>5. Len(journal') = n + 1 /\ journal'[n + 1] = e /\ \A i \in 1..n : journal'[i] = journal[i]
  BY <1>3, <1>4
<1>6. Replay(journal', n) = Replay(journal, n) /\ entries = Replay(journal, n)
  BY <1>1, <1>3, <1>4, ReplayPrefix DEF Call
<1>7. Alone' /\ Fresh' /\ HalfRead'
  BY Zenon, <1>2, <1>3 DEF AtomicInv, Alone, Fresh, HalfRead
<1>8. Numbered'
  <2>1. e.index = n + 1
    BY Zenon, <1>1, <1>3 DEF Call
  <2>2. DOMAIN journal = 1..n /\ DOMAIN journal' = 1..(n + 1)
    BY <1>3, <1>4
  <2>3. Numbered
    BY Zenon DEF AtomicInv
  <2>4. \A i \in DOMAIN journal' : journal'[i].index = i
    BY <1>3, <1>5, <2>1, <2>2, <2>3 DEF Numbered
  <2>5. \A x : x \in journaled' <=> \E i \in DOMAIN journal' : journal'[i] = x
    BY <1>3, <1>4, <1>5, <2>2, <2>3 DEF Numbered
  <2> QED
    BY <2>4, <2>5 DEF Numbered
<1>9. Counted'
  BY <1>1, <1>2, <1>3, <1>5, OneClient DEF Counted
<1>10. Call(p)'
  <2>1. NextVersion(e.key)' = NextVersion(e.key)
    BY Zenon, <1>2 DEF NextVersion
  <2> QED
    BY <1>1, <1>2, <1>3, <1>5, <1>6, <2>1 DEF Call
<1>11. Calls'
  BY Zenon, <1>10, OneClient DEF Calls
<1>12. Survives'
  <2>1. Replayed' = Applied(Replayed, e)
    <3>1. Replay(journal', n + 1) = Applied(Replay(journal', n), journal'[n + 1])
      <4>1. journal' \in Seq(LogEntry)
        BY <1>3, <1>4
      <4> QED
        BY <1>3, <1>5, <4>1, ReplayNext
    <3> QED
      BY Zenon, <1>5, <1>6, <3>1 DEF Replayed
  <2>2. Replayed \in Map /\ Replayed = entries
    BY <1>3, <1>4, <1>6, ReplayType DEF Replayed
  <2> SUFFICES ASSUME NEW i \in 1..(n + 1),
                      \A l \in 1..(n + 1) : l >= i /\ journal'[l].key = journal'[i].key => journal'[l].op = "put"
               PROVE  /\ Replayed'[journal'[i].key] # Nil
                      /\ Replayed'[journal'[i].key].version >= journal'[i].version
    BY SMTT(60), <1>3, <1>4, <1>5 DEF Survives
  <2> DEFINE k == journal'[i].key
  <2>3. CASE i = n + 1
    <3>1. k = e.key /\ e.op = "put" /\ k \in Keys /\ e.version \in Nat
      BY <1>3, <1>5, <2>3 DEF LogEntry
    <3>2. Replayed'[k] = [value |-> e.value, version |-> e.version]
      BY Zenon, <2>1, <2>2, <3>1 DEF Applied, Map
    <3>3. Replayed'[k] \in Entry
      BY <1>3, <3>2 DEF LogEntry, Entry
    <3> QED
      BY <1>5, <2>3, <3>1, <3>2, <3>3, NilAssumption
  <2>4. CASE i # n + 1
    <3>1. i \in 1..n /\ journal'[i] = journal[i]
      BY <1>3, <1>5, <2>4
    <3>2. journal[i] \in LogEntry /\ k \in Keys /\ journal[i].version \in Nat /\ k = journal[i].key
      <4>1. journal[i] \in LogEntry
        BY <1>4, <3>1
      <4> QED
        BY Zenon, <3>1, <4>1 DEF LogEntry
    <3>3. Replayed[k] # Nil /\ Replayed[k].version >= journal[i].version
      <4>1. \A l \in DOMAIN journal : l >= i /\ journal[l].key = journal[i].key => journal[l].op = "put"
        BY <1>3, <1>4, <1>5, <3>1
      <4> QED
        BY <1>4, <3>1, <3>2, <4>1 DEF AtomicInv, Survives
    <3>4. CASE e.key = k
      <4>1. e.op = "put"
        BY <1>3, <1>5, <3>4
      <4>2. e.version = Replayed[k].version + 1
        BY Zenon, <1>1, <1>3, <2>2, <3>3, <3>4, <4>1 DEF Call, NextVersion
      <4>3. Replayed'[k] = [value |-> e.value, version |-> e.version]
        BY ZenonT(60), <2>1, <2>2, <3>2, <3>4, <4>1 DEF Applied, Map
      <4>4. Replayed'[k] \in Entry /\ Replayed[k] \in Entry
        BY SMTT(60), <1>3, <2>2, <3>2, <3>3, <4>3 DEF LogEntry, Entry, Map
      <4>5. Replayed'[k] # Nil /\ Replayed[k].version \in Nat
        BY Zenon, <4>4, NilAssumption DEF Entry
      <4> QED
        BY <3>1, <3>2, <3>3, <4>2, <4>3, <4>5
    <3>5. CASE e.key # k
      <4>1. Replayed'[k] = Replayed[k]
        BY Zenon, <2>1, <2>2, <3>2, <3>5 DEF Applied, Map
      <4> QED
        BY Zenon, <3>1, <3>3, <4>1
    <3> QED
      BY Zenon, <3>4, <3>5
  <2> QED
    BY Zenon, <2>3, <2>4
<1> QED
  BY Zenon, <1>7, <1>8, <1>9, <1>11, <1>12 DEF AtomicInv

\* replicate, applyLocked and the return of the call.
LEMMA AtomicCommitAlone ==
  ASSUME TypeOK, RevisionInv, AtomicInv, NEW p \in Clients, CommitAlone(p)
  PROVE  AtomicInv'
<1>1. /\ pc[p] = "commit" /\ pc'[p] = "check"
      /\ UNCHANGED <<status, snap, loop, peers, journal, journaled, journalOpen, ops, log, req, entries, lastApplied, metsApplied>>
  BY Zenon, StoreTypes DEF CommitAlone, Goto, proc, runner, disk, hist, budget
<1>2. Call(p)'
  BY Zenon, <1>1, StepFacts DEF Call, NextVersion
<1> QED
  BY Zenon, <1>1, <1>2, StepFacts, KeepInv

LEMMA AtomicApplyClaim ==
  ASSUME TypeOK, RevisionInv, AtomicInv, NEW p \in Clients, ApplyClaim(p)
  PROVE  AtomicInv'
<1>1. /\ pc[p] = "check" /\ pc'[p] = "apply" /\ lastApplied' = req[p].index
      /\ UNCHANGED <<status, snap, loop, peers, journal, journaled, journalOpen, ops, log, req, entries, metsApplied>>
  BY Zenon, StoreTypes DEF ApplyClaim, Goto, proc, runner, disk, hist, budget
<1>2. req[p].index = Len(journal)
  BY Zenon, <1>1, CallEntry
<1>3. Call(p)'
  BY Zenon, <1>1, <1>2, StepFacts DEF Call, NextVersion
<1> QED
  BY Zenon, <1>1, <1>3, StepFacts, KeepInv

LEMMA AtomicApplyStore ==
  ASSUME TypeOK, RevisionInv, AtomicInv, NEW p \in Clients, ApplyStore(p)
  PROVE  AtomicInv'
<1>1. /\ pc[p] = "apply" /\ pc'[p] = "notify" /\ entries' = Applied(entries, req[p])
      /\ UNCHANGED <<status, snap, loop, peers, journal, journaled, journalOpen, ops, log, req, lastApplied, metsApplied>>
  BY Zenon, StoreTypes DEF ApplyStore, Goto, proc, runner, disk, hist, budget
<1>2. entries = Replay(journal, Len(journal) - 1) /\ Len(journal) > 0 /\ journal[Len(journal)] = req[p]
  BY Zenon, <1>1, StepFacts, CallEntry DEF Call
<1>3. entries' = Replay(journal, Len(journal))
  BY Zenon, <1>1, <1>2, ReplayLast DEF Replayed
<1>4. Call(p)'
  BY Zenon, <1>1, <1>3, StepFacts DEF Call
<1> QED
  BY Zenon, <1>1, <1>4, StepFacts, KeepInv

LEMMA AtomicNotify ==
  ASSUME TypeOK, RevisionInv, AtomicInv, NEW p \in Clients, Notify(p)
  PROVE  AtomicInv'
<1>1. /\ pc[p] = "notify" /\ pc'[p] = "reply" /\ metsApplied' = metsApplied + 1
      /\ UNCHANGED <<status, snap, loop, peers, journal, journaled, journalOpen, ops, log, req, entries, lastApplied>>
  BY Zenon, StoreTypes DEF Notify, Goto, proc, runner, disk, hist, budget
<1>2. Call(p)'
  BY Zenon, <1>1, StepFacts DEF Call
<1> QED
  BY <1>1, <1>2, StepFacts, KeepInv

LEMMA AtomicReply ==
  ASSUME TypeOK, RevisionInv, AtomicInv, NEW p \in Clients, Reply(p)
  PROVE  AtomicInv'
<1>1. /\ pc[p] = "reply" /\ pc'[p] = "idle"
      /\ UNCHANGED <<status, snap, loop, peers, journal, journaled, journalOpen, ops, log, entries, lastApplied, metsApplied>>
  BY Zenon, StoreTypes DEF Reply, Return, Goto, mem, proc, runner, disk, hist, budget
<1>2. Call(p)'
  BY Zenon, <1>1, StepFacts DEF Call
<1> QED
  BY Zenon, <1>1, <1>2, StepFacts, KeepInv

\* A call without peers and faults takes no other step: its index is always
\* higher than what was applied.
LEMMA AtomicStep == ASSUME TypeOK, RevisionInv, AtomicInv, NEW p \in Clients, Step(p) PROVE AtomicInv'
<1>1. ~JournalFault(p)
  BY SequentialAssumption DEF JournalFault, TypeOK
<1>2. ~CommitGroup(p)
  BY Zenon DEF AtomicInv, Alone, CommitGroup
<1>3. ~MakeAcks(p) /\ ~Dial(p) /\ ~DialStuck(p) /\ ~CountNeed(p) /\ ~AwaitQuorum(p) /\ ~AwaitTimeout(p)
  BY Zenon, StepFacts DEF MakeAcks, Dial, DialStuck, CountNeed, AwaitQuorum, AwaitTimeout, Call
<1>4. ~ApplySkip(p)
  <2> SUFFICES ASSUME ApplySkip(p) PROVE FALSE
    OBVIOUS
  <2>1. pc[p] = "check" /\ req[p].index <= lastApplied
    BY Zenon DEF ApplySkip
  <2>2. lastApplied = Len(journal) - 1 /\ Len(journal) \in Nat
    BY Zenon, <2>1, StepFacts DEF Call
  <2>3. req[p].index = Len(journal)
    BY Zenon, <2>1, CallEntry
  <2> QED
    BY <2>1, <2>2, <2>3
<1> QED
  BY SMTT(60), <1>1, <1>2, <1>3, <1>4, AtomicAppendLog, AtomicJournalClosed, AtomicJournalWrite, AtomicCommitAlone,
     AtomicApplyClaim, AtomicApplyStore, AtomicNotify, AtomicReply DEF Step
-----------------------------------------------------------------------------
(* The loop, crashes and recovery.                                         *)

\* run() takes no snapshot, since none is due; Close only closes the file.
LEMMA AtomicKeep ==
  ASSUME AtomicInv, loop' \in {"off", "select", "check", "stopped"}, journalOpen' \in {journalOpen, FALSE},
         UNCHANGED <<log, lastApplied, peers, entries, metsApplied, status, pos, pc, req, journal, snap, journaled, ops>>
  PROVE  AtomicInv'
<1>1. (Alone /\ Numbered /\ Fresh /\ HalfRead)'
  BY Zenon DEF AtomicInv, Alone, Numbered, Fresh, HalfRead
<1>2. Counted'
  BY Zenon DEF AtomicInv, Counted
<1>3. Calls'
  BY Zenon DEF AtomicInv, Calls, Call, NextVersion
<1>4. Replayed' = Replayed
  BY Zenon DEF Replayed
<1>5. Survives'
  BY Zenon, <1>4 DEF AtomicInv, Survives
<1> QED
  BY Zenon, <1>1, <1>2, <1>3, <1>5 DEF AtomicInv

LEMMA AtomicLoop == ASSUME TypeOK, AtomicInv, Loop PROVE AtomicInv'
<1>1. ~SnapshotDue
  <2>1. metsApplied \in Nat /\ SnapEvery \in Nat \ {0} /\ metsApplied < SnapEvery
    BY KVAssumption, SequentialAssumption DEF TypeOK, AtomicInv, Counted
  <2>2. \A m \in Nat, s \in Nat \ {0} : m < s => m % s = m
    OBVIOUS
  <2> QED
    BY <2>1, <2>2 DEF SnapshotDue
<1>2. loop \in {"off", "select", "check", "stopped"}
  BY Zenon DEF AtomicInv, Alone
<1>3. CASE LoopWake \/ ElectionTimeout \/ LoopStop \/ LoopCheck
  <2>1. UNCHANGED <<log, lastApplied, peers, entries, metsApplied, status, pos, pc, req, journal, snap, journaled, ops, journalOpen>>
    BY Zenon, <1>3 DEF LoopWake, ElectionTimeout, LoopStop, LoopCheck, mem, proc, client, disk, hist, budget
  <2>2. loop' \in {"off", "select", "check", "stopped"}
    BY Zenon, <1>1, <1>3 DEF LoopWake, ElectionTimeout, LoopStop, LoopCheck
  <2> QED
    BY Zenon, <2>1, <2>2, AtomicKeep
<1> QED
  BY Zenon, <1>2, <1>3 DEF Loop, SnapCopy, SnapCloseJournal, SnapRename, SnapReopen, SnapFault

\* The process dies and leaves the journal.
LEMMA AtomicDie ==
  ASSUME TypeOK, AtomicInv, Die, UNCHANGED <<journal, snap, journaled, ops>>
  PROVE  AtomicInv'
<1>1. Len(journal) \in Nat /\ Len(journal) <= ops /\ ops <= MaxOps
  BY DEF TypeOK, AtomicInv, Counted
<1>2. (Alone /\ Fresh /\ HalfRead /\ Calls)'
  BY Zenon, ConfiguredAlone DEF Die, AtomicInv, Alone, Fresh, HalfRead, Calls
<1>3. Counted'
  BY <1>1 DEF Die, Counted
<1>4. Numbered'
  BY Zenon DEF AtomicInv, Numbered
<1>5. Replayed' = Replayed
  BY Zenon DEF Replayed
<1>6. Survives'
  BY Zenon, <1>5 DEF AtomicInv, Survives
<1> QED
  BY Zenon, <1>2, <1>3, <1>4, <1>6 DEF AtomicInv

\* recover() reads the journal entry by entry.
LEMMA RecoveryKeeps ==
  ASSUME TypeOK, RevisionInv, AtomicInv, Open \/ RecoverEntry \/ RecoverDone
  PROVE  /\ \A c \in Clients : pc[c] = "idle" /\ pc'[c] = "idle"
         /\ UNCHANGED <<snap, peers, journal, journaled, ops>>
         /\ (Alone /\ Numbered /\ Survives)'
         /\ Len(journal) \in Nat /\ Len(journal) <= ops /\ ops <= MaxOps /\ metsApplied <= Len(journal)
<1>1. \A c \in Clients : pc[c] = "idle" /\ pc'[c] = "idle"
  BY Zenon DEF Open, RecoverEntry, RecoverDone, RevisionInv, client
<1>2. UNCHANGED <<snap, peers, journal, journaled, ops>>
  BY Zenon DEF Open, RecoverEntry, RecoverDone, mem, disk, hist, budget
<1>3. Numbered' /\ Alone'
  BY Zenon, <1>2 DEF Open, RecoverEntry, RecoverDone, AtomicInv, Numbered, Alone, runner
<1>4. Replayed' = Replayed
  BY Zenon, <1>2 DEF Replayed
<1>5. Survives'
  BY Zenon, <1>2, <1>4 DEF AtomicInv, Survives
<1>6. Len(journal) \in Nat /\ Len(journal) <= ops /\ ops <= MaxOps /\ metsApplied <= Len(journal)
  BY StoreTypes DEF AtomicInv, Counted
<1> QED
  BY Zenon, <1>1, <1>2, <1>3, <1>5, <1>6

LEMMA AtomicOpen == ASSUME TypeOK, RevisionInv, AtomicInv, Open PROVE AtomicInv'
<1>1. /\ UNCHANGED <<entries, lastApplied, metsApplied, log>>
      /\ status = "down" /\ status' = "recovering" /\ pos' = 1
  BY Zenon DEF Open, mem
<1>2. Fresh' /\ Calls'
  BY Zenon, <1>1 DEF Fresh, Calls
<1>3. HalfRead'
  BY <1>1, RecoveryKeeps, ReplayZero DEF HalfRead, AtomicInv, Fresh
<1>4. Counted'
  BY Zenon, <1>1, RecoveryKeeps DEF Counted
<1> QED
  BY Zenon, <1>2, <1>3, <1>4, RecoveryKeeps DEF AtomicInv

LEMMA AtomicRecoverEntry == ASSUME TypeOK, RevisionInv, AtomicInv, RecoverEntry PROVE AtomicInv'
<1>1. /\ status = "recovering" /\ status' = "recovering" /\ pos <= Len(journal) /\ pos' = pos + 1
      /\ pos > 0 /\ Len(log) = pos - 1 /\ lastApplied = pos - 1 /\ metsApplied <= pos - 1
      /\ entries = Replay(journal, pos - 1)
  BY Zenon DEF RecoverEntry, AtomicInv, HalfRead
<1>2. journal \in Seq(LogEntry) /\ log \in Seq(LogEntry) /\ pos \in Nat /\ metsApplied \in Nat
  BY Zenon, StoreTypes
<1>3. journal[pos].index = pos /\ journal[pos] \in LogEntry
  BY <1>1, <1>2 DEF AtomicInv, Numbered
<1>4. journal[pos].index > lastApplied
  BY <1>1, <1>2, <1>3
<1>5. /\ lastApplied' = Max2(lastApplied, journal[pos].index) /\ metsApplied' = metsApplied + 1
      /\ log' = Append(log, journal[pos]) /\ entries' = Applied(entries, journal[pos])
  BY Zenon, <1>4 DEF RecoverEntry
<1>6. lastApplied' = pos /\ Len(log') = pos
  BY <1>1, <1>2, <1>3, <1>5 DEF Max2
<1>7. entries' = Replay(journal, pos)
  <2>1. pos - 1 \in 0..Len(journal) /\ pos - 1 < Len(journal) /\ (pos - 1) + 1 = pos
    BY <1>1, <1>2
  <2>2. Replay(journal, (pos - 1) + 1) = Applied(Replay(journal, pos - 1), journal[(pos - 1) + 1])
    BY Zenon, <1>2, <2>1, ReplayNext
  <2> QED
    BY Zenon, <1>1, <1>5, <2>1, <2>2
<1>8. Fresh' /\ Calls'
  BY Zenon, <1>1 DEF Fresh, Calls
<1>9. HalfRead'
  <2>1. pos' - 1 = pos
    BY <1>1, <1>2
  <2> QED
    BY <1>1, <1>2, <1>5, <1>6, <1>7, <2>1, RecoveryKeeps DEF HalfRead
<1>10. Counted'
  BY <1>1, <1>2, <1>5, RecoveryKeeps DEF Counted
<1> QED
  BY Zenon, <1>8, <1>9, <1>10, RecoveryKeeps DEF AtomicInv

LEMMA AtomicRecoverDone == ASSUME TypeOK, RevisionInv, AtomicInv, RecoverDone PROVE AtomicInv'
<1>1. /\ status = "recovering" /\ status' = "up" /\ snap = Nil /\ pos > Len(journal)
      /\ UNCHANGED <<entries, lastApplied, metsApplied, log>>
  BY Zenon DEF RecoverDone, AtomicInv, Alone
<1>2. pos - 1 = Len(journal)
  BY <1>1, StoreTypes DEF AtomicInv, HalfRead
<1>3. entries = Replay(journal, Len(journal)) /\ Len(log) = Len(journal) /\ lastApplied = Len(journal)
  BY Zenon, <1>1, <1>2 DEF AtomicInv, HalfRead
<1>4. Fresh' /\ HalfRead'
  BY Zenon, <1>1 DEF Fresh, HalfRead
<1>5. Calls'
  BY Zenon, <1>1, <1>3, RecoveryKeeps DEF Calls, Call
<1>6. Counted'
  BY Zenon, <1>1, RecoveryKeeps DEF Counted
<1> QED
  BY Zenon, <1>4, <1>5, <1>6, RecoveryKeeps DEF AtomicInv

LEMMA AtomicRecovery == ASSUME TypeOK, RevisionInv, AtomicInv, Recovery PROVE AtomicInv'
<1>1. CASE RecoverFail
  BY Zenon, <1>1, AtomicDie DEF RecoverFail, hist, budget
<1> QED
  BY Zenon, <1>1, AtomicOpen, AtomicRecoverEntry, AtomicRecoverDone DEF Recovery

LEMMA AtomicNext == TypeOK /\ RevisionInv /\ AtomicInv /\ [Next]_vars => AtomicInv'
<1> SUFFICES ASSUME TypeOK, RevisionInv, AtomicInv, [Next]_vars PROVE AtomicInv'
  OBVIOUS
<1>1. CASE Close
  <2>1. UNCHANGED <<log, lastApplied, peers, entries, metsApplied, status, pos, pc, req, journal, snap, journaled, ops, loop>>
        /\ journalOpen' = FALSE
    BY Zenon, <1>1 DEF Close, mem, client, runner, hist
  <2>2. loop' \in {"off", "select", "check", "stopped"}
    BY Zenon, <2>1 DEF AtomicInv, Alone
  <2> QED
    BY Zenon, <2>1, <2>2, AtomicKeep
<1>2. CASE Crash
  BY Zenon, <1>2, AtomicDie DEF Crash, hist
<1>3. CASE UNCHANGED vars
  <2>1. UNCHANGED <<log, lastApplied, peers, entries, metsApplied, status, pos, pc, req, journal, snap, journaled, ops, loop, journalOpen>>
    BY Zenon, <1>3 DEF vars, mem, proc, client, runner, disk, hist, budget
  <2>2. loop' \in {"off", "select", "check", "stopped"}
    BY Zenon, <2>1 DEF AtomicInv, Alone
  <2> QED
    BY Zenon, <2>1, <2>2, AtomicKeep
<1> QED
  BY Zenon, <1>1, <1>2, <1>3, AtomicBegin, AtomicStep, AtomicLoop, AtomicRecovery, SequentialAssumption DEF Next

LEMMA AtomicAlways == Spec => []AtomicInv
  BY AtomicInit, AtomicNext, TypeCorrect, RevisionAlways, PTL DEF Spec
-----------------------------------------------------------------------------
(* The results.                                                            *)

\* The abstract map.
KVBar == IF status = "up" THEN entries ELSE Replayed

\* Applying the entry of a put or a delete is a step of AtomicKV.
LEMMA AppliedIsWrite ==
  ASSUME NEW e \in LogEntry, KVBar \in Map, KVBar' = Applied(KVBar, e),
         e.op = "put" => e.value \in Values
                         /\ e.version = IF KVBar[e.key] = Nil THEN 1 ELSE KVBar[e.key].version + 1
  PROVE  Abstract!Next
<1>1. e.key \in Keys /\ e.op \in {"put", "del"}
  BY Zenon DEF LogEntry
<1>2. CASE e.op = "put"
  <2> DEFINE new == [value |-> e.value, version |-> e.version]
  <2>1. KVBar' = [KVBar EXCEPT ![e.key] = new] /\ KVBar'[e.key] = new
    BY Zenon, <1>1, <1>2 DEF Applied, Map
  <2>2. new # Nil /\ new.value = e.value /\ new.version = e.version
    <3>1. new \in Entry
      BY Zenon DEF Entry, LogEntry
    <3> QED
      BY Zenon, <3>1, NilAssumption
  <2>3. IF KVBar[e.key] = Nil THEN e.version > 0 ELSE e.version = KVBar[e.key].version + 1
    BY <1>2
  <2> HIDE DEF new
  <2>4. KVBar' = [KVBar EXCEPT ![e.key] = KVBar'[e.key]]
    BY Zenon, <2>1
  <2>5. Abstract!Write(e.key, e.value)
    BY Zenon, <2>1, <2>2, <2>3, <2>4 DEF Abstract!Write, KVBar
  <2> QED
    BY Zenon, <1>1, <1>2, <2>5 DEF Abstract!Next
<1>3. CASE e.op = "del"
  <2>1. Abstract!Delete(e.key)
    BY Zenon, <1>1, <1>3 DEF Abstract!Delete, Applied, KVBar
  <2> QED
    BY Zenon, <1>1, <2>1 DEF Abstract!Next
<1> QED
  BY Zenon, <1>1, <1>2, <1>3

\* The map changes in ApplyStore, and in a crash that comes between the write to
\* the journal and ApplyStore; nowhere else.
LEMMA AtomicRefines ==
  TypeOK /\ RevisionInv /\ AtomicInv /\ [Next]_vars => [Abstract!Next]_KVBar
<1> SUFFICES ASSUME TypeOK, RevisionInv, AtomicInv, [Next]_vars, KVBar' # KVBar PROVE Abstract!Next
  OBVIOUS
<1>1. ASSUME NEW p \in Clients, pc[p] \in {"commit", "check", "apply"}, KVBar' = Applied(entries, req[p])
      PROVE  Abstract!Next
  <2>1. status = "up" /\ Call(p) /\ req[p] \in LogEntry
    BY Zenon, <1>1, StepFacts
  <2>2. KVBar = entries /\ entries \in Map
    BY <2>1 DEF KVBar, TypeOK
  <2>3. req[p].op = "put" => req[p].value \in Values
                             /\ req[p].version = IF entries[req[p].key] = Nil THEN 1 ELSE entries[req[p].key].version + 1
    BY Zenon, <1>1, <2>1 DEF Call, NextVersion
  <2> QED
    BY <1>1, <2>1, <2>2, <2>3, AppliedIsWrite
<1>2. ~UNCHANGED <<status, entries, journal>>
  BY Zenon DEF KVBar, Replayed
<1>3. ASSUME NEW p \in Clients, Begin(p) PROVE FALSE
  BY Zenon, <1>2, <1>3 DEF Begin, BeginPut, BeginDelete, BeginCAS, CASMismatch, Issue, mem, proc, disk
<1>4. ASSUME NEW p \in Clients, Step(p) PROVE Abstract!Next
  <2>1. pc[p] # "idle" /\ status' = status
    BY Zenon, <1>4 DEF Step, AppendLog, JournalWrite, JournalClosed, JournalFault, CommitAlone, CommitGroup, MakeAcks,
       Dial, DialStuck, CountNeed, AwaitQuorum,
       AwaitTimeout, ApplyClaim, ApplySkip, ApplyStore, Notify, Reply, proc
  <2>2. status = "up"
    BY Zenon, <2>1, CallsNeedUp
  <2>3. entries' # entries
    BY ZenonT(60), <2>1, <2>2 DEF KVBar
  <2>4. ApplyStore(p)
    BY <1>4, <2>3 DEF Step, AppendLog, JournalWrite, JournalClosed, JournalFault, CommitAlone, CommitGroup, MakeAcks,
       Dial, DialStuck, CountNeed, AwaitQuorum,
       AwaitTimeout, ApplyClaim, ApplySkip, Notify, Reply, mem
  <2>5. pc[p] = "apply" /\ KVBar' = Applied(entries, req[p])
    BY Zenon, <2>1, <2>2, <2>4 DEF ApplyStore, KVBar
  <2> QED
    BY <1>1, <2>5
<1>5. CASE Loop
  <2>1. loop \in {"off", "select", "check", "stopped"}
    BY Zenon DEF AtomicInv, Alone
  <2> QED
    BY Zenon, <1>2, <1>5, <2>1 DEF Loop, LoopWake, ElectionTimeout, LoopStop, LoopCheck, SnapCopy, SnapCloseJournal,
       SnapRename, SnapReopen, SnapFault, mem, proc, disk
<1>6. CASE Recovery
  <2>1. journal' = journal /\ status # "up"
    BY Zenon, <1>6 DEF Recovery, Open, RecoverEntry, RecoverFail, RecoverDone, disk
  <2>2. Replayed' = Replayed
    BY Zenon, <2>1 DEF Replayed
  <2>3. status' = "up"
    BY ZenonT(60), <2>1, <2>2 DEF KVBar
  <2>4. RecoverDone
    BY <1>6, <2>1, <2>3 DEF Recovery, Open, RecoverEntry, RecoverFail, Die
  <2>5. entries' = entries /\ status = "recovering" /\ pos > Len(journal)
    BY Zenon, <2>4 DEF RecoverDone, AtomicInv, Alone
  <2>6. pos - 1 = Len(journal) /\ entries = Replay(journal, pos - 1)
    BY <2>5 DEF AtomicInv, HalfRead, TypeOK
  <2> QED
    BY Zenon, <2>1, <2>3, <2>5, <2>6 DEF KVBar, Replayed
<1>7. CASE Close
  BY Zenon, <1>2, <1>7 DEF Close, mem
<1>8. CASE Crash
  <2>1. journal' = journal /\ status' = "down"
    BY Zenon, <1>8 DEF Crash, Die
  <2>2. Replayed' = Replayed /\ KVBar' = Replayed
    BY Zenon, <2>1 DEF Replayed, KVBar
  <2>3. status = "up" /\ entries # Replayed
    BY Zenon, <2>2 DEF KVBar
  <2>4. PICK p \in Clients : pc[p] \in {"commit", "check", "apply"}
    <3>1. PICK p \in Clients : TRUE
      BY Zenon, SequentialAssumption
    <3>2. Call(p)
      BY Zenon, <2>3 DEF AtomicInv, Calls
    <3> QED
      BY Zenon, <2>3, <3>2 DEF Call, Replayed
  <2>5. Len(journal) > 0 /\ journal[Len(journal)] = req[p] /\ entries = Replay(journal, Len(journal) - 1)
    BY Zenon, <2>3, <2>4 DEF AtomicInv, Calls, Call
  <2>6. KVBar' = Applied(entries, req[p])
    BY Zenon, <2>2, <2>5, ReplayLast
  <2> QED
    BY Zenon, <1>1, <2>4, <2>6
<1>9. ~UNCHANGED vars
  BY Zenon, <1>2 DEF vars, mem, proc, disk
<1> QED
  BY Zenon, <1>3, <1>4, <1>5, <1>6, <1>7, <1>8, <1>9, SequentialAssumption DEF Next

\* Under SequentialAssumption (one client, no peers, no failing disk, no snapshot
\* due): Put, Delete and CompareAndSwap, the journal, the loop, crashes at any
\* point and recover() implement an atomic map, in which every write takes effect
\* at once, gives a key that is there its next version, and is undone by no crash.
THEOREM StoreIsAtomic == Spec => ImplementsAtomicKV
<1>1. Init => Abstract!Init
  <2> SUFFICES ASSUME Init PROVE Abstract!Init
    OBVIOUS
  <2>1. Replayed = EmptyMap
    <3>1. journal = <<>> /\ Len(<<>>) = 0
      BY Zenon DEF Init
    <3> QED
      BY Zenon, <3>1, ReplayZero DEF Replayed
  <2>2. status # "up"
    BY Zenon DEF Init
  <2> QED
    BY Zenon, <2>1, <2>2 DEF Abstract!Init, EmptyMap
<1>2. TypeOK /\ RevisionInv /\ AtomicInv /\ [Next]_vars
        => [Abstract!Next]_(IF status = "up" THEN entries ELSE Replayed)
  BY Zenon, AtomicRefines DEF KVBar
<1> QED
  BY <1>1, <1>2, TypeCorrect, RevisionAlways, AtomicAlways, PTL DEF Spec, ImplementsAtomicKV, Abstract!Spec

\* Under SequentialAssumption, a store at rest has, at every key never deleted,
\* the newest version that was acknowledged or a later one, after any number of
\* crashes.
THEOREM AckedSurviveAlways == Spec => []AckedSurvive
<1>1. TypeOK /\ AtomicInv /\ WriteAhead => AckedSurvive
  <2> SUFFICES ASSUME TypeOK, AtomicInv, WriteAhead, Quiet, NEW e \in acked,
                      \A d \in journaled : d.key = e.key => d.op = "put"
               PROVE  entries[e.key] # Nil /\ entries[e.key].version >= e.version
    BY Zenon DEF AckedSurvive
  <2>1. PICK i \in DOMAIN journal : journal[i] = e
    BY Zenon DEF WriteAhead, AtomicInv, Numbered
  <2>2. \A l \in DOMAIN journal : journal[l].key = journal[i].key => journal[l].op = "put"
    BY Zenon, <2>1 DEF AtomicInv, Numbered
  <2>3. Replayed[e.key] # Nil /\ Replayed[e.key].version >= e.version
    BY Zenon, <2>1, <2>2 DEF AtomicInv, Survives
  <2>4. entries = Replayed
    <3>1. PICK c \in Clients : TRUE
      BY Zenon, SequentialAssumption
    <3>2. Call(c) /\ pc[c] = "idle"
      BY Zenon DEF Quiet, AtomicInv, Calls
    <3> QED
      BY Zenon, <3>2 DEF Call, Replayed
  <2> QED
    BY Zenon, <2>3, <2>4
<1> QED
  BY <1>1, TypeCorrect, AtomicAlways, WriteAheadHolds, PTL
=============================================================================
