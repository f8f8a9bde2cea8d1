--------------------------------- MODULE KV ---------------------------------
(***************************************************************************)
(* The key-value store of internal/primitives/db (raft.go): an in-memory   *)
(* map fed by a log that is journaled to disk, with snapshots, restarts    *)
(* and a peer set.                                                         *)
(*                                                                         *)
(* Put, Delete and CompareAndSwap run concurrently in the callers'         *)
(* goroutines.  They release the mutex r.mu (or st.mu) several times on    *)
(* the way, so each of them is a sequence of actions, one per critical     *)
(* section; pc[p] names the section client p runs next:                    *)
(*                                                                         *)
(*   idle -> append -> journal -> commit                                   *)
(*        -> [make -> dial -> need -> await] -> check                      *)
(*        -> apply -> notify -> reply -> idle                              *)
(*                                                                         *)
(* The goroutine of run() is loop; its snapshot() is split in the same     *)
(* way.  Watchers and the queue of events that feeds them are modelled in  *)
(* KVWatch.  The fields role and votedFor are written and never read, and  *)
(* nextIndex and matchIndex are written and never used: they are left out. *)
(***************************************************************************)
EXTENDS Naturals, Sequences, FiniteSets

CONSTANTS
  Clients,     \* goroutines that call the store
  Keys,
  Values,
  Nil,         \* absence: of an entry, a value, a snapshot, a request
  Self,        \* cfg.NodeID
  CfgPeers,    \* cfg.Peers (openRaft adds Self)
  PeerIDs,     \* peers AddPeer and RemovePeer may name
  Bootstrap,   \* cfg.Bootstrap
  Ops,         \* the operations clients call, a subset of {"put","del","cas"}
  SnapEvery,   \* run() snapshots when this divides mets.applied (256)
  MaxOps,      \* bound: calls made in a behaviour
  MaxTerm,     \* bound: election timeouts stop at this term
  MaxCrashes,  \* bound: crashes in a behaviour
  MaxFaults,   \* bound: failing disk operations in a behaviour
  MaxCloses    \* bound: calls of Close in a behaviour

ASSUME KVAssumption ==
  /\ Nil \notin Values
  /\ Bootstrap \in BOOLEAN
  /\ Ops \subseteq {"put", "del", "cas"}
  /\ SnapEvery \in Nat \ {0}
  /\ MaxOps \in Nat /\ MaxTerm \in Nat /\ MaxCrashes \in Nat
  /\ MaxFaults \in Nat /\ MaxCloses \in Nat
  /\ IsFiniteSet(Clients)
  /\ IsFiniteSet(CfgPeers) /\ IsFiniteSet(PeerIDs)

\* logEntry; index and term are 0 until append assigns them.
LogEntry == [index : Nat, term : Nat, op : {"put", "del"}, key : Keys,
             value : Values \cup {Nil}, version : Nat]

\* Entry as st.entries keeps it, and the whole map.
Entry == [value : Values \cup {Nil}, version : Nat]
Map == [Keys -> Entry \cup {Nil}]

\* raftSnapshot; its Term is written and never read.
Image == [index : Nat, state : Map]

ASSUME NilAssumption == Nil \notin LogEntry /\ Nil \notin Entry /\ Nil \notin Image

VARIABLES
  \* the fields of raft and store: lost when the process dies
  log, currentTerm, commitIndex, lastApplied, peers, entries, version,
  metsApplied, applyCh,
  \* the process: "down", "recovering" or "up"; pos is recover()'s place in
  \* the journal; closed is set by Close; dropped is history: RemovePeer took
  \* this node off its own list of peers
  status, pos, closed, dropped,
  \* clients: next critical section, the logEntry in hand, and of replicate the
  \* room of the ack channel, then the acks received
  pc, req, acks,
  \* run(): next step of the loop, and snapshot()'s local copy
  loop, image,
  \* disk: journal.jsonl, whether r.journal is an open file, a half-written
  \* last line, and snap.json
  journal, journalOpen, torn, snap,
  \* history: entries ever journaled, and acknowledged
  journaled, acked,
  \* counters of the bounded events
  ops, crashes, faults, closes

mem    == <<log, currentTerm, commitIndex, lastApplied, peers, entries,
            version, metsApplied, applyCh>>
proc   == <<status, pos, closed, dropped>>
client == <<pc, req, acks>>
runner == <<loop, image>>
disk   == <<journal, journalOpen, torn, snap>>
hist   == <<journaled, acked>>
budget == <<ops, crashes, faults, closes>>
vars   == <<mem, proc, client, runner, disk, hist, budget>>

EmptyMap == [k \in Keys |-> Nil]

Max2(a, b) == IF a >= b THEN a ELSE b

\* Bug variant: a deleted key keeps an entry without a value.
TombstoneKept(m, e) ==
  [m EXCEPT ![e.key] = [value |-> e.value, version |-> e.version]]

\* What applying e does to the map, under st.mu.
Applied(m, e) ==
  [m EXCEPT ![e.key] = IF e.op = "put"
                         THEN [value |-> e.value, version |-> e.version]
                         ELSE Nil]

\* The version Put gives to its entry.
NextVersion(k) == IF entries[k] = Nil THEN 1 ELSE entries[k].version + 1

Goto(p, l) == pc' = [pc EXCEPT ![p] = l]

\* r.peers is a slice: cfg.Peers in the order of the configuration, and Self at
\* the end if it is not among them.
Configured ==
  LET ids == CfgPeers \cup {Self}
      n   == Cardinality(ids)
  IN {s \in [1..n -> ids] : /\ \A id \in ids : \E i \in 1..n : s[i] = id
                            /\ Self \notin CfgPeers => s[n] = Self}

Places(id) == {i \in DOMAIN peers : peers[i] = id}

\* A call is blocked in replicate while it holds r.mu for reading, so nobody
\* gets r.mu for writing.
Wedged == \E p \in Clients : pc[p] = "stuck"

\* An empty data directory and no process.
Init ==
  /\ log = <<>> /\ currentTerm = 0 /\ commitIndex = 0 /\ lastApplied = 0
  /\ peers \in Configured
  /\ entries = EmptyMap /\ version = 0 /\ metsApplied = 0 /\ applyCh = FALSE
  /\ status = "down" /\ pos = 0 /\ closed = FALSE /\ dropped = FALSE
  /\ pc = [p \in Clients |-> "idle"]
  /\ req = [p \in Clients |-> Nil]
  /\ acks = [p \in Clients |-> 0]
  /\ loop = "off" /\ image = Nil
  /\ journal = <<>> /\ journalOpen = FALSE /\ torn = FALSE /\ snap = Nil
  /\ journaled = {} /\ acked = {}
  /\ ops = 0 /\ crashes = 0 /\ faults = 0 /\ closes = 0
-----------------------------------------------------------------------------
(***************************************************************************)
(* Client calls                                                            *)
(***************************************************************************)
CanCall(p, op) == status = "up" /\ pc[p] = "idle" /\ op \in Ops /\ ops < MaxOps

Issue(p, op, k, v, ver) ==
  /\ req' = [req EXCEPT ![p] = [index |-> 0, term |-> 0, op |-> op, key |-> k,
                                value |-> v, version |-> ver]]
  /\ Goto(p, "append")
  /\ ops' = ops + 1
  /\ UNCHANGED <<mem, proc, acks, runner, disk, hist, crashes, faults, closes>>

\* Put reads the current version under r.mu and st.mu, then lets both go.
BeginPut(p, k, v) == ~Wedged /\ CanCall(p, "put") /\ Issue(p, "put", k, v, NextVersion(k))

\* Delete neither reads nor checks anything; its entry has version 0.
BeginDelete(p, k) == CanCall(p, "del") /\ Issue(p, "del", k, Nil, 0)

\* CompareAndSwap compares under st.mu.RLock and lets it go before append.
Matches(k, expect) ==
  IF entries[k] = Nil THEN expect = 0 ELSE entries[k].version = expect

BeginCAS(p, k, v, expect) ==
  /\ CanCall(p, "cas")
  /\ Matches(k, expect)
  /\ Issue(p, "put", k, v, expect + 1)

\* ErrCASMismatch: the call returns without a trace.
CASMismatch(p, k, expect) ==
  /\ CanCall(p, "cas")
  /\ ~Matches(k, expect)
  /\ ops' = ops + 1
  /\ UNCHANGED <<mem, proc, client, runner, disk, hist, crashes, faults, closes>>

\* The entry e with its index and term.
Stamped(e, i, t) == [index |-> i, term |-> t, op |-> e.op, key |-> e.key,
                     value |-> e.value, version |-> e.version]

\* append, first half: index and term are assigned and the entry joins r.log
\* under r.mu.
AppendLog(p) ==
  /\ pc[p] = "append"
  /\ ~Wedged
  /\ LET term == Max2(currentTerm, 1)
         e    == Stamped(req[p], Len(log) + 1, term)
     IN /\ currentTerm' = term
        /\ log' = Append(log, e)
        /\ req' = [req EXCEPT ![p] = e]
  /\ Goto(p, "journal")
  /\ UNCHANGED <<commitIndex, lastApplied, peers, entries, version, metsApplied,
                 applyCh, proc, acks, runner, disk, hist, budget>>

\* Bug variant: the error of the journal write is ignored.
JournalErrorIgnored(p) ==
  /\ pc[p] = "journal"
  /\ \/ journalOpen /\ journal' = Append(journal, req[p])
                    /\ journaled' = journaled \cup {req[p]}
     \/ ~journalOpen /\ UNCHANGED <<journal, journaled>>
  /\ Goto(p, "commit")
  /\ UNCHANGED <<mem, proc, req, acks, runner, journalOpen, torn, snap,
                 acked, budget>>

\* append, second half, outside every lock: the entry is written to the
\* journal and synced.
JournalWrite(p) ==
  /\ pc[p] = "journal"
  /\ journalOpen
  /\ journal' = Append(journal, req[p])
  /\ journaled' = journaled \cup {req[p]}
  /\ Goto(p, "commit")
  /\ UNCHANGED <<mem, proc, req, acks, runner, journalOpen, torn, snap,
                 acked, budget>>

\* The call returns to its caller; the entry stays in r.log in any case.
Return(p) ==
  /\ Goto(p, "idle")
  /\ req' = [req EXCEPT ![p] = Nil]
  /\ acks' = [acks EXCEPT ![p] = 0]

\* The write fails because the file is closed: snapshot() is replacing it,
\* a snapshot step failed and left it closed, or Close was called.
JournalClosed(p) ==
  /\ pc[p] = "journal"
  /\ ~journalOpen
  /\ Return(p)
  /\ UNCHANGED <<mem, proc, runner, disk, hist, budget>>

\* The disk fails: Write returns an error and nothing is written, or the
\* line is written and Sync returns an error.
JournalFault(p) ==
  /\ pc[p] = "journal"
  /\ journalOpen
  /\ faults < MaxFaults
  /\ faults' = faults + 1
  /\ \/ UNCHANGED <<journal, journaled>>
     \/ /\ journal' = Append(journal, req[p])
        /\ journaled' = journaled \cup {req[p]}
  /\ Return(p)
  /\ UNCHANGED <<mem, proc, runner, journalOpen, torn, snap, acked,
                 ops, crashes, closes>>

\* replicate, under r.mu: a node that is its group's only peer commits on its
\* own; the assignment to commitIndex is not guarded, so it may go back.
CommitAlone(p) ==
  /\ pc[p] = "commit"
  /\ ~Wedged
  /\ Len(peers) = 1
  /\ commitIndex' = req[p].index
  /\ Goto(p, "check")
  /\ UNCHANGED <<log, currentTerm, lastApplied, peers, entries, version,
                 metsApplied, applyCh, proc, req, acks, runner, disk, hist, budget>>

\* Otherwise r.mu is let go.
CommitGroup(p) ==
  /\ pc[p] = "commit"
  /\ ~Wedged
  /\ Len(peers) # 1
  /\ Goto(p, "make")
  /\ UNCHANGED <<mem, proc, req, acks, runner, disk, hist, budget>>

\* Bug variant: the channel has room for the other peers only.
RoomForOthers(p) ==
  /\ pc[p] = "make"
  /\ acks' = [acks EXCEPT ![p] = IF Len(peers) = 0 THEN 0 ELSE Len(peers) - 1]
  /\ Goto(p, "dial")
  /\ UNCHANGED <<mem, proc, req, runner, disk, hist, budget>>

\* Outside every lock: the ack channel gets room for len(r.peers) acks.
MakeAcks(p) ==
  /\ pc[p] = "make"
  /\ acks' = [acks EXCEPT ![p] = Len(peers)]
  /\ Goto(p, "dial")
  /\ UNCHANGED <<mem, proc, req, runner, disk, hist, budget>>

\* replicateTo: a peer that is reached counts as an ack (one byte is sent and
\* no answer awaited).
ReplicateTo == SUBSET {i \in DOMAIN peers : peers[i] # Self}

\* The loop over r.peers, under r.mu.RLock: every other peer is dialled in a
\* goroutine of its own, and the node's own ack is sent to the channel.
Dial(p) ==
  /\ pc[p] = "dial"
  /\ Places(Self) # {} => acks[p] > 0
  /\ \E reached \in ReplicateTo :
       acks' = [acks EXCEPT ![p] = Cardinality(reached) + (IF Places(Self) # {} THEN 1 ELSE 0)]
  /\ Goto(p, "need")
  /\ UNCHANGED <<mem, proc, req, runner, disk, hist, budget>>

\* The list has grown since the channel was made, and the acks of the peers
\* before this node may fill it: nobody receives from it yet, so the node's own
\* ack waits for ever.
DialStuck(p) ==
  /\ pc[p] = "dial"
  /\ \E i \in Places(Self) : acks[p] < i
  /\ Goto(p, "stuck")
  /\ UNCHANGED <<mem, proc, req, acks, runner, disk, hist, budget>>

Need == Len(peers) \div 2 + 1

\* Outside every lock: need is computed once, and the acks reach it or not.
CountNeed(p) ==
  /\ pc[p] = "need"
  /\ Goto(p, IF acks[p] >= Need THEN "await" ELSE "late")
  /\ UNCHANGED <<mem, proc, req, acks, runner, disk, hist, budget>>

\* Enough acks arrived.
AwaitQuorum(p) ==
  /\ pc[p] = "await"
  /\ ~Wedged
  /\ commitIndex' = Max2(commitIndex, req[p].index)
  /\ Goto(p, "check")
  /\ acks' = [acks EXCEPT ![p] = 0]
  /\ UNCHANGED <<log, currentTerm, lastApplied, peers, entries, version,
                 metsApplied, applyCh, proc, req, runner, disk, hist, budget>>

\* Bug variant: the timer counts only while no peer has answered.
TimeoutOnlyIfAlone(p) ==
  /\ pc[p] = "late"
  /\ acks[p] = 0
  /\ Return(p)
  /\ UNCHANGED <<mem, proc, runner, disk, hist, budget>>

\* The 2s timer fires: "db: replication timeout".
AwaitTimeout(p) ==
  /\ pc[p] = "late"
  /\ Return(p)
  /\ UNCHANGED <<mem, proc, runner, disk, hist, budget>>

\* Bug variant: applyLocked without its test of lastApplied.
ClaimWithoutTest(p) ==
  /\ pc[p] = "check"
  /\ ~Wedged
  /\ lastApplied' = req[p].index
  /\ Goto(p, "apply")
  /\ UNCHANGED <<log, currentTerm, commitIndex, peers, entries, version,
                 metsApplied, applyCh, proc, req, acks, runner, disk, hist, budget>>

\* applyLocked, under r.mu: claim the index.
ApplyClaim(p) ==
  /\ pc[p] = "check"
  /\ ~Wedged
  /\ req[p].index > lastApplied
  /\ lastApplied' = req[p].index
  /\ Goto(p, "apply")
  /\ UNCHANGED <<log, currentTerm, commitIndex, peers, entries, version,
                 metsApplied, applyCh, proc, req, acks, runner, disk, hist, budget>>

\* applyLocked returns early: a later index was claimed first.
ApplySkip(p) ==
  /\ pc[p] = "check"
  /\ ~Wedged
  /\ req[p].index <= lastApplied
  /\ Goto(p, "reply")
  /\ UNCHANGED <<mem, proc, req, acks, runner, disk, hist, budget>>

\* applyLocked, under st.mu: the map changes.
ApplyStore(p) ==
  /\ pc[p] = "apply"
  /\ entries' = Applied(entries, req[p])
  /\ version' = version + 1
  /\ Goto(p, "notify")
  /\ UNCHANGED <<log, currentTerm, commitIndex, lastApplied, peers, metsApplied,
                 applyCh, proc, req, acks, runner, disk, hist, budget>>

\* applyLocked, the end: count and wake run().
Notify(p) ==
  /\ pc[p] = "notify"
  /\ metsApplied' = metsApplied + 1
  /\ applyCh' = TRUE
  /\ Goto(p, "reply")
  /\ UNCHANGED <<log, currentTerm, commitIndex, lastApplied, peers, entries,
                 version, proc, req, acks, runner, disk, hist, budget>>

\* The call returns without an error.
Reply(p) ==
  /\ pc[p] = "reply"
  /\ acked' = acked \cup {req[p]}
  /\ Return(p)
  /\ UNCHANGED <<mem, proc, runner, disk, journaled, budget>>
-----------------------------------------------------------------------------
(***************************************************************************)
(* Membership                                                              *)
(***************************************************************************)
AddPeer(id) ==
  /\ status = "up"
  /\ ~Wedged
  /\ Places(id) = {}
  /\ peers' = Append(peers, id)
  /\ UNCHANGED <<log, currentTerm, commitIndex, lastApplied, entries, version,
                 metsApplied, applyCh, proc, client, runner, disk, hist, budget>>

RemovePeer(id) ==
  /\ status = "up"
  /\ ~Wedged
  /\ \E i \in Places(id) :
       peers' = [j \in 1..(Len(peers) - 1) |-> IF j < i THEN peers[j] ELSE peers[j + 1]]
  /\ dropped' = (dropped \/ id = Self)
  /\ UNCHANGED <<log, currentTerm, commitIndex, lastApplied, entries, version,
                 metsApplied, applyCh, status, pos, closed, client, runner, disk,
                 hist, budget>>
-----------------------------------------------------------------------------
(***************************************************************************)
(* run() and snapshot()                                                    *)
(***************************************************************************)
\* case <-r.applyCh: the queue is fanned out (KVWatch).
LoopWake ==
  /\ loop = "select"
  /\ applyCh
  /\ applyCh' = FALSE
  /\ loop' = "check"
  /\ UNCHANGED <<log, currentTerm, commitIndex, lastApplied, peers, entries,
                 version, metsApplied, image, proc, client, disk, hist, budget>>

\* case <-r.electionTimer.C
ElectionTimeout ==
  /\ loop = "select"
  /\ ~Wedged
  /\ currentTerm < MaxTerm
  /\ currentTerm' = currentTerm + 1
  /\ loop' = "check"
  /\ UNCHANGED <<log, commitIndex, lastApplied, peers, entries, version,
                 metsApplied, applyCh, image, proc, client, disk, hist, budget>>

\* case <-r.stopCh
LoopStop ==
  /\ loop = "select"
  /\ closed
  /\ loop' = "stopped"
  /\ UNCHANGED <<mem, proc, client, image, disk, hist, budget>>

SnapshotDue == metsApplied > 0 /\ metsApplied % SnapEvery = 0

LoopCheck ==
  /\ loop = "check"
  /\ loop' = IF SnapshotDue THEN "copy" ELSE "select"
  /\ UNCHANGED <<mem, proc, client, image, disk, hist, budget>>

\* snapshot, under st.mu.RLock: copy the map and the revision.
SnapCopy ==
  /\ loop = "copy"
  /\ image' = [index |-> version, state |-> entries]
  /\ loop' = "close"
  /\ UNCHANGED <<mem, proc, client, disk, hist, budget>>

\* snap.json.tmp is written (recover never reads it) and the journal closed;
\* closing a file that Close has closed is an error and ends the snapshot.
SnapCloseJournal ==
  /\ loop = "close"
  /\ IF journalOpen
       THEN loop' = "rename" /\ UNCHANGED image
       ELSE loop' = "select" /\ image' = Nil
  /\ journalOpen' = FALSE
  /\ UNCHANGED <<mem, proc, client, journal, torn, snap, hist, budget>>

SnapRename ==
  /\ loop = "rename"
  /\ snap' = image
  /\ image' = Nil
  /\ loop' = "reopen"
  /\ UNCHANGED <<mem, proc, client, journal, journalOpen, torn, hist, budget>>

\* The journal is reopened with O_TRUNC.
SnapReopen ==
  /\ loop = "reopen"
  /\ journal' = <<>>
  /\ journalOpen' = TRUE
  /\ loop' = "select"
  /\ UNCHANGED <<mem, proc, client, image, torn, snap, hist, budget>>

\* A file operation of snapshot() fails; run() drops the error.  Past the
\* close, the journal stays closed.
SnapFault ==
  /\ loop \in {"close", "rename", "reopen"}
  /\ faults < MaxFaults
  /\ faults' = faults + 1
  /\ image' = Nil
  /\ loop' = "select"
  /\ UNCHANGED <<mem, proc, client, disk, hist, ops, crashes, closes>>
-----------------------------------------------------------------------------
(***************************************************************************)
(* The process: openRaft, recover, Close and crashes                       *)
(***************************************************************************)
\* The process ends: everything in memory is lost.
Die ==
  /\ log' = <<>> /\ currentTerm' = 0 /\ commitIndex' = 0 /\ lastApplied' = 0
  /\ peers' \in Configured
  /\ entries' = EmptyMap /\ version' = 0 /\ metsApplied' = 0 /\ applyCh' = FALSE
  /\ status' = "down" /\ pos' = 0 /\ closed' = FALSE /\ dropped' = FALSE
  /\ pc' = [p \in Clients |-> "idle"]
  /\ req' = [p \in Clients |-> Nil]
  /\ acks' = [p \in Clients |-> 0]
  /\ loop' = "off" /\ image' = Nil
  /\ journalOpen' = FALSE

\* openRaft up to recover: the journal is opened for appending.
Open ==
  /\ status = "down"
  /\ status' = "recovering"
  /\ pos' = 1
  /\ journalOpen' = TRUE
  /\ UNCHANGED <<mem, closed, dropped, client, runner, journal, torn, snap, hist, budget>>

\* One turn of recover's loop: the entry joins r.log and goes through
\* applyLocked, whether or not it was ever committed.
RecoverEntry ==
  /\ status = "recovering"
  /\ pos <= Len(journal)
  /\ LET e     == journal[pos]
         fresh == e.index > lastApplied
     IN /\ log' = Append(log, e)
        /\ currentTerm' = Max2(currentTerm, e.term)
        /\ commitIndex' = IF Len(peers) = 1 THEN Max2(commitIndex, e.index)
                                             ELSE commitIndex
        /\ lastApplied' = Max2(lastApplied, e.index)
        /\ entries' = IF fresh THEN Applied(entries, e) ELSE entries
        /\ version' = IF fresh THEN version + 1 ELSE version
        /\ metsApplied' = IF fresh THEN metsApplied + 1 ELSE metsApplied
        /\ applyCh' = (applyCh \/ fresh)
  /\ pos' = pos + 1
  /\ UNCHANGED <<peers, status, closed, dropped, client, runner, disk, journaled,
                 acked, budget>>

\* The journal ends in half a line: Decode returns io.ErrUnexpectedEOF,
\* recover returns it and openRaft fails.
RecoverFail ==
  /\ status = "recovering"
  /\ pos > Len(journal)
  /\ torn
  /\ Die
  /\ UNCHANGED <<journal, torn, snap, hist, budget>>

\* Bug variant: the snapshot is loaded but lastApplied is left alone.
SnapshotLoadedOnly ==
  /\ status = "recovering"
  /\ pos > Len(journal)
  /\ ~torn
  /\ IF snap = Nil
       THEN UNCHANGED <<entries, version, commitIndex>>
       ELSE /\ entries' = snap.state
            /\ version' = snap.index
            /\ commitIndex' = snap.index
  /\ currentTerm' = IF Bootstrap THEN Max2(currentTerm, 1) ELSE currentTerm
  /\ status' = "up"
  /\ pos' = 0
  /\ loop' = "select"
  /\ UNCHANGED <<log, lastApplied, peers, metsApplied, applyCh, closed, dropped, client,
                 image, disk, hist, budget>>

\* Bug variant: the loop ends one entry early.
RecoverStopsEarly ==
  /\ status = "recovering"
  /\ pos >= Len(journal)
  /\ ~torn
  /\ IF snap = Nil
       THEN UNCHANGED <<entries, version, commitIndex, lastApplied>>
       ELSE /\ entries' = snap.state
            /\ version' = snap.index
            /\ commitIndex' = snap.index
            /\ lastApplied' = snap.index
  /\ currentTerm' = IF Bootstrap THEN Max2(currentTerm, 1) ELSE currentTerm
  /\ status' = "up"
  /\ pos' = 0
  /\ loop' = "select"
  /\ UNCHANGED <<log, peers, metsApplied, applyCh, closed, dropped, client, image,
                 disk, hist, budget>>

\* The rest of recover and openRaft: snap.json, if there is one, replaces what
\* the journal produced; run() starts.
RecoverDone ==
  /\ status = "recovering"
  /\ pos > Len(journal)
  /\ ~torn
  /\ IF snap = Nil
       THEN UNCHANGED <<entries, version, commitIndex, lastApplied>>
       ELSE /\ entries' = snap.state
            /\ version' = snap.index
            /\ commitIndex' = snap.index
            /\ lastApplied' = snap.index
  /\ currentTerm' = IF Bootstrap THEN Max2(currentTerm, 1) ELSE currentTerm
  /\ status' = "up"
  /\ pos' = 0
  /\ loop' = "select"
  /\ UNCHANGED <<log, peers, metsApplied, applyCh, closed, dropped, client, image,
                 disk, hist, budget>>

\* Close: stopCh is closed for run() and the journal file is closed.
Close ==
  /\ status = "up"
  /\ ~closed
  /\ closes < MaxCloses
  /\ closes' = closes + 1
  /\ closed' = TRUE
  /\ journalOpen' = FALSE
  /\ UNCHANGED <<mem, status, pos, dropped, client, runner, journal, torn, snap, hist,
                 ops, crashes, faults>>

\* The process dies.  A journal write it was in the middle of may leave half
\* a line behind.
Crash ==
  /\ status # "down"
  /\ crashes < MaxCrashes
  /\ crashes' = crashes + 1
  /\ torn' \in {torn, torn \/ \E p \in Clients : pc[p] = "journal" /\ journalOpen}
  /\ Die
  /\ UNCHANGED <<journal, snap, hist, ops, faults, closes>>
-----------------------------------------------------------------------------
Begin(p) ==
  \E k \in Keys :
    \/ \E v \in Values : BeginPut(p, k, v)
    \/ BeginDelete(p, k)
    \/ \E expect \in 0..MaxOps : CASMismatch(p, k, expect) \/ \E v \in Values : BeginCAS(p, k, v, expect)

\* The steps of a call that is under way.
Step(p) ==
  \/ AppendLog(p) \/ JournalWrite(p) \/ JournalClosed(p) \/ JournalFault(p)
  \/ CommitAlone(p) \/ CommitGroup(p) \/ MakeAcks(p) \/ Dial(p) \/ DialStuck(p)
  \/ CountNeed(p) \/ AwaitQuorum(p) \/ AwaitTimeout(p)
  \/ ApplyClaim(p) \/ ApplySkip(p) \/ ApplyStore(p) \/ Notify(p) \/ Reply(p)

Loop ==
  \/ LoopWake \/ ElectionTimeout \/ LoopStop \/ LoopCheck
  \/ SnapCopy \/ SnapCloseJournal \/ SnapRename \/ SnapReopen \/ SnapFault

Recovery == Open \/ RecoverEntry \/ RecoverFail \/ RecoverDone

Next ==
  \/ \E p \in Clients : Begin(p) \/ Step(p)
  \/ Loop
  \/ Recovery
  \/ Close
  \/ Crash
  \/ \E id \in PeerIDs : AddPeer(id) \/ RemovePeer(id)

Spec == Init /\ [][Next]_vars

\* Goroutines run, the loop is scheduled and a supervisor restarts the
\* process.  Clients need not call, nothing has to crash or to fail.
Fairness ==
  /\ \A p \in Clients : WF_vars(Step(p))
  /\ WF_vars(Loop)
  /\ WF_vars(Recovery)

FairSpec == Spec /\ Fairness
-----------------------------------------------------------------------------
(***************************************************************************)
(* Properties                                                              *)
(***************************************************************************)
Sections == {"idle", "append", "journal", "commit", "make", "dial", "stuck", "need",
             "await", "late", "check", "apply", "notify", "reply"}

\* Every variable of the store has its type; a call that is under way has a
\* log entry in hand, and snapshot() has its copy between taking it and
\* renaming the file.
TypeOK ==
  /\ log \in Seq(LogEntry) /\ journal \in Seq(LogEntry)
  /\ currentTerm \in Nat /\ commitIndex \in Nat /\ lastApplied \in Nat
  /\ peers \in Seq(CfgPeers \cup PeerIDs \cup {Self})
  /\ entries \in Map /\ version \in Nat /\ metsApplied \in Nat
  /\ applyCh \in BOOLEAN
  /\ status \in {"down", "recovering", "up"} /\ pos \in Nat /\ closed \in BOOLEAN
  /\ dropped \in BOOLEAN
  /\ status = "recovering" => pos > 0
  /\ pc \in [Clients -> Sections]
  /\ req \in [Clients -> LogEntry \cup {Nil}]
  /\ \A p \in Clients : pc[p] # "idle" => req[p] \in LogEntry
  /\ acks \in [Clients -> Nat]
  /\ loop \in {"off", "select", "check", "copy", "close", "rename", "reopen", "stopped"}
  /\ image \in Image \cup {Nil}
  /\ loop \in {"close", "rename"} => image \in Image
  /\ journalOpen \in BOOLEAN /\ torn \in BOOLEAN
  /\ snap \in Image \cup {Nil}
  /\ journaled \in SUBSET LogEntry /\ acked \in SUBSET LogEntry
  /\ ops \in Nat /\ crashes \in Nat /\ faults \in Nat /\ closes \in Nat

\* Every entry of the map m was written by a put among the log entries J.
AllWrittenBy(J, m) ==
  \A k \in Keys : m[k] # Nil =>
    \E j \in J : /\ j.op = "put" /\ j.key = k
                 /\ j.value = m[k].value /\ j.version = m[k].version

\* Write-ahead (kv.go: "Every write is durably journaled before being
\* applied"): whatever a reader can see, in this process or after any number
\* of crashes, failed writes and snapshots, was written to the journal first,
\* and so was every write that was acknowledged.
WriteAhead == AllWrittenBy(journaled, entries) /\ acked \subseteq journaled

\* Its inductive form: a call past the journal write holds a journaled entry,
\* and the journal, the snapshot file and the copy snapshot() is about to write
\* hold nothing else.
WriteAheadInv ==
  /\ WriteAhead
  /\ \A i \in DOMAIN journal : journal[i] \in journaled
  /\ \A p \in Clients : pc[p] \notin {"idle", "append", "journal"} => req[p] \in journaled
  /\ image # Nil => AllWrittenBy(journaled, image.state)
  /\ snap # Nil => AllWrittenBy(journaled, snap.state)

\* Clients between claiming an index in applyLocked and writing the map.
Claiming == {p \in Clients : pc[p] = "apply"}

\* applyLocked counts every operation it lets through in st.version, and
\* snapshot() stores that count as the index recover() resumes from.  It never
\* runs ahead of the highest index claimed, in-flight operations included, so
\* a snapshot never claims more of the log than was let through.
RevisionBound == version + Cardinality(Claiming) <= lastApplied

\* A call is past applyLocked only if lastApplied has reached its index: no
\* call is acknowledged before its entry was applied or overtaken.
RepliesCovered ==
  \A p \in Clients : pc[p] \in {"apply", "notify", "reply"} => req[p].index <= lastApplied

\* The inductive form of the two: there are no calls unless the process is up,
\* so recover() may set lastApplied to what the snapshot says.
RevisionInv ==
  /\ status # "up" => \A p \in Clients : pc[p] = "idle"
  /\ RevisionBound
  /\ RepliesCovered

\* append stamps entries with currentTerm and recover raises it to what it
\* reads: the node's term covers every entry of its log, after restarts too,
\* although the term itself is never persisted.
TermCoversLog == \A i \in DOMAIN log : log[i].term <= currentTerm

\* replicate sends the node's own ack while it holds r.mu, into a channel that it
\* made before it took the lock, and reads r.peers anew for the loop.  The send
\* never blocks, whatever peers come and go in between, unless RemovePeer has
\* taken the node itself off the list.
OwnAckFits == Wedged => dropped

\* Its inductive form: a node that was not taken off the list has its place in
\* it, and others come after that place or leave from before it, so the channel
\* a call has made covers the place.
AckRoomInv ==
  /\ OwnAckFits
  /\ ~dropped =>
       /\ Places(Self) # {}
       /\ \A p \in Clients : pc[p] = "dial" => \A i \in Places(Self) : i <= acks[p]

\* Every call returns, whatever happens to the journal, the peers and the
\* process meanwhile, as long as no call is stuck with the mutex.
CallsReturn == \A p \in Clients : pc[p] # "idle" ~> pc[p] = "idle" \/ Wedged

\* The store is at rest.
Quiet == status = "up" /\ \A p \in Clients : pc[p] = "idle"

\* A store at rest has, at every key that was never deleted, the newest version
\* acknowledged there or a later one, restarts included (what append journaled
\* and recover reads back).
AckedSurvive ==
  Quiet => \A e \in acked :
             (\A d \in journaled : d.key = e.key => d.op = "put") =>
             entries[e.key] # Nil /\ entries[e.key].version >= e.version

\* CompareAndSwap, and Put with the version it has read, replace the entry they
\* have read ("atomically replaces the value if its current version equals
\* expectVersion", kv.go:54): nobody writes the key between the test and the
\* write.
SwapsAtomic ==
  [][\A p \in Clients : ApplyStore(p) /\ req[p].op = "put"
       => NextVersion(req[p].key) = req[p].version]_vars
=============================================================================
