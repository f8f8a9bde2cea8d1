------------------------------- MODULE KVWatch -------------------------------
(***************************************************************************)
(* Watch streams of the key-value store (raft.go): how an applied write    *)
(* reaches the channels Watch returns.                                     *)
(*                                                                         *)
(* The last part of applyLocked and applyFromQueue run in the goroutine of *)
(* each writer, under four different locks taken one after the other;      *)
(* run() drains the same queue.  A writer is at                            *)
(*                                                                         *)
(*   idle -> read -> enqueue -> drain -> fan -> idle                       *)
(*                                                                         *)
(* Only what watchers can tell apart is kept: an entry is its key and the  *)
(* number of the write that made it.  How writes get their order and       *)
(* survive crashes is the business of KV.                                  *)
(***************************************************************************)
EXTENDS Naturals, Sequences, FiniteSets

CONSTANTS
  Writers, Watchers, Keys,
  Loop,        \* the goroutine of run(), which also drains the queue
  Nil,         \* no entry
  ChanCap,     \* capacity of a watch channel (256)
  MaxWrites    \* bound: writes and deletes

ASSUME WatchAssumption ==
  /\ Loop \notin Writers
  /\ ChanCap \in Nat \ {0} /\ MaxWrites \in Nat

Drainers == Writers \cup {Loop}

\* An Entry; rev 0 marks the event of a delete.
Event == [key : Keys, rev : Nat]

ASSUME NilAssumption == Nil \notin Event

VARIABLES
  entries,     \* st.entries: the number of the write, 0 if absent
  writes,      \* the number of the last write
  pc, op,      \* writers: where they are, and the logEntry they apply
  ev,          \* applyLocked's ev
  queue,       \* r.applyQueue
  batch,       \* what applyFromQueue took and has yet to fan out
  applyCh,     \* the token of r.applyCh
  phase,       \* watchers: "off", "registered", "on"
  listed,      \* entries the replay goroutine has yet to send
  chan, shut,  \* the channel, and whether its timeout closed it
  got, missed, \* history: entries received, a send was dropped
  panicked

storeVars == <<entries, writes>>
writerVars == <<pc, op, ev>>
queueVars == <<queue, batch, applyCh>>
watchVars == <<phase, listed, chan, shut, got, missed>>
vars == <<storeVars, writerVars, queueVars, watchVars, panicked>>

Init ==
  /\ entries = [k \in Keys |-> 0] /\ writes = 0
  /\ pc = [p \in Writers |-> "idle"]
  /\ op = [p \in Writers |-> Nil]
  /\ ev = [p \in Writers |-> Nil]
  /\ queue = <<>> /\ batch = [d \in Drainers |-> <<>>] /\ applyCh = FALSE
  /\ phase = [w \in Watchers |-> "off"]
  /\ listed = [w \in Watchers |-> {}]
  /\ chan = [w \in Watchers |-> <<>>]
  /\ shut = [w \in Watchers |-> FALSE]
  /\ got = [w \in Watchers |-> {}]
  /\ missed = [w \in Watchers |-> FALSE]
  /\ panicked = FALSE

Goto(p, l) == pc' = [pc EXCEPT ![p] = l]
-----------------------------------------------------------------------------
(***************************************************************************)
(* Writers                                                                 *)
(***************************************************************************)
\* applyLocked, under st.mu: a put stores the entry of its write.
StorePut(p, k) ==
  /\ ~panicked /\ pc[p] = "idle" /\ writes < MaxWrites
  /\ writes' = writes + 1
  /\ entries' = [entries EXCEPT ![k] = writes + 1]
  /\ op' = [op EXCEPT ![p] = [key |-> k, rev |-> writes + 1]]
  /\ Goto(p, "read")
  /\ UNCHANGED <<ev, queueVars, watchVars, panicked>>

StoreDelete(p, k) ==
  /\ ~panicked /\ pc[p] = "idle" /\ writes < MaxWrites
  /\ writes' = writes + 1
  /\ entries' = [entries EXCEPT ![k] = 0]
  /\ op' = [op EXCEPT ![p] = [key |-> k, rev |-> 0]]
  /\ Goto(p, "read")
  /\ UNCHANGED <<ev, queueVars, watchVars, panicked>>

\* st.get(e.Key), after st.mu was released: what another writer has put there
\* since, or nil.
Current(k) == IF entries[k] = 0 THEN Nil ELSE [key |-> k, rev |-> entries[k]]

ReadEvent(p) ==
  /\ ~panicked /\ pc[p] = "read"
  /\ ev' = [ev EXCEPT ![p] = IF op[p].rev = 0 THEN op[p] ELSE Current(op[p].key)]
  /\ Goto(p, "enqueue")
  /\ UNCHANGED <<storeVars, op, queueVars, watchVars, panicked>>

\* applyLocked, the end: queue the event and wake run().
Enqueue(p) ==
  /\ ~panicked /\ pc[p] = "enqueue"
  /\ queue' = Append(queue, ev[p])
  /\ applyCh' = TRUE
  /\ ev' = [ev EXCEPT ![p] = Nil]
  /\ Goto(p, "drain")
  /\ UNCHANGED <<storeVars, op, batch, watchVars, panicked>>

\* applyFromQueue, under applyQueueMu, called by replicate.
Drain(p) ==
  /\ ~panicked /\ pc[p] = "drain"
  /\ batch' = [batch EXCEPT ![p] = queue]
  /\ queue' = <<>>
  /\ Goto(p, "fan")
  /\ UNCHANGED <<storeVars, op, ev, applyCh, watchVars, panicked>>

\* The same, called by run() when applyCh has a token.
DrainLoop ==
  /\ ~panicked /\ applyCh /\ batch[Loop] = <<>>
  /\ applyCh' = FALSE
  /\ batch' = [batch EXCEPT ![Loop] = queue]
  /\ queue' = <<>>
  /\ UNCHANGED <<storeVars, writerVars, watchVars, panicked>>

\* applyFromQueue has fanned out all it took; replicate returns.
Finish(p) ==
  /\ ~panicked /\ pc[p] = "fan" /\ batch[p] = <<>>
  /\ op' = [op EXCEPT ![p] = Nil]
  /\ Goto(p, "idle")
  /\ UNCHANGED <<storeVars, ev, queueVars, watchVars, panicked>>
-----------------------------------------------------------------------------
(***************************************************************************)
(* fanout                                                                  *)
(***************************************************************************)
Subscribed == {w \in Watchers : phase[w] # "off"}

\* Bug variant: a watcher that is still replaying gets no events.
FanoutSkipsReplaying(d) ==
  /\ ~panicked /\ batch[d] # <<>>
  /\ Head(batch[d]) # Nil \/ Subscribed = {}
  /\ \A w \in Subscribed : ~shut[w]
  /\ LET full == {w \in Subscribed : Len(chan[w]) >= ChanCap}
         to   == {w \in Subscribed : listed[w] = {}} \ full
     IN /\ chan' = [w \in Watchers |-> IF w \in to THEN Append(chan[w], Head(batch[d])) ELSE chan[w]]
        /\ missed' = [w \in Watchers |-> missed[w] \/ w \in full]
  /\ batch' = [batch EXCEPT ![d] = Tail(batch[d])]
  /\ UNCHANGED <<storeVars, writerVars, queue, applyCh, phase, listed, shut, got, panicked>>

\* One event of the batch goes to every watcher whose channel has room; a
\* full channel misses it.
Fanout(d) ==
  /\ ~panicked /\ batch[d] # <<>>
  /\ Head(batch[d]) # Nil \/ Subscribed = {}
  /\ \A w \in Subscribed : ~shut[w]
  /\ LET full == {w \in Subscribed : Len(chan[w]) >= ChanCap}
     IN /\ chan' = [w \in Watchers |-> IF w \in Subscribed \ full
                                         THEN Append(chan[w], Head(batch[d])) ELSE chan[w]]
        /\ missed' = [w \in Watchers |-> missed[w] \/ w \in full]
  /\ batch' = [batch EXCEPT ![d] = Tail(batch[d])]
  /\ UNCHANGED <<storeVars, writerVars, queue, applyCh, phase, listed, shut, got, panicked>>

\* ev.Key of a nil event, or a send on a channel its timeout has closed
\* (watchers are never removed): the process panics.
FanoutPanics(d) ==
  /\ ~panicked /\ batch[d] # <<>> /\ Subscribed # {}
  /\ Head(batch[d]) = Nil \/ \E w \in Subscribed : shut[w]
  /\ panicked' = TRUE
  /\ UNCHANGED <<storeVars, writerVars, queueVars, watchVars>>
-----------------------------------------------------------------------------
(***************************************************************************)
(* Watch                                                                   *)
(***************************************************************************)
\* Watch, under watchMu.
Register(w) ==
  /\ ~panicked /\ phase[w] = "off"
  /\ phase' = [phase EXCEPT ![w] = "registered"]
  /\ UNCHANGED <<storeVars, writerVars, queueVars, listed, chan, shut, got, missed, panicked>>

\* Watch calls List and starts the goroutine that replays it.
ListSnapshot(w) ==
  /\ ~panicked /\ phase[w] = "registered"
  /\ listed' = [listed EXCEPT ![w] = {Current(k) : k \in Keys} \ {Nil}]
  /\ phase' = [phase EXCEPT ![w] = "on"]
  /\ UNCHANGED <<storeVars, writerVars, queueVars, chan, shut, got, missed, panicked>>

\* The replay sends, waiting for room.  It sends in the order of the keys;
\* that order is immaterial here.
Replay(w) ==
  /\ ~panicked /\ phase[w] = "on" /\ ~shut[w]
  /\ Len(chan[w]) < ChanCap
  /\ \E e \in listed[w] : /\ chan' = [chan EXCEPT ![w] = Append(chan[w], e)]
                          /\ listed' = [listed EXCEPT ![w] = listed[w] \ {e}]
  /\ UNCHANGED <<storeVars, writerVars, queueVars, phase, shut, got, missed, panicked>>

\* The timer of a Watch with a Timeout closes the channel.
Timeout(w) ==
  /\ ~panicked /\ phase[w] = "on" /\ ~shut[w]
  /\ shut' = [shut EXCEPT ![w] = TRUE]
  /\ UNCHANGED <<storeVars, writerVars, queueVars, phase, listed, chan, got, missed, panicked>>

\* The replay goroutine sends on the closed channel.
ReplayPanics(w) ==
  /\ ~panicked /\ shut[w] /\ listed[w] # {}
  /\ panicked' = TRUE
  /\ UNCHANGED <<storeVars, writerVars, queueVars, watchVars>>

\* The caller of Watch receives.
Receive(w) ==
  /\ ~panicked /\ chan[w] # <<>>
  /\ got' = [got EXCEPT ![w] = got[w] \cup {Head(chan[w])}]
  /\ chan' = [chan EXCEPT ![w] = Tail(chan[w])]
  /\ UNCHANGED <<storeVars, writerVars, queueVars, phase, listed, shut, missed, panicked>>

\* The rest of a write, once the map has changed.
Write(p) ==
  \/ ReadEvent(p) \/ Enqueue(p) \/ Drain(p) \/ Finish(p)

Next ==
  \/ \E p \in Writers : Write(p) \/ \E k \in Keys : StorePut(p, k) \/ StoreDelete(p, k)
  \/ DrainLoop
  \/ \E d \in Drainers : Fanout(d) \/ FanoutPanics(d)
  \/ \E w \in Watchers :
       \/ Register(w) \/ ListSnapshot(w) \/ Replay(w) \/ Timeout(w)
       \/ ReplayPanics(w) \/ Receive(w)

Spec == Init /\ [][Next]_vars
-----------------------------------------------------------------------------
\* The event of an entry has yet to reach the channels.
UnderWay(e) ==
  \/ \E p \in Writers : pc[p] = "read" /\ op[p] = e
  \/ \E p \in Writers : pc[p] = "enqueue" /\ ev[p] = e
  \/ \E i \in DOMAIN queue : queue[i] = e
  \/ \E d \in Drainers : \E i \in DOMAIN batch[d] : batch[d][i] = e

\* A watcher that keeps up learns of every key's current entry, by its snapshot
\* or by an event, wherever its registration and its List fall among the steps
\* of concurrent writers: the entry was received, is in its channel, in the
\* replay, or under way.
WatchersCatchUp ==
  \A w \in Watchers, k \in Keys :
    phase[w] = "on" /\ ~missed[w] /\ ~shut[w] /\ entries[k] # 0 =>
      LET e == Current(k) IN
        \/ e \in got[w] \/ e \in listed[w] \/ UnderWay(e)
        \/ \E i \in DOMAIN chan[w] : chan[w][i] = e
==============================================================================
