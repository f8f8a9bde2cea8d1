----------------------------- MODULE WatchProofs -----------------------------
(***************************************************************************)
(* Proofs about two users of the store: the watchers (KVWatch), for any    *)
(* number of writers, watchers, keys and writes and any capacity of the    *)
(* channels, and the API in front of it (Api), for any clients and names.  *)
(***************************************************************************)
EXTENDS KVWatch, ApiPart, Integers, TLAPS

-----------------------------------------------------------------------------
(* The watchers.                                                           *)

MaybeEvent == Event \cup {Nil}

\* The types of the writers' and the store's state, ...
WriterTypes ==
  /\ entries \in [Keys -> Nat] /\ writes \in Nat
  /\ pc \in [Writers -> {"idle", "read", "enqueue", "drain", "fan"}]
  /\ op \in [Writers -> MaybeEvent] /\ ev \in [Writers -> MaybeEvent]
  /\ queue \in Seq(MaybeEvent) /\ batch \in [Drainers -> Seq(MaybeEvent)]

\* ... of the watchers' ...
WatcherTypes ==
  /\ phase \in [Watchers -> {"off", "registered", "on"}]
  /\ listed \in [Watchers -> SUBSET MaybeEvent]
  /\ chan \in [Watchers -> Seq(MaybeEvent)]
  /\ shut \in [Watchers -> BOOLEAN]
  /\ got \in [Watchers -> SUBSET MaybeEvent]
  /\ missed \in [Watchers -> BOOLEAN]

\* ... and what holds between the sections of a write: it has its logEntry
\* until it has read the event, and no batch before it drained the queue.
Sections ==
  \A p \in Writers : /\ pc[p] = "read" => op[p] \in Event
                     /\ pc[p] # "fan" => batch[p] = <<>>

WatchInv == WriterTypes /\ WatcherTypes /\ Sections /\ WatchersCatchUp

-----------------------------------------------------------------------------
(* Sequences as the channels and queues use them.                          *)

Has(s, e) == \E i \in DOMAIN s : s[i] = e

\* A send on a channel, or an append to the queue, adds one element.
LEMMA AppendHas ==
  ASSUME NEW S, NEW s \in Seq(S), NEW x \in S
  PROVE  /\ Append(s, x) \in Seq(S)
         /\ Has(Append(s, x), x)
         /\ \A e : Has(s, e) => Has(Append(s, x), e)
<1>1. /\ Append(s, x) \in Seq(S)
      /\ Len(s) + 1 \in DOMAIN Append(s, x) /\ Append(s, x)[Len(s) + 1] = x
  OBVIOUS
<1>2. ASSUME NEW i \in DOMAIN s
      PROVE  i \in DOMAIN Append(s, x) /\ Append(s, x)[i] = s[i]
  OBVIOUS
<1> QED
  BY <1>1, <1>2, Zenon DEF Has

\* A receive takes one.
LEMMA TailHas ==
  ASSUME NEW S, NEW s \in Seq(S), s # <<>>
  PROVE  /\ Head(s) \in S /\ Tail(s) \in Seq(S)
         /\ \A e : Has(s, e) => e = Head(s) \/ Has(Tail(s), e)
<1>1. Head(s) \in S /\ Tail(s) \in Seq(S)
  OBVIOUS
<1>2. ASSUME NEW i \in DOMAIN s, i # 1
      PROVE  i - 1 \in DOMAIN Tail(s) /\ Tail(s)[i - 1] = s[i]
  BY <1>2
<1>3. Head(s) = s[1]
  OBVIOUS
<1> QED
  BY <1>1, <1>2, <1>3, Zenon DEF Has

\* The empty queue has nothing.
LEMMA EmptyHas == \A e : ~Has(<<>>, e)
  BY DEF Has

-----------------------------------------------------------------------------
(* Types.                                                                  *)

LEMMA WatchInit == Init => WatchInv
<1> SUFFICES ASSUME Init PROVE WatchInv
  OBVIOUS
<1>1. WriterTypes /\ Sections
  BY DEF Init, WriterTypes, Sections, MaybeEvent, Drainers
<1>2. WatcherTypes
  BY DEF Init, WatcherTypes
<1>3. WatchersCatchUp
  BY Zenon DEF Init, WatchersCatchUp
<1> QED
  BY Zenon, <1>1, <1>2, <1>3 DEF WatchInv

\* The entry of a key, when there is one, is an event.
LEMMA CurrentType ==
  ASSUME WriterTypes, NEW k \in Keys
  PROVE  /\ Current(k) \in MaybeEvent
         /\ entries[k] # 0 => Current(k) \in Event /\ Current(k) # Nil
                              /\ Current(k).key = k /\ Current(k).rev = entries[k]
  BY NilAssumption DEF WriterTypes, Current, Event, MaybeEvent

LEMMA TypesStep ==
  WriterTypes /\ WatcherTypes /\ Sections /\ [Next]_vars => (WriterTypes /\ WatcherTypes /\ Sections)'
<1> SUFFICES ASSUME WriterTypes, WatcherTypes, Sections, [Next]_vars
             PROVE  (WriterTypes /\ WatcherTypes /\ Sections)'
  OBVIOUS
<1> USE DEF WriterTypes, WatcherTypes, Sections
<1>1. ASSUME NEW p \in Writers, NEW k \in Keys, StorePut(p, k)
      PROVE  (WriterTypes /\ WatcherTypes /\ Sections)'
  <2>1. [key |-> k, rev |-> writes + 1] \in Event
    BY DEF Event
  <2> QED
    BY SMTT(60), <1>1, <2>1 DEF StorePut, Goto, MaybeEvent, queueVars, watchVars
<1>2. ASSUME NEW p \in Writers, NEW k \in Keys, StoreDelete(p, k)
      PROVE  (WriterTypes /\ WatcherTypes /\ Sections)'
  <2>1. [key |-> k, rev |-> 0] \in Event
    BY Zenon DEF Event
  <2> QED
    BY <1>2, <2>1 DEF StoreDelete, Goto, MaybeEvent, queueVars, watchVars
<1>3. ASSUME NEW p \in Writers, ReadEvent(p)
      PROVE  (WriterTypes /\ WatcherTypes /\ Sections)'
  <2>1. op[p] \in Event /\ Current(op[p].key) \in MaybeEvent
    BY Zenon, <1>3, CurrentType DEF ReadEvent, Event
  <2> QED
    BY Zenon, <1>3, <2>1 DEF ReadEvent, Goto, MaybeEvent, storeVars, queueVars, watchVars
<1>4. ASSUME NEW p \in Writers, Enqueue(p)
      PROVE  (WriterTypes /\ WatcherTypes /\ Sections)'
  BY Zenon, <1>4, AppendHas DEF Enqueue, Goto, MaybeEvent, storeVars, watchVars
<1>5. ASSUME NEW p \in Writers, Drain(p)
      PROVE  (WriterTypes /\ WatcherTypes /\ Sections)'
  BY <1>5 DEF Drain, Goto, Drainers, storeVars, watchVars
<1>6. ASSUME NEW p \in Writers, Finish(p)
      PROVE  (WriterTypes /\ WatcherTypes /\ Sections)'
  BY Zenon, <1>6 DEF Finish, Goto, MaybeEvent, storeVars, queueVars, watchVars
<1>7. CASE DrainLoop
  BY <1>7, WatchAssumption DEF DrainLoop, Drainers, storeVars, writerVars, watchVars
<1>8. ASSUME NEW d \in Drainers, Fanout(d)
      PROVE  (WriterTypes /\ WatcherTypes /\ Sections)'
  <2>1. Head(batch[d]) \in MaybeEvent /\ Tail(batch[d]) \in Seq(MaybeEvent)
    BY Zenon, <1>8, TailHas DEF Fanout
  <2>2. WriterTypes' /\ Sections'
    BY Zenon, <1>8, <2>1 DEF Fanout, Drainers, storeVars, writerVars
  <2>3. WatcherTypes'
    BY ZenonT(60), <1>8, <2>1, AppendHas DEF Fanout, Subscribed
  <2> QED
    BY Zenon, <2>2, <2>3
<1>9. ASSUME NEW w \in Watchers, ListSnapshot(w)
      PROVE  (WriterTypes /\ WatcherTypes /\ Sections)'
  BY <1>9, CurrentType DEF ListSnapshot, storeVars, writerVars, queueVars
<1>10. ASSUME NEW w \in Watchers, Replay(w)
      PROVE  (WriterTypes /\ WatcherTypes /\ Sections)'
  BY <1>10, AppendHas DEF Replay, storeVars, writerVars, queueVars
<1>11. ASSUME NEW w \in Watchers, Receive(w)
      PROVE  (WriterTypes /\ WatcherTypes /\ Sections)'
  BY <1>11, TailHas DEF Receive, storeVars, writerVars, queueVars
<1>12. ASSUME NEW w \in Watchers, Register(w) \/ Timeout(w)
      PROVE  (WriterTypes /\ WatcherTypes /\ Sections)'
  BY Zenon, <1>12 DEF Register, Timeout, storeVars, writerVars, queueVars
<1>13. CASE UNCHANGED <<storeVars, writerVars, queueVars, watchVars>>
  BY Zenon, <1>13 DEF storeVars, writerVars, queueVars, watchVars
<1> QED
  BY Zenon, <1>1, <1>2, <1>3, <1>4, <1>5, <1>6, <1>7, <1>8, <1>9, <1>10, <1>11, <1>12, <1>13
     DEF Next, Write, FanoutPanics, ReplayPanics, vars
-----------------------------------------------------------------------------
(* An event stays under way until it is fanned out.                        *)

\* What is ahead of a watcher.
Reaches(w, e) == e \in got[w] \/ e \in listed[w] \/ UnderWay(e) \/ Has(chan[w], e)

\* UnderWay, with Has.
LEMMA UnderWayHas ==
  ASSUME NEW e
  PROVE  UnderWay(e) <=> \/ \E p \in Writers : pc[p] = "read" /\ op[p] = e
                         \/ \E p \in Writers : pc[p] = "enqueue" /\ ev[p] = e
                         \/ Has(queue, e)
                         \/ \E d \in Drainers : Has(batch[d], e)
  BY Zenon DEF UnderWay, Has

\* A watcher that keeps up.
Follows(w) == phase[w] = "on" /\ ~missed[w] /\ ~shut[w]

LEMMA CatchUpReaches ==
  WatchersCatchUp <=> \A w \in Watchers, k \in Keys : Follows(w) /\ entries[k] # 0 => Reaches(w, Current(k))
  BY Zenon DEF WatchersCatchUp, Reaches, Follows, Has

\* The goal of a step: every follower reaches every entry of the new map.
LEMMA CatchUpNext ==
  ASSUME \A w \in Watchers, k \in Keys : \A e :
            Follows(w)' /\ entries'[k] # 0 /\ e = Current(k)' => Reaches(w, e)'
  PROVE  WatchersCatchUp'
  BY ZenonT(60) DEF WatchersCatchUp, Reaches, Follows, Has

\* A step that leaves the map alone, makes nobody follow and takes no current
\* entry away keeps WatchersCatchUp.
LEMMA KeepCatchUp ==
  ASSUME WatchersCatchUp, entries' = entries,
         \A w \in Watchers : Follows(w)' => Follows(w),
         \A w \in Watchers, k \in Keys : \A e \in {Current(k)} :
            Follows(w)' /\ entries[k] # 0 /\ Reaches(w, e) => Reaches(w, e)'
  PROVE  WatchersCatchUp'
<1>1. \A k \in Keys : Current(k)' = Current(k)
  BY Zenon DEF Current
<1> SUFFICES ASSUME NEW w \in Watchers, NEW k \in Keys, Follows(w)', entries'[k] # 0,
                    NEW e \in {Current(k)}
             PROVE  Reaches(w, e)'
  BY Zenon, <1>1, CatchUpNext
<1> QED
  BY Zenon, CatchUpReaches

\* The same for a step that leaves the watchers alone.
LEMMA KeepUnderWay ==
  ASSUME WatchersCatchUp, entries' = entries, UNCHANGED <<phase, listed, chan, shut, got, missed>>,
         \A k \in Keys : \A e \in {Current(k)} : entries[k] # 0 /\ UnderWay(e) => UnderWay(e)'
  PROVE  WatchersCatchUp'
<1>1. \A w \in Watchers : \A e : Follows(w)' = Follows(w) /\ Has(chan'[w], e) = Has(chan[w], e)
  BY Zenon DEF Follows
<1> QED
  BY Zenon, <1>1, KeepCatchUp DEF Reaches

\* The steps of a writer hand its event on: from the logEntry to the event that
\* is read, to the queue, to the batch.
LEMMA WriteCatchUp ==
  ASSUME WatchInv, NEW p \in Writers, Write(p)
  PROVE  WatchersCatchUp'
<1> USE DEF WatchInv
<1>1. CASE ReadEvent(p)
  <2>1. entries' = entries /\ UNCHANGED <<op, queue, batch, phase, listed, chan, shut, got, missed>>
    BY Zenon, <1>1 DEF ReadEvent, storeVars, queueVars, watchVars
  <2>2. ASSUME NEW k \in Keys, NEW e \in {Current(k)}, entries[k] # 0, UnderWay(e)
        PROVE  UnderWay(e)'
    <3>1. e = Current(k) /\ e.key = k /\ e.rev # 0
      BY Zenon, <2>2, CurrentType
    <3>2. CASE pc[p] = "read" /\ op[p] = e
      <4>1. pc'[p] = "enqueue" /\ ev'[p] = e
        BY Zenon, <1>1, <3>1, <3>2 DEF ReadEvent, Goto, WriterTypes
      <4> QED
        BY <3>1, <4>1, Zenon DEF UnderWay
    <3>3. \A q \in Writers \ {p} : pc'[q] = pc[q] /\ ev'[q] = ev[q] /\ op'[q] = op[q]
      BY Zenon, <1>1 DEF ReadEvent, Goto, WriterTypes
    <3>4. pc[p] # "enqueue"
      BY Zenon, <1>1 DEF ReadEvent
    <3> QED
      BY <2>1, <2>2, <3>1, <3>2, <3>3, <3>4, ZenonT(60) DEF UnderWay
  <2> QED
    BY Zenon, <2>1, <2>2, KeepUnderWay
<1>2. CASE Enqueue(p)
  <2>1. entries' = entries /\ UNCHANGED <<op, batch, phase, listed, chan, shut, got, missed>>
    BY Zenon, <1>2 DEF Enqueue, storeVars, watchVars
  <2>2. ASSUME NEW e, UnderWay(e) PROVE UnderWay(e)'
    <3>1. Has(queue', ev[p]) /\ \A x : Has(queue, x) => Has(queue', x)
      BY Zenon, <1>2, AppendHas DEF Enqueue, WriterTypes
    <3>2. \A q \in Writers \ {p} : pc'[q] = pc[q] /\ ev'[q] = ev[q] /\ op'[q] = op[q]
      BY Zenon, <1>2 DEF Enqueue, Goto, WriterTypes
    <3>3. pc[p] = "enqueue"
      BY Zenon, <1>2 DEF Enqueue
    <3> QED
      BY <2>1, <2>2, <3>1, <3>2, <3>3, ZenonT(60) DEF UnderWay, Has
  <2> QED
    BY Zenon, <2>1, <2>2, KeepUnderWay
<1>3. CASE Drain(p)
  <2>1. entries' = entries /\ UNCHANGED <<op, ev, phase, listed, chan, shut, got, missed>>
    BY Zenon, <1>3 DEF Drain, storeVars, watchVars
  <2>2. ASSUME NEW e, UnderWay(e) PROVE UnderWay(e)'
    <3>1. batch[p] = <<>> /\ batch'[p] = queue /\ \A d \in Drainers \ {p} : batch'[d] = batch[d]
      BY Zenon, <1>3 DEF Drain, WriterTypes, Sections, Drainers
    <3>2. pc[p] = "drain" /\ \A q \in Writers \ {p} : pc'[q] = pc[q]
      BY Zenon, <1>3 DEF Drain, Goto, WriterTypes
    <3>3. p \in Drainers
      BY Zenon DEF Drainers
    <3> QED
      BY <2>1, <2>2, <3>1, <3>2, <3>3, EmptyHas, ZenonT(60) DEF UnderWay, Has
  <2> QED
    BY ZenonT(60), <2>1, <2>2, KeepUnderWay
<1>4. CASE Finish(p)
  <2>1. entries' = entries /\ UNCHANGED <<ev, queue, batch, phase, listed, chan, shut, got, missed>>
    BY Zenon, <1>4 DEF Finish, storeVars, queueVars, watchVars
  <2>2. ASSUME NEW e, UnderWay(e) PROVE UnderWay(e)'
    <3>1. pc[p] = "fan" /\ \A q \in Writers \ {p} : pc'[q] = pc[q] /\ op'[q] = op[q]
      BY Zenon, <1>4 DEF Finish, Goto, WriterTypes
    <3> QED
      BY <2>1, <2>2, <3>1, Zenon DEF UnderWay
  <2> QED
    BY Zenon, <2>1, <2>2, KeepUnderWay
<1> QED
  BY Zenon, <1>1, <1>2, <1>3, <1>4 DEF Write

\* A put or a delete starts with its own entry under way; the other keys keep
\* theirs.
LEMMA StoreCatchUp ==
  ASSUME WatchInv, NEW p \in Writers, NEW k \in Keys, StorePut(p, k) \/ StoreDelete(p, k)
  PROVE  WatchersCatchUp'
<1> USE DEF WatchInv
<1>1. UNCHANGED <<ev, queue, batch, phase, listed, chan, shut, got, missed>>
  BY Zenon DEF StorePut, StoreDelete, queueVars, watchVars
<1>2. pc[p] = "idle" /\ pc'[p] = "read" /\ \A q \in Writers \ {p} : pc'[q] = pc[q] /\ op'[q] = op[q]
  BY Zenon DEF StorePut, StoreDelete, Goto, WriterTypes
<1>3. \A e : UnderWay(e) => UnderWay(e)'
  BY <1>1, <1>2, Zenon DEF UnderWay
<1>4. \A j \in Keys \ {k} : entries'[j] = entries[j]
  BY Zenon DEF StorePut, StoreDelete, WriterTypes
<1>5. entries'[k] # 0 => op'[p] = [key |-> k, rev |-> entries'[k]]
  BY Zenon DEF StorePut, StoreDelete, WriterTypes
<1> SUFFICES ASSUME NEW w \in Watchers, NEW j \in Keys, Follows(w)', entries'[j] # 0,
                    NEW e, e = Current(j)'
             PROVE  Reaches(w, e)'
  BY Zenon, CatchUpNext
<1>6. CASE j = k
  <2>1. op'[p] = e
    BY Zenon, <1>5, <1>6 DEF Current
  <2>2. UnderWay(e)'
    BY <1>2, <2>1, Zenon DEF UnderWay
  <2> QED
    BY Zenon, <2>2 DEF Reaches
<1>7. CASE j # k
  <2>1. e = Current(j) /\ entries[j] # 0
    BY Zenon, <1>4, <1>7 DEF Current
  <2>2. Follows(w)
    BY Zenon, <1>1 DEF Follows
  <2>3. Reaches(w, e)
    BY Zenon, <2>1, <2>2, CatchUpReaches
  <2> QED
    BY <1>1, <1>3, <2>3, Zenon DEF Reaches, Has
<1> QED
  BY Zenon, <1>6, <1>7

\* run() drains the queue into a batch of its own, which is empty before.
LEMMA LoopCatchUp == ASSUME WatchInv, DrainLoop PROVE WatchersCatchUp'
<1> USE DEF WatchInv
<1>1. entries' = entries /\ UNCHANGED <<pc, op, ev, phase, listed, chan, shut, got, missed>>
  BY Zenon DEF DrainLoop, storeVars, writerVars, watchVars
<1>2. ASSUME NEW e, UnderWay(e) PROVE UnderWay(e)'
  <2>1. batch[Loop] = <<>> /\ batch'[Loop] = queue /\ \A d \in Drainers \ {Loop} : batch'[d] = batch[d]
    BY Zenon DEF DrainLoop, WriterTypes, Drainers
  <2>2. Loop \in Drainers
    BY Zenon DEF Drainers
  <2> QED
    BY <1>1, <1>2, <2>1, <2>2, EmptyHas, Zenon DEF UnderWay, Has
<1> QED
  BY Zenon, <1>1, <1>2, KeepUnderWay

\* fanout takes an event from a batch: it is now in the channel of everyone who
\* is subscribed, or that watcher has missed it.
LEMMA FanoutCatchUp == ASSUME WatchInv, NEW d \in Drainers, Fanout(d) PROVE WatchersCatchUp'
<1> USE DEF WatchInv
<1>1. entries' = entries /\ UNCHANGED <<pc, op, ev, queue, phase, listed, shut, got>>
  BY Zenon DEF Fanout, storeVars, writerVars
<1>2. batch[d] \in Seq(MaybeEvent) /\ batch[d] # <<>> /\ batch'[d] = Tail(batch[d])
      /\ \A c \in Drainers \ {d} : batch'[c] = batch[c]
  BY Zenon DEF Fanout, WriterTypes
<1>3. ASSUME NEW e, UnderWay(e) PROVE UnderWay(e)' \/ e = Head(batch[d])
  <2>1. \A x : Has(batch[d], x) => x = Head(batch[d]) \/ Has(batch'[d], x)
    BY <1>2, TailHas
  <2>2. ASSUME NEW c \in Drainers, Has(batch[c], e) PROVE Has(batch'[c], e) \/ e = Head(batch[d])
    BY Zenon, <1>2, <2>1, <2>2
  <2> QED
    BY <1>1, <1>3, <2>2, Zenon DEF UnderWay, Has
<1>4. ASSUME NEW w \in Watchers, Follows(w)'
      PROVE  /\ Follows(w)
             /\ Has(chan'[w], Head(batch[d]))
             /\ \A e : Has(chan[w], e) => Has(chan'[w], e)
  <2>1. missed[w] = FALSE /\ ~(Len(chan[w]) >= ChanCap) /\ phase[w] = "on"
    BY Zenon, <1>1, <1>4 DEF Fanout, Follows, Subscribed, WatcherTypes
  <2>2. chan'[w] = Append(chan[w], Head(batch[d]))
    BY Zenon, <2>1 DEF Fanout, Subscribed
  <2>3. Head(batch[d]) \in MaybeEvent /\ chan[w] \in Seq(MaybeEvent)
    BY Zenon, <1>2, TailHas DEF WatcherTypes
  <2> QED
    BY <1>1, <1>4, <2>1, <2>2, <2>3, AppendHas DEF Follows
<1> QED
  BY Zenon, <1>1, <1>3, <1>4, KeepCatchUp DEF Reaches

\* Watch: registration puts nobody "on"; the List that follows it has the
\* current entry of every key; the replay and the receiver hand entries on.
LEMMA WatchCatchUp ==
  ASSUME WatchInv, NEW w \in Watchers,
         Register(w) \/ ListSnapshot(w) \/ Replay(w) \/ Timeout(w) \/ Receive(w)
  PROVE  WatchersCatchUp'
<1> USE DEF WatchInv
<1>1. entries' = entries /\ UNCHANGED <<pc, op, ev, queue, batch, missed>>
  BY Zenon DEF Register, ListSnapshot, Replay, Timeout, Receive, storeVars, writerVars, queueVars
<1>2. \A e : UnderWay(e)' = UnderWay(e)
  BY Zenon, <1>1 DEF UnderWay
<1>3. CASE Register(w) \/ Timeout(w)
  <2>1. UNCHANGED <<listed, chan, got>>
    BY Zenon, <1>3 DEF Register, Timeout
  <2>2. \A v \in Watchers : Follows(v)' => Follows(v)
    BY Zenon, <1>1, <1>3 DEF Register, Timeout, Follows, WatcherTypes
  <2>3. \A v \in Watchers : \A x : Reaches(v, x) => Reaches(v, x)'
    BY Zenon, <1>2, <2>1 DEF Reaches
  <2> QED
    BY Zenon, <1>1, <2>2, <2>3, KeepCatchUp
<1>4. CASE ListSnapshot(w)
  <2>1. /\ UNCHANGED <<chan, shut, got>>
        /\ \A v \in Watchers \ {w} : phase'[v] = phase[v] /\ listed'[v] = listed[v]
        /\ \A k \in Keys : entries[k] # 0 => Current(k) \in listed'[w]
    BY ZenonT(60), <1>4, CurrentType DEF ListSnapshot, WatcherTypes
  <2> SUFFICES ASSUME NEW v \in Watchers, NEW k \in Keys, Follows(v)', entries'[k] # 0,
                      NEW e, e = Current(k)'
               PROVE  Reaches(v, e)'
    BY Zenon, CatchUpNext
  <2>2. e = Current(k) /\ entries[k] # 0
    BY Zenon, <1>1 DEF Current
  <2>3. CASE v = w
    BY Zenon, <2>1, <2>2, <2>3 DEF Reaches
  <2>4. CASE v # w
    <3>1. Follows(v)
      BY Zenon, <1>1, <2>1, <2>4 DEF Follows
    <3>2. Reaches(v, e)
      BY Zenon, <2>2, <3>1, CatchUpReaches
    <3> QED
      BY Zenon, <1>2, <2>1, <2>4, <3>2 DEF Reaches, Has
  <2> QED
    BY Zenon, <2>3, <2>4
<1>5. CASE Replay(w)
  <2>1. PICK e \in listed[w] : /\ chan' = [chan EXCEPT ![w] = Append(chan[w], e)]
                               /\ listed' = [listed EXCEPT ![w] = listed[w] \ {e}]
    BY Zenon, <1>5 DEF Replay
  <2>2. UNCHANGED <<phase, shut, got>>
    BY Zenon, <1>5 DEF Replay
  <2>3. chan'[w] = Append(chan[w], e) /\ listed'[w] = listed[w] \ {e}
        /\ \A v \in Watchers \ {w} : chan'[v] = chan[v] /\ listed'[v] = listed[v]
    BY Zenon, <2>1 DEF WatcherTypes
  <2>4. Has(chan'[w], e) /\ \A x : Has(chan[w], x) => Has(chan'[w], x)
    BY <2>3, AppendHas DEF WatcherTypes
  <2>5. \A v \in Watchers : \A x : Reaches(v, x) => Reaches(v, x)'
    BY Zenon, <1>2, <2>2, <2>3, <2>4 DEF Reaches
  <2> QED
    BY Zenon, <1>1, <2>2, <2>5, KeepCatchUp DEF Follows
<1>6. CASE Receive(w)
  <2>1. UNCHANGED <<phase, shut, listed>>
    BY Zenon, <1>6 DEF Receive
  <2>2. chan[w] # <<>> /\ chan'[w] = Tail(chan[w]) /\ got'[w] = got[w] \cup {Head(chan[w])}
        /\ \A v \in Watchers \ {w} : chan'[v] = chan[v] /\ got'[v] = got[v]
    BY Zenon, <1>6 DEF Receive, WatcherTypes
  <2>3. \A x : Has(chan[w], x) => x = Head(chan[w]) \/ Has(chan'[w], x)
    BY <2>2, TailHas DEF WatcherTypes
  <2>4. \A v \in Watchers : \A x : Reaches(v, x) => Reaches(v, x)'
    BY Zenon, <1>2, <2>1, <2>2, <2>3 DEF Reaches
  <2> QED
    BY Zenon, <1>1, <2>1, <2>4, KeepCatchUp DEF Follows
<1> QED
  BY Zenon, <1>3, <1>4, <1>5, <1>6

LEMMA WatchStep == WatchInv /\ [Next]_vars => WatchInv'
<1> SUFFICES ASSUME WatchInv, [Next]_vars PROVE WatchersCatchUp'
  BY Zenon, TypesStep DEF WatchInv
<1>1. CASE UNCHANGED <<storeVars, writerVars, queueVars, watchVars>>
  <2>1. WatchersCatchUp
    BY Zenon DEF WatchInv
  <2>2. UNCHANGED <<entries, pc, op, ev, queue, batch, phase, listed, chan, shut, got, missed>>
    BY Zenon, <1>1 DEF storeVars, writerVars, queueVars, watchVars
  <2>3. \A e : UnderWay(e) => UnderWay(e)'
    BY Zenon, <2>2 DEF UnderWay
  <2> QED
    BY Zenon, <2>1, <2>2, <2>3, KeepUnderWay
<1> QED
  BY Zenon, <1>1, WriteCatchUp, StoreCatchUp, LoopCatchUp, FanoutCatchUp, WatchCatchUp
     DEF Next, FanoutPanics, ReplayPanics, vars

\* Watch, for every interleaving of any number of writers with run(), the
\* replay goroutines, the timers and the receivers: a watcher that keeps up
\* gets, or has got, the current entry of every key.
THEOREM WatchersCatchUpAlways == Spec => []WatchersCatchUp
<1>1. WatchInv => WatchersCatchUp
  BY Zenon DEF WatchInv
<1> QED
  BY WatchInit, WatchStep, <1>1, PTL DEF Spec
-----------------------------------------------------------------------------
(* The API.                                                                 *)

\* What clients build fits the routes: the body decodes, and the method is one of
\* the path's.
Fits(r) ==
  r.from # "raw" =>
    /\ r.method \in {"GET", "POST"} /\ r.path # "objects"
    /\ r.method = "POST" => r.id # API!BadJSON /\ r.path \notin {"nodes", "logs", "models", "metrics"}
    /\ r.method = "GET" => r.path # "chat/completions"

\* A request that reached its handler fits, and comes from an administrator if
\* its method is the one that creates.
Admitted ==
  \A c \in Clients : call[c].pc = "handle" =>
    /\ Fits(call[c].req)
    /\ call[c].req.method = "POST" => call[c].user.admin

ApiInv ==
  /\ call = [c \in Clients |-> call[c]]
  /\ Admitted
  /\ API!ClientsFit

LEMMA ApiInit == API!Init => ApiInv
BY DEF API!Init, ApiInv, Admitted, API!ClientsFit, API!Idle

\* pkg/sdk/go, cmd/cloudctl and the examples, the switch of main included.
LEMMA RequestsFit ==
  ASSUME API!NamesAssumption, NEW r \in API!Requests
  PROVE  Fits(r)
<1> DEFINE Paths == {"projects", "buckets", "workloads", "services", "deployments", "networks", "volumes", "secrets", "configmaps"}
<1>1. ASSUME NEW from, NEW path \in Paths \cup {"nodes", "models"}, NEW project
      PROVE  Fits(API!Get(from, path, project))
  BY Zenon, <1>1 DEF Fits, API!Get, API!Req
<1>2. ASSUME NEW from, NEW path \in Paths \cup {"users", "chat/completions"}, NEW project, NEW n \in API!Args \cup {"echo"}
      PROVE  Fits(API!Post(from, path, project, n))
  BY Zenon, <1>2 DEF Fits, API!Post, API!Req, API!Args, API!BadJSON, API!NamesAssumption
<1>3. ASSUME NEW from, NEW path \in Paths, r \in API!ListAndCreate(from, path)
      PROVE  Fits(r)
  <2>1. PICK project \in API!InOrOut(path), n \in API!Args : r \in {API!Get(from, path, project), API!Post(from, path, project, n)}
    BY <1>3, SMT DEF API!ListAndCreate
  <2>2. Fits(API!Get(from, path, project))
    BY Zenon, <1>1
  <2>3. Fits(API!Post(from, path, project, n))
    BY Zenon, <1>2
  <2> QED
    BY Zenon, <2>1, <2>2, <2>3
<1>4. CASE r \in API!userCmd \cup API!nodeCmd \cup API!modelCmd \cup API!chatCmd
  <2>1. \/ \E path \in {"nodes", "models"} : r = API!Get("ctl", path, "")
        \/ \E path \in {"users", "chat/completions"}, n \in API!Args \cup {"echo"} : r = API!Post("ctl", path, "", n)
    BY Zenon, <1>4 DEF API!userCmd, API!nodeCmd, API!modelCmd, API!chatCmd
  <2> QED
    BY Zenon, <1>1, <1>2, <2>1
<1>5. CASE r \in API!Ctl
  BY Zenon, <1>3, <1>4, <1>5
     DEF API!Ctl, API!projectCmd, API!workloadCmd, API!serviceCmd, API!deploymentCmd, API!networkCmd, API!volumeCmd,
         API!secretCmd, API!configmapCmd, API!bucketCmd
<1>6. CASE r \in API!SDK
  <2>1. CASE r \in API!ListAndCreate("sdk", "workloads")
    BY Zenon, <1>3, <2>1
  <2>2. CASE r \in UNION {{API!Post("sdk", "projects", "", n), API!Post("sdk", "buckets", "", n)} : n \in API!Args}
    <3>1. PICK n \in API!Args : r \in {API!Post("sdk", "projects", "", n), API!Post("sdk", "buckets", "", n)}
      BY Zenon, <2>2
    <3>2. Fits(API!Post("sdk", "projects", "", n)) /\ Fits(API!Post("sdk", "buckets", "", n))
      BY Zenon, <1>2
    <3> QED
      BY Zenon, <3>1, <3>2
  <2> QED
    BY Zenon, <1>6, <2>1, <2>2 DEF API!SDK
<1>7. CASE r \in API!microservice
  <2>1. PICK n \in Names : r \in {API!Post("sdk", "projects", "", n), API!Post("sdk", "workloads", "p", n)}
    BY Zenon, <1>7 DEF API!microservice
  <2>2. n \in API!Args \cup {"echo"}
    BY Zenon DEF API!Args
  <2>3. Fits(API!Post("sdk", "projects", "", n)) /\ Fits(API!Post("sdk", "workloads", "p", n))
    BY Zenon, <1>2, <2>2
  <2> QED
    BY Zenon, <2>1, <2>3
<1>8. CASE r \in API!sdkChat \cup API!aiWorkload
  <2>1. PICK from \in {"sdk", "example"}, n \in API!Args \cup {"echo"} : r = API!Post(from, "chat/completions", "", n)
    BY Zenon, <1>8 DEF API!sdkChat, API!aiWorkload
  <2>2. Fits(API!Post(from, "chat/completions", "", n))
    BY Zenon, <1>2
  <2> QED
    BY Zenon, <2>1, <2>2
<1>9. ASSUME NEW path, r \in API!Raw(path)
      PROVE  Fits(r)
  <2>1. \/ \E m \in {"GET", "DELETE", "PATCH"}, project \in API!InOrOut(path) : r = API!Req("raw", m, path, project, "")
        \/ \E project \in API!InOrOut(path), id \in {"", API!BadJSON} \cup Names : r = API!Req("raw", "POST", path, project, id)
    BY Zenon, <1>9 DEF API!Raw
  <2>2. ASSUME NEW m, NEW project, NEW id PROVE API!Req("raw", m, path, project, id).from = "raw"
    BY Zenon DEF API!Req
  <2> QED
    BY Zenon, <2>1, <2>2 DEF Fits
<1> QED
  BY Zenon, <1>5, <1>6, <1>7, <1>8, <1>9 DEF API!Requests

\* An answer that the request does not deserve is given to nobody: 400 is for
\* requests that lack an argument.
Deserved(r, code) ==
  code \in Nat /\ (r.from # "raw" => code \notin {404, 405} /\ (code = 400 => API!Lacks(r)))

LEMMA AnsweredFacts ==
  ASSUME NEW r, NEW code, Deserved(r, code)
  PROVE  API!Answered(r, code).pc = "idle" /\ API!Answered(r, code).code \notin {400, 404, 405}
BY DEF Deserved, API!Answered, API!Idle, API!do, API!check

\* A client that gets an answer is idle, and the others go on.
LEMMA ReplyKeeps ==
  ASSUME ApiInv, NEW c \in Clients, NEW r, NEW code, Deserved(r, code),
         call' = [call EXCEPT ![c] = API!Answered(r, code)]
  PROVE  ApiInv' /\ call'[c].pc = "idle"
<1>1. API!Answered(r, code).pc = "idle" /\ API!Answered(r, code).code \notin {400, 404, 405}
  BY AnsweredFacts
<1>2. /\ call' = [d \in Clients |-> call'[d]] /\ call'[c] = API!Answered(r, code)
      /\ \A d \in Clients \ {c} : call'[d] = call[d]
  BY Zenon DEF ApiInv
<1> QED
  BY <1>1, <1>2 DEF ApiInv, Admitted, API!ClientsFit

LEMMA AuthAdmits ==
  ASSUME API!NamesAssumption, ApiInv, NEW c \in Clients, API!AuthRequired(c)
  PROVE  ApiInv' /\ UNCHANGED <<users, keys, store>>
<1>0. UNCHANGED <<users, keys, store>>
  BY Zenon DEF API!AuthRequired
<1> DEFINE t == API!Bearer(c)
           u == IF API!VerifyToken(t) THEN [id |-> t.user, admin |-> users[t.user].admin] ELSE API!NoUser
           Handled(r) == [API!Idle EXCEPT !.pc = "handle", !.req = r, !.user = u]
<1>1. PICK r \in API!Requests :
        call' = [call EXCEPT ![c] =
          IF ~API!VerifyToken(t) /\ ~API!AuthAPIKey(t) THEN API!Answered(r, 401)
          ELSE IF ~API!Authorize(u, API!VerbFor(r.method), API!ResourceFor(r.path)) THEN API!Answered(r, 403)
          ELSE Handled(r)]
  BY Zenon DEF API!AuthRequired
<1> HIDE DEF u
<1>2. CASE \E code \in {401, 403} : call' = [call EXCEPT ![c] = API!Answered(r, code)]
  <2>1. \A code \in {401, 403} : Deserved(r, code)
    BY DEF Deserved
  <2>3. PICK code \in {401, 403} : call' = [call EXCEPT ![c] = API!Answered(r, code)]
    BY ZenonT(60), <1>2
  <2>4. Deserved(r, code)
    BY <2>1
  <2>5. ApiInv'
    BY <2>3, <2>4, ReplyKeeps, ZenonT(60)
  <2> QED
    BY ZenonT(60), <1>0, <2>5
<1>3. CASE /\ API!Authorize(u, API!VerbFor(r.method), API!ResourceFor(r.path))
           /\ call' = [call EXCEPT ![c] = Handled(r)]
  <2>1. r.method = "POST" => u.admin
    <3> SUFFICES ASSUME r.method = "POST", ~u.admin PROVE FALSE
      OBVIOUS
    <3>1. API!VerbFor(r.method) = "create" /\ API!RulesFor(u) = {<<"get", "*">>, <<"list", "*">>}
      BY Zenon DEF API!VerbFor, API!RulesFor, API!BuiltinRoles
    <3>2. ~API!MatchPart("get", "create") /\ ~API!MatchPart("list", "create")
      BY Zenon DEF API!MatchPart
    <3> QED
      BY <1>3, <3>1, <3>2 DEF API!Authorize
  <2>2. Fits(r)
    BY Zenon, RequestsFit
  <2>3. /\ call' = [d \in Clients |-> call'[d]]
        /\ call'[c].req = r /\ call'[c].user = u /\ call'[c].code = 0
        /\ \A d \in Clients \ {c} : call'[d] = call[d]
    BY Zenon, <1>3 DEF ApiInv, API!Idle
  <2> QED
    BY <1>0, <2>1, <2>2, <2>3 DEF ApiInv, Admitted, API!ClientsFit
<1> HIDE DEF Handled
<1> DEFINE refused == ~API!VerifyToken(t) /\ ~API!AuthAPIKey(t)
           allowed == API!Authorize(u, API!VerbFor(r.method), API!ResourceFor(r.path))
<1>4. call' = [call EXCEPT ![c] = IF refused THEN API!Answered(r, 401)
                                  ELSE IF ~allowed THEN API!Answered(r, 403) ELSE Handled(r)]
  BY ZenonT(60), <1>1
<1> HIDE DEF refused, t
<1>5. CASE refused
  <2>1. call' = [call EXCEPT ![c] = API!Answered(r, 401)]
    BY ZenonT(60), <1>4, <1>5
  <2> QED
    BY ZenonT(60), <1>2, <2>1
<1>6. CASE ~refused /\ ~allowed
  <2>1. call' = [call EXCEPT ![c] = API!Answered(r, 403)]
    BY ZenonT(60), <1>4, <1>6
  <2> QED
    BY ZenonT(60), <1>2, <2>1
<1>7. CASE ~refused /\ allowed
  <2>1. call' = [call EXCEPT ![c] = Handled(r)]
    BY ZenonT(60), <1>4, <1>7
  <2> QED
    BY ZenonT(60), <1>3, <1>7, <2>1
<1> QED
  BY Zenon, <1>5, <1>6, <1>7

\* What a handler may do: answer, and change what is stored for an
\* administrator only.
Served(c) == ApiInv' /\ call'[c].pc = "idle" /\ (<<users, keys, store>>' # <<users, keys, store>> => call[c].user.admin)

LEMMA AnswerServes ==
  ASSUME ApiInv, NEW c \in Clients, NEW code, Deserved(call[c].req, code), API!Answer(c, code)
  PROVE  Served(c)
<1>1. UNCHANGED <<users, keys, store>> /\ call' = [call EXCEPT ![c] = API!Answered(call[c].req, code)]
  BY Zenon DEF API!Answer, API!Reply
<1>2. ApiInv' /\ call'[c].pc = "idle"
  BY Zenon, <1>1, ReplyKeeps
<1> QED
  BY Zenon, <1>1, <1>2 DEF Served

LEMMA ResourceServes ==
  ASSUME ApiInv, NEW c \in Clients, NEW project, call[c].pc = "handle", API!Resource(c, project),
         call[c].req.path \notin {"nodes", "logs", "models", "metrics"}
  PROVE  Served(c)
<1> DEFINE r == call[c].req
<1>0. Fits(r) /\ (r.method = "POST" => call[c].user.admin)
  BY Zenon DEF ApiInv, Admitted
<1>1. CASE r.method = "GET"
  <2>1. Deserved(r, 200) /\ API!Answer(c, 200)
    BY <1>1 DEF Deserved, API!Resource
  <2> QED
    BY ZenonT(60), <2>1, AnswerServes
<1>2. CASE r.method \notin {"GET", "POST"}
  <2>1. API!Answer(c, 405)
    BY Zenon, <1>2 DEF API!Resource
  <2>2. Deserved(r, 405)
    <3>1. r.from = "raw"
      BY <1>0, <1>2, Zenon DEF Fits
    <3> QED
      BY <3>1 DEF Deserved
  <2> QED
    BY <2>1, <2>2, AnswerServes
<1>3. CASE r.method = "POST"
  <2>1. API!Create(c, project)
    BY ZenonT(60), <1>3 DEF API!Resource
  <2>2. CASE r.id \in {"", API!BadJSON}
    <3>1. Deserved(r, 400)
      <4>1. r.from = "raw" \/ API!Lacks(r)
        BY <1>0, <1>3, <2>2, Zenon DEF Fits, API!Lacks
      <4> QED
        BY <4>1 DEF Deserved
    <3>2. API!Answer(c, 400)
      BY Zenon, <2>1, <2>2 DEF API!Create
    <3> QED
      BY <3>1, <3>2, AnswerServes
  <2>3. CASE r.id \notin {"", API!BadJSON} /\ API!Exists(r.path, project, r.id)
    <3>1. Deserved(r, 409)
      BY DEF Deserved
    <3>2. API!Answer(c, 409)
      BY ZenonT(60), <2>1, <2>3 DEF API!Create
    <3> QED
      BY <3>1, <3>2, AnswerServes
  <2>4. CASE r.id \notin {"", API!BadJSON} /\ ~API!Exists(r.path, project, r.id)
    <3>1. call' = [call EXCEPT ![c] = API!Answered(r, 201)]
      BY ZenonT(60), <2>1, <2>4 DEF API!Create, API!Reply
    <3>2. Deserved(r, 201)
      BY DEF Deserved
    <3>3. ApiInv' /\ call'[c].pc = "idle"
      BY Zenon, <3>1, <3>2, ReplyKeeps
    <3> QED
      BY Zenon, <1>0, <1>3, <3>3 DEF Served
  <2> QED
    BY Zenon, <2>2, <2>3, <2>4
<1> QED
  BY Zenon, <1>1, <1>2, <1>3

LEMMA InProjectServes ==
  ASSUME ApiInv, NEW c \in Clients, call[c].pc = "handle", API!InProject(c), call[c].req.path \in API!Scoped
  PROVE  Served(c)
<1>2. CASE call[c].req.project = ""
  <2>1. Deserved(call[c].req, 400)
    <3>1. API!Lacks(call[c].req)
      BY <1>2, Zenon DEF API!Lacks
    <3> QED
      BY <3>1 DEF Deserved
  <2>2. API!Answer(c, 400)
    BY ZenonT(60), <1>2 DEF API!InProject
  <2> QED
    BY <2>1, <2>2, AnswerServes
<1>3. CASE call[c].req.project # ""
  <2>1. API!Resource(c, call[c].req.project)
    BY Zenon, <1>3 DEF API!InProject
  <2>2. call[c].req.path \notin {"nodes", "logs", "models", "metrics"}
    BY Zenon DEF API!Scoped
  <2> QED
    BY Zenon, <2>1, <2>2, ResourceServes
<1> QED
  BY Zenon, <1>2, <1>3

\* The handlers with a switch of their own.
LEMMA OthersServe ==
  ASSUME ApiInv, NEW c \in Clients,
         \/ API!handleNodes(c) \/ API!handleLogs(c) \/ API!handleObjects(c) \/ API!handleUsers(c) \/ API!handleAPIKeys(c)
  PROVE  Served(c)
<1> DEFINE r == call[c].req
<1>1. call[c].pc = "handle"
  BY Zenon DEF API!handleNodes, API!handleLogs, API!handleObjects, API!handleUsers, API!handleAPIKeys, API!At
<1>2. Fits(r) /\ (r.method = "POST" => call[c].user.admin)
  BY Zenon, <1>1 DEF ApiInv, Admitted
<1>3. r.method \notin {"GET", "POST"} => r.from = "raw"
  BY <1>2, Zenon DEF Fits
<1>4. \A code \in Nat : Deserved(r, code) /\ API!Answer(c, code) => Served(c)
  BY Zenon, AnswerServes
<1>5. \A code \in Nat : code \notin {400, 404, 405} \/ r.from = "raw" => Deserved(r, code)
  BY DEF Deserved
<1>6. CASE API!handleNodes(c) \/ API!handleLogs(c)
  <2>1. API!Answer(c, IF r.method = "GET" THEN 200 ELSE 405) /\ r.path \in {"nodes", "logs"}
    BY Zenon, <1>6 DEF API!handleNodes, API!handleLogs, API!ReadOnly, API!At
  <2>2. r.method # "GET" => r.from = "raw"
    BY <1>2, <2>1, Zenon DEF Fits
  <2> QED
    BY <1>4, <1>5, <2>1, <2>2
<1>7. CASE API!handleObjects(c)
  <2>1. r.path = "objects" /\ \E code \in Nat : API!Answer(c, code)
    BY <1>7 DEF API!handleObjects, API!At
  <2>2. r.from = "raw"
    BY <1>2, <2>1, Zenon DEF Fits
  <2> QED
    BY <1>4, <1>5, <2>1, <2>2, ZenonT(60)
<1>8. CASE API!handleUsers(c) \/ API!handleAPIKeys(c)
  <2>1. CASE r.method # "POST"
    <3>1. API!Answer(c, IF r.method = "GET" THEN 200 ELSE 405)
      BY Zenon, <1>8, <2>1 DEF API!handleUsers, API!handleAPIKeys
    <3> QED
      BY <1>3, <1>4, <1>5, <2>1, <3>1
  <2>2. CASE r.method = "POST" /\ r.id \in {"", API!BadJSON}
    <3>1. r.from = "raw" \/ API!Lacks(r)
      BY <1>2, <2>2, Zenon DEF Fits, API!Lacks
    <3>2. CASE API!Answer(c, 400)
      <4>1. Deserved(r, 400)
        BY <3>1 DEF Deserved
      <4> QED
        BY <1>4, <3>2, <4>1
    <3>3. CASE API!Reply(c, 201)
      <4>1. Deserved(r, 201) /\ call' = [call EXCEPT ![c] = API!Answered(r, 201)]
        BY <1>5, <3>3 DEF API!Reply
      <4>2. ApiInv' /\ call'[c].pc = "idle"
        BY Zenon, <4>1, ReplyKeeps
      <4> QED
        BY Zenon, <1>2, <2>2, <4>2 DEF Served
    <3> QED
      BY ZenonT(60), <1>8, <2>2, <3>2, <3>3 DEF API!handleUsers, API!handleAPIKeys
  <2>3. CASE r.method = "POST" /\ r.id \notin {"", API!BadJSON}
    <3>1. API!Reply(c, 201)
      BY ZenonT(60), <1>8, <2>3 DEF API!handleUsers, API!handleAPIKeys
    <3>2. Deserved(r, 201) /\ call' = [call EXCEPT ![c] = API!Answered(r, 201)]
      BY <1>5, <3>1 DEF API!Reply
    <3>3. ApiInv' /\ call'[c].pc = "idle"
      BY ZenonT(60), <3>2, ReplyKeeps
    <3> QED
      BY ZenonT(60), <1>2, <2>3, <3>3 DEF Served
  <2> QED
    BY Zenon, <2>1, <2>2, <2>3
<1> QED
  BY Zenon, <1>6, <1>7, <1>8

LEMMA HandlersServe ==
  ASSUME ApiInv, NEW c \in Clients, API!Handle(c)
  PROVE  Served(c) /\ call[c].pc = "handle"
<1>1. CASE API!handleProjects(c) \/ API!handleBuckets(c) \/ API!handleAlerts(c)
  <2>1. call[c].pc = "handle" /\ API!Resource(c, "") /\ call[c].req.path \notin {"nodes", "logs", "models", "metrics"}
    BY Zenon, <1>1 DEF API!handleProjects, API!handleBuckets, API!handleAlerts, API!At
  <2> QED
    BY Zenon, <2>1, ResourceServes
<1>2. CASE \/ API!handleWorkloads(c) \/ API!handleServices(c) \/ API!handleDeployments(c) \/ API!handleNetworks(c)
           \/ API!handleVolumes(c) \/ API!handleSecrets(c) \/ API!handleConfigMaps(c)
  <2>1. call[c].pc = "handle" /\ API!InProject(c) /\ call[c].req.path \in API!Scoped
    BY Zenon, <1>2 DEF API!handleWorkloads, API!handleServices, API!handleDeployments, API!handleNetworks, API!handleVolumes,
                API!handleSecrets, API!handleConfigMaps, API!At, API!Scoped
  <2> QED
    BY Zenon, <2>1, InProjectServes
<1>3. CASE \/ API!handleNodes(c) \/ API!handleLogs(c) \/ API!handleObjects(c) \/ API!handleUsers(c) \/ API!handleAPIKeys(c)
  <2>1. call[c].pc = "handle"
    BY Zenon, <1>3 DEF API!handleNodes, API!handleLogs, API!handleObjects, API!handleUsers, API!handleAPIKeys, API!At
  <2> QED
    BY Zenon, <1>3, <2>1, OthersServe
<1> QED
  BY Zenon, <1>1, <1>2, <1>3 DEF API!Handle

LEMMA OpenAnswers ==
  ASSUME API!NamesAssumption, ApiInv, NEW c \in Clients, API!AnswerOpen(c)
  PROVE  ApiInv' /\ UNCHANGED <<users, keys, store>>
<1> DEFINE code(r) == IF r.path = "metrics" THEN API!handleMetrics(r) ELSE API!ServeHTTP(r)
<1>1. PICK r \in API!Requests : r.path \in API!Open /\ call' = [call EXCEPT ![c] = API!Answered(r, code(r))]
  BY Zenon DEF API!AnswerOpen
<1>2. UNCHANGED <<users, keys, store>>
  BY Zenon DEF API!AnswerOpen
<1>3. Fits(r) /\ r.path \in {"metrics", "models", "chat/completions"}
  BY Zenon, <1>1, RequestsFit DEF API!Open
<1>4. code(r) \in {200, 400, 404, 405}
  BY DEF API!handleMetrics, API!ServeHTTP, API!handleModels
<1>5. ASSUME r.from # "raw" PROVE code(r) = 200 \/ (code(r) = 400 /\ API!Lacks(r))
  <2>1. CASE r.path = "metrics"
    BY SMTT(30), <1>3, <1>5, <2>1 DEF Fits, API!handleMetrics
  <2>2. CASE r.path = "models"
    BY SMTT(30), <1>3, <1>5, <2>2 DEF Fits, API!ServeHTTP, API!handleModels
  <2>3. CASE r.path = "chat/completions"
    <3>1. r.method = "POST" /\ r.id # API!BadJSON
      BY Zenon, <1>3, <1>5, <2>3 DEF Fits
    <3>2. code(r) = IF r.id \in {"", API!BadJSON} THEN 400 ELSE 200
      BY <2>3, <3>1 DEF API!ServeHTTP
    <3> HIDE DEF code
    <3>3. CASE r.id = ""
      BY Zenon, <3>1, <3>2, <3>3 DEF API!Lacks
    <3>4. CASE r.id # ""
      BY Zenon, <3>1, <3>2, <3>4
    <3> QED
      BY Zenon, <3>3, <3>4
  <2> QED
    BY Zenon, <1>3, <2>1, <2>2, <2>3
<1>6. Deserved(r, code(r))
  BY <1>4, <1>5 DEF Deserved
<1> HIDE DEF code
<1>7. ApiInv'
  BY Zenon, <1>1, <1>6, ReplyKeeps
<1> QED
  BY Zenon, <1>2, <1>7

\* Every step keeps the invariant; what it changes of the records it changes
\* while the server is down or in the handler of an administrator's request.
LEMMA ApiStep ==
  ASSUME API!NamesAssumption, ApiInv, [API!Next]_(API!vars)
  PROVE  /\ ApiInv'
         /\ <<users, keys, store>>' # <<users, keys, store>>
              => \/ server = "down"
                 \/ \E c \in Clients : call[c].pc = "handle" /\ call'[c].pc = "idle" /\ call[c].user.admin
<1> DEFINE Goal == /\ ApiInv'
                   /\ <<users, keys, store>>' # <<users, keys, store>>
                        => \/ server = "down"
                           \/ \E c \in Clients : call[c].pc = "handle" /\ call'[c].pc = "idle" /\ call[c].user.admin
<1>1. ASSUME NEW c \in Clients, API!AuthRequired(c) \/ API!AnswerOpen(c) PROVE Goal
  <2>1. ApiInv' /\ UNCHANGED <<users, keys, store>>
    BY Zenon, <1>1, AuthAdmits, OpenAnswers
  <2> QED
    BY Zenon, <2>1
<1>2. ASSUME NEW c \in Clients, API!loginCmd(c) \/ API!sdkLogin(c) \/ API!webapp(c) PROVE Goal
  <2>1. UNCHANGED <<users, keys, store, call>>
    BY Zenon, <1>2 DEF API!loginCmd, API!sdkLogin, API!webapp, API!handleLogin
  <2> QED
    BY <2>1 DEF ApiInv, Admitted, API!ClientsFit
<1>3. ASSUME NEW c \in Clients, API!Handle(c) PROVE Goal
  BY Zenon, <1>3, HandlersServe DEF Served
<1>4. CASE API!cloudapi \/ API!cloudinit
  <2>1. server = "down" /\ UNCHANGED <<store, call>>
    BY Zenon, <1>4 DEF API!cloudapi, API!cloudinit, API!Boot
  <2> QED
    BY <2>1 DEF ApiInv, Admitted, API!ClientsFit
<1>5. CASE API!Exit
  <2>1. /\ UNCHANGED <<users, keys, store>>
        /\ call' = [c \in Clients |-> IF call[c].pc = "idle" THEN call[c] ELSE API!Idle]
    BY Zenon, <1>5 DEF API!Exit
  <2>2. API!Idle.pc = "idle" /\ API!Idle.code = 0
    BY Zenon DEF API!Idle
  <2> QED
    BY <2>1, <2>2 DEF ApiInv, Admitted, API!ClientsFit
<1>6. CASE API!Tick \/ UNCHANGED API!vars
  <2>1. UNCHANGED <<users, keys, store, call>>
    BY Zenon, <1>6 DEF API!Tick, API!vars
  <2> QED
    BY <2>1 DEF ApiInv, Admitted, API!ClientsFit
<1> QED
  BY Zenon, <1>1, <1>2, <1>3, <1>4, <1>5, <1>6 DEF API!Next, API!Step

LEMMA ApiAlways ==
  ASSUME API!NamesAssumption
  PROVE  API!Spec => []ApiInv
<1>1. ApiInv /\ [API!Next]_(API!vars) => ApiInv'
  BY Zenon, ApiStep
<1> QED
  BY <1>1, ApiInit, PTL DEF API!Spec

\* authRequired, verbFor and the handlers, for any set of clients and any
\* credentials: while a server runs, users, keys and objects change only in a
\* handler whose caller is an administrator.
THEOREM ApiOnlyAdminsWrite == API!Spec => OnlyAdminsWrite
<1> DEFINE Allowed == <<users, keys, store>>' # <<users, keys, store>>
                        => \/ server = "down"
                           \/ \E c \in Clients : call[c].pc = "handle" /\ call'[c].pc = "idle" /\ call[c].user.admin
<1>1. ApiInv /\ [API!Next]_(API!vars) => [Allowed]_(API!vars)
  BY Zenon, ApiStep, NamesAssumption
<1> HIDE DEF Allowed
<1>2. API!Spec => [][Allowed]_(API!vars)
  <2>1. API!Spec => []ApiInv
    BY Zenon, ApiAlways, NamesAssumption
  <2> QED
    BY <1>1, <2>1, PTL DEF API!Spec
<1> QED
  BY Zenon, <1>2 DEF OnlyAdminsWrite, API!OnlyAdminsWrite, Allowed

\* pkg/sdk/go, cmd/cloudctl and the examples against the routes: no request
\* they build is answered with 404 or 405, and with 400 only one that lacks its
\* project or its ID.
THEOREM ApiClientsFit == API!Spec => []ClientsFit
<1>1. ApiInv => ClientsFit
  BY Zenon DEF ApiInv, ClientsFit
<1>2. API!Spec => []ApiInv
  BY ZenonT(60), ApiAlways, NamesAssumption
<1> QED
  BY <1>1, <1>2, PTL
=============================================================================
