--------------------------------- MODULE MQ ---------------------------------
(***************************************************************************)
(* One topic of the in-memory broker of internal/primitives/mq.            *)
(*                                                                         *)
(* A consumer is one goroutine started by Subscribe; the consumers of a    *)
(* group share a cursor.  pc[c] is where deliverOnce is:                   *)
(*                                                                         *)
(*   off | poll -> take -> handle -> poll                                  *)
(*                                -> count -> dead -> poll                 *)
(*                                -> count -> reset -> set -> append       *)
(*                                         -> fill -> poll                 *)
(*                                                                         *)
(* deliverOnce reads t.queue under gs.mu and not under t.mu, so it can see *)
(* append(t.queue, mv) half done: the new length is stored before the new  *)
(* element.  All copies of a message in the queue are the same *Message,   *)
(* and deliverOnce replaces its Headers under no lock.                     *)
(***************************************************************************)
EXTENDS Naturals, Sequences, FiniteSets

CONSTANTS
  Messages,    \* the messages published
  Carried,     \* the counts that the "retries" header of a caller may hold; 0: none
  Consumers,
  Groups,
  GroupOf,     \* the group each consumer subscribes to
  Nil,         \* a nil *Message, nothing in hand
  MaxRetries,  \* cfg.MaxRetries
  DLQCap,      \* capacity of the DLQ channel (1024)
  MaxFails,    \* bound: handler calls that return an error once a counter was torn
  MaxCancels   \* bound: contexts that end

ASSUME MQAssumption ==
  /\ GroupOf \in [Consumers -> Groups]
  /\ Nil \notin Messages /\ Carried \subseteq Nat
  /\ MaxRetries \in Nat /\ DLQCap \in Nat /\ MaxFails \in Nat /\ MaxCancels \in Nat
  /\ IsFiniteSet(Consumers)

VARIABLES
  created,   \* the topic is in m.t
  queue,     \* t.queue; Nil where append has not stored the element yet
  pub,       \* pub[m]: "new", "fill" (Publish is inside append), "done"
  headers,   \* headers[m]: mv.Headers["retries"]; 0 stands for none
  cursor,    \* gs.cursor of each group
  pc, hand, retries, \* each consumer, mv and its local retries
  closed,    \* m.stop
  panicked,  \* the process is gone
  gen, dlq,  \* m.dlq[name]: which channel it is (0: none), what it buffers
  reader,    \* the channel the caller of DLQ holds
  stats,     \* m.st
  acked, dead, \* history: acked[g], dead[g]: messages g acknowledged, gave up
  missed,    \* history: missed[g]: the slots g took before append stored to them
  fails, failed, \* history: all failures, the failures of each message
  carried,   \* history: the counter that each message was published with
  torn,      \* history: a counter was read while another consumer rewrote it
  cancels

topicVars == <<created, queue, pub, headers, cursor>>
runVars   == <<pc, hand, retries, closed, panicked>>
dlqVars   == <<gen, dlq, reader>>
histVars  == <<acked, dead, missed, fails, failed, carried, torn, cancels>>
vars == <<topicVars, runVars, dlqVars, stats, histVars>>

\* The fields of Stats.
Counters == {"published", "delivered", "acked", "retried", "dead"}

Init ==
  /\ created = FALSE /\ queue = <<>>
  /\ pub = [m \in Messages |-> "new"]
  /\ headers = [m \in Messages |-> 0]
  /\ cursor = [g \in Groups |-> 0]
  /\ pc = [c \in Consumers |-> "off"]
  /\ hand = [c \in Consumers |-> Nil]
  /\ retries = [c \in Consumers |-> 0]
  /\ closed = FALSE /\ panicked = FALSE
  /\ gen = 0 /\ dlq = <<>> /\ reader = 0
  /\ stats = [f \in Counters |-> 0]
  /\ acked = [g \in Groups |-> {}]
  /\ dead = [g \in Groups |-> {}]
  /\ missed = [g \in Groups |-> {}]
  /\ fails = 0
  /\ failed = [m \in Messages |-> 0]
  /\ carried = [m \in Messages |-> 0]
  /\ torn = FALSE
  /\ cancels = 0

Bump(f) == stats' = [stats EXCEPT ![f] = stats[f] + 1]

Goto(c, l) == pc' = [pc EXCEPT ![c] = l]

\* t.mu is free: nobody is inside append.
TopicFree == (\A m \in Messages : pub[m] # "fill") /\ (\A c \in Consumers : pc[c] # "fill")

\* getOrCreateTopic; a new topic replaces the DLQ channel.
GetOrCreateTopic ==
  /\ created' = TRUE
  /\ IF created THEN UNCHANGED <<gen, dlq>> ELSE gen' = gen + 1 /\ dlq' = <<>>
  /\ UNCHANGED reader
-----------------------------------------------------------------------------
\* Publish up to the moment append has stored the new length.  The message has
\* a copy of the caller's headers, which may hold a "retries" of their own.
Publish(m, h) ==
  /\ ~panicked
  /\ pub[m] = "new"
  /\ TopicFree
  /\ GetOrCreateTopic
  /\ queue' = Append(queue, Nil)
  /\ pub' = [pub EXCEPT ![m] = "fill"]
  /\ headers' = [headers EXCEPT ![m] = h]
  /\ carried' = [carried EXCEPT ![m] = h]
  /\ UNCHANGED <<cursor, runVars, stats, acked, dead, missed, fails, failed, torn, cancels>>

\* append stores the element; Publish returns.
PublishStore(m) ==
  /\ ~panicked
  /\ pub[m] = "fill"
  /\ queue' = [queue EXCEPT ![Len(queue)] = m]
  /\ pub' = [pub EXCEPT ![m] = "done"]
  /\ Bump("published")
  /\ UNCHANGED <<created, headers, cursor, runVars, dlqVars, histVars>>

Subscribe(c) ==
  /\ ~panicked
  /\ pc[c] = "off"
  /\ TopicFree
  /\ GetOrCreateTopic
  /\ Goto(c, "poll")
  /\ UNCHANGED <<queue, pub, headers, cursor, hand, retries, closed, panicked, stats, histVars>>

\* Between deliveries the consumer's context has ended.
Cancel(c) ==
  /\ ~panicked
  /\ pc[c] = "poll"
  /\ cancels < MaxCancels
  /\ cancels' = cancels + 1
  /\ Goto(c, "off")
  /\ UNCHANGED <<topicVars, hand, retries, closed, panicked, dlqVars, stats,
                 acked, dead, missed, fails, failed, carried, torn>>

\* The select at the head of the loop: m.stop ends it, otherwise deliverOnce is
\* called.
Select(c) ==
  /\ ~panicked
  /\ pc[c] = "poll"
  /\ Goto(c, IF closed THEN "off" ELSE "take")
  /\ UNCHANGED <<topicVars, hand, retries, closed, panicked, dlqVars, stats, histVars>>

Close ==
  /\ ~panicked /\ ~closed
  /\ closed' = TRUE
  /\ UNCHANGED <<topicVars, pc, hand, retries, panicked, dlqVars, stats, histVars>>

\* deliverOnce, under gs.mu: take the message at the cursor.
Take(c) ==
  LET g == GroupOf[c] IN
  /\ ~panicked
  /\ pc[c] = "take"
  /\ cursor[g] < Len(queue)
  /\ cursor' = [cursor EXCEPT ![g] = cursor[g] + 1]
  /\ hand' = [hand EXCEPT ![c] = queue[cursor[g] + 1]]
  /\ missed' = IF queue[cursor[g] + 1] = Nil
               THEN [missed EXCEPT ![g] = missed[g] \cup {cursor[g] + 1}] ELSE missed
  /\ Bump("delivered")
  /\ Goto(c, "handle")
  /\ UNCHANGED <<created, queue, pub, headers, retries, closed, panicked, dlqVars,
                 acked, dead, fails, failed, carried, torn, cancels>>

\* deliverOnce finds nothing; the goroutine sleeps 50ms.
TakeNothing(c) ==
  /\ ~panicked
  /\ pc[c] = "take"
  /\ cursor[GroupOf[c]] >= Len(queue)
  /\ Goto(c, "poll")
  /\ UNCHANGED <<topicVars, hand, retries, closed, panicked, dlqVars, stats, histVars>>

\* The handler is called with a nil message: it, or deliverOnce after an error,
\* dereferences it, ...
HandleNil(c) ==
  /\ ~panicked
  /\ pc[c] = "handle"
  /\ hand[c] = Nil
  /\ panicked' = TRUE
  /\ UNCHANGED <<topicVars, pc, hand, retries, closed, dlqVars, stats, histVars>>

\* ... or the handler ignores its argument and returns nil.
AckNil(c) ==
  /\ ~panicked
  /\ pc[c] = "handle"
  /\ hand[c] = Nil
  /\ Bump("acked")
  /\ Goto(c, "poll")
  /\ UNCHANGED <<topicVars, hand, retries, closed, panicked, dlqVars, histVars>>

\* The handler returns nil.
Ack(c) ==
  LET g == GroupOf[c] IN
  /\ ~panicked
  /\ pc[c] = "handle"
  /\ hand[c] # Nil
  /\ acked' = [acked EXCEPT ![g] = acked[g] \cup {hand[c]}]
  /\ Bump("acked")
  /\ hand' = [hand EXCEPT ![c] = Nil]
  /\ Goto(c, "poll")
  /\ UNCHANGED <<topicVars, retries, closed, panicked, dlqVars, dead, missed, fails, failed,
                 carried, torn, cancels>>

\* The handler returns an error.  MaxFails bounds only what a torn counter allows:
\* otherwise MaxRetries does.
Fail(c) ==
  /\ ~panicked
  /\ pc[c] = "handle"
  /\ hand[c] # Nil
  /\ torn => fails < MaxFails
  /\ fails' = fails + 1
  /\ failed' = [failed EXCEPT ![hand[c]] = failed[hand[c]] + 1]
  /\ Goto(c, "count")
  /\ UNCHANGED <<topicVars, hand, retries, closed, panicked, dlqVars, stats,
                 acked, dead, missed, carried, torn, cancels>>

\* Another consumer is between reading the counter of c's message and writing it.
Torn(c) == \E d \in Consumers \ {c} : hand[d] = hand[c] /\ pc[d] \in {"reset", "set"}

\* deliverOnce reads the counter from the headers, as whoever shares the
\* message has left them.
ReadRetries(c, buried) ==
  /\ ~panicked
  /\ pc[c] = "count"
  /\ retries' = [retries EXCEPT ![c] = headers[hand[c]]]
  /\ torn' = (torn \/ Torn(c))
  /\ Goto(c, IF buried THEN "dead" ELSE "reset")
  /\ UNCHANGED <<topicVars, hand, closed, panicked, dlqVars, stats,
                 acked, dead, missed, fails, failed, carried, cancels>>

\* Bug variant: a message is buried one retry early.
CountOffByOne(c) == ReadRetries(c, headers[hand[c]] + 1 >= MaxRetries)

\* Retry or give up.
Count(c) == ReadRetries(c, headers[hand[c]] >= MaxRetries)

\* mv.Headers = map[string]string{}: the loop that follows copies the new,
\* empty map to itself.
ResetHeaders(c) ==
  /\ ~panicked
  /\ pc[c] = "reset"
  /\ headers' = [headers EXCEPT ![hand[c]] = 0]
  /\ Goto(c, "set")
  /\ UNCHANGED <<created, queue, pub, cursor, hand, retries, closed, panicked,
                 dlqVars, stats, histVars>>

SetRetries(c) ==
  /\ ~panicked
  /\ pc[c] = "set"
  /\ headers' = [headers EXCEPT ![hand[c]] = retries[c] + 1]
  /\ Goto(c, "append")
  /\ UNCHANGED <<created, queue, pub, cursor, hand, retries, closed, panicked,
                 dlqVars, stats, histVars>>

\* The runtime notices the unlocked map: a write while another goroutine reads
\* or writes it ends the process.
MapRace(c, d) ==
  /\ ~panicked
  /\ c # d
  /\ pc[c] = "set" /\ pc[d] \in {"count", "set"} /\ hand[c] = hand[d]
  /\ panicked' = TRUE
  /\ UNCHANGED <<topicVars, pc, hand, retries, closed, dlqVars, stats, histVars>>

\* Bug variant: the message is not appended again.
RequeueForgotten(c) ==
  /\ ~panicked
  /\ pc[c] = "append"
  /\ hand' = [hand EXCEPT ![c] = Nil]
  /\ Goto(c, "poll")
  /\ UNCHANGED <<topicVars, retries, closed, panicked, dlqVars, stats, histVars>>

\* The message is appended again, in the two steps of append.
Requeue(c) ==
  /\ ~panicked
  /\ pc[c] = "append"
  /\ TopicFree
  /\ queue' = Append(queue, Nil)
  /\ Goto(c, "fill")
  /\ UNCHANGED <<created, pub, headers, cursor, hand, retries, closed, panicked,
                 dlqVars, stats, histVars>>

\* Bug variant: the retry is not counted.
RequeueUncounted(c) ==
  /\ ~panicked
  /\ pc[c] = "fill"
  /\ queue' = [queue EXCEPT ![Len(queue)] = hand[c]]
  /\ hand' = [hand EXCEPT ![c] = Nil]
  /\ Goto(c, "poll")
  /\ UNCHANGED <<created, pub, headers, cursor, retries, closed, panicked, dlqVars,
                 stats, histVars>>

RequeueStore(c) ==
  /\ ~panicked
  /\ pc[c] = "fill"
  /\ queue' = [queue EXCEPT ![Len(queue)] = hand[c]]
  /\ Bump("retried")
  /\ hand' = [hand EXCEPT ![c] = Nil]
  /\ Goto(c, "poll")
  /\ UNCHANGED <<created, pub, headers, cursor, retries, closed, panicked, dlqVars,
                 histVars>>

\* Bug variant: the send has no default and waits for room.
ToDLQWaits(c) ==
  /\ ~panicked
  /\ pc[c] = "dead"
  /\ TopicFree
  /\ Len(dlq) < DLQCap
  /\ dead' = [dead EXCEPT ![GroupOf[c]] = dead[GroupOf[c]] \cup {hand[c]}]
  /\ Bump("dead")
  /\ dlq' = Append(dlq, hand[c])
  /\ hand' = [hand EXCEPT ![c] = Nil]
  /\ Goto(c, "poll")
  /\ UNCHANGED <<topicVars, retries, closed, panicked, gen, reader, acked, missed, fails,
                 failed, carried, torn, cancels>>

\* toDLQ: a full channel drops the message.
ToDLQ(c) ==
  LET g == GroupOf[c] IN
  /\ ~panicked
  /\ pc[c] = "dead"
  /\ TopicFree
  /\ dead' = [dead EXCEPT ![g] = dead[g] \cup {hand[c]}]
  /\ Bump("dead")
  /\ dlq' = IF Len(dlq) < DLQCap THEN Append(dlq, hand[c]) ELSE dlq
  /\ hand' = [hand EXCEPT ![c] = Nil]
  /\ Goto(c, "poll")
  /\ UNCHANGED <<topicVars, retries, closed, panicked, gen, reader, acked, missed, fails,
                 failed, carried, torn, cancels>>

\* DLQ: the caller gets the topic's channel; without one it is made here.
OpenDLQ ==
  /\ ~panicked
  /\ reader = 0
  /\ gen' = IF gen = 0 THEN 1 ELSE gen
  /\ reader' = gen'
  /\ UNCHANGED <<topicVars, runVars, dlq, stats, histVars>>

ReadDLQ ==
  /\ ~panicked
  /\ reader # 0 /\ reader = gen /\ dlq # <<>>
  /\ dlq' = Tail(dlq)
  /\ UNCHANGED <<topicVars, runVars, gen, reader, stats, histVars>>

\* The steps of deliverOnce, and what ends a handler.
Deliver(c) ==
  \/ Select(c) \/ Take(c) \/ TakeNothing(c) \/ HandleNil(c) \/ AckNil(c) \/ Ack(c) \/ Fail(c) \/ Count(c)
  \/ ResetHeaders(c) \/ SetRetries(c) \/ Requeue(c) \/ RequeueStore(c) \/ ToDLQ(c)

Next ==
  \/ \E m \in Messages : (\E h \in Carried : Publish(m, h)) \/ PublishStore(m)
  \/ \E c \in Consumers : Subscribe(c) \/ Cancel(c) \/ Deliver(c)
  \/ \E c, d \in Consumers : MapRace(c, d)
  \/ Close \/ OpenDLQ \/ ReadDLQ

Spec == Init /\ [][Next]_vars

\* Goroutines are scheduled and handlers return.
Fairness ==
  /\ \A m \in Messages : WF_vars(PublishStore(m))
  /\ \A c \in Consumers : WF_vars(Deliver(c))

FairSpec == Spec /\ Fairness
-----------------------------------------------------------------------------
\* Every variable has its type; a delivery that failed has a message in hand.
TypeOK ==
  /\ created \in BOOLEAN /\ queue \in Seq(Messages \cup {Nil})
  /\ pub \in [Messages -> {"new", "fill", "done"}]
  /\ headers \in [Messages -> Nat]
  /\ cursor \in [Groups -> Nat]
  /\ pc \in [Consumers -> {"off", "poll", "take", "handle", "count", "reset", "set",
                           "append", "fill", "dead"}]
  /\ hand \in [Consumers -> Messages \cup {Nil}]
  /\ \A c \in Consumers : pc[c] \notin {"off", "poll", "take", "handle"} => hand[c] \in Messages
  /\ retries \in [Consumers -> Nat]
  /\ closed \in BOOLEAN /\ panicked \in BOOLEAN
  /\ gen \in Nat /\ dlq \in Seq(Messages) /\ reader \in Nat
  /\ stats \in [Counters -> Nat]
  /\ acked \in [Groups -> SUBSET Messages] /\ dead \in [Groups -> SUBSET Messages]
  /\ missed \in [Groups -> SUBSET Nat]
  /\ fails \in Nat /\ failed \in [Messages -> Nat] /\ carried \in [Messages -> Nat]
  /\ torn \in BOOLEAN
  /\ cancels \in Nat

\* A message g still has to see: ahead of its cursor, or in the hands of one of
\* its consumers.
Pending(g, m) ==
  \/ \E i \in DOMAIN queue : i > cursor[g] /\ queue[i] = m
  \/ \E c \in Consumers : hand[c] = m /\ GroupOf[c] = g

\* m went to a slot that g had taken while it was empty: deliverOnce reads
\* t.queue without t.mu.
Missed(g, m) == \E i \in missed[g] : i \in DOMAIN queue /\ queue[i] = m

\* At-least-once (the package comment), but for one hole: however publishers,
\* consumers, failing handlers and groups that share messages interleave, each
\* group has acknowledged or given up every published message, or still has it
\* ahead, or took its slot before append had stored to it.  Nothing else skips
\* one.
AtLeastOnce ==
  \A g \in Groups, m \in Messages :
    pub[m] = "done" => m \in acked[g] \/ m \in dead[g] \/ Pending(g, m) \/ Missed(g, m)

\* Consumers with a delivery in hand.
InFlight == {c \in Consumers : pc[c] \notin {"off", "poll", "take"}}

\* The counters of Stats account for every delivery: what was delivered was
\* acknowledged, retried or buried, or a consumer has it.
StatsBalance ==
  stats["delivered"] = stats["acked"] + stats["retried"] + stats["dead"] + Cardinality(InFlight)

\* A message that keeps failing ends up somewhere, and only MaxRetries sees to
\* that: handlers may fail as often as they are called.  A published message is
\* acknowledged or given up by every group with a consumer that stays, unless a
\* consumer took its slot too early, or a counter was torn: two consumers that
\* rewrite the headers of one message can put its counter back again and again.
EventuallySettled ==
  \A m \in Messages, c \in Consumers :
    (pub[m] = "done" /\ pc[c] # "off") ~>
      \/ m \in acked[GroupOf[c]] \/ m \in dead[GroupOf[c]] \/ Missed(GroupOf[c], m)
      \/ torn \/ panicked \/ pc[c] = "off"

\* The counter is in headers that a publisher may fill, and that all groups
\* share, reset and write under no lock.  Still no group gives a message up
\* before handlers have failed on it as often as the counter it came with leaves
\* up to MaxRetries, and once more.  They are the failures of all groups: one
\* group can use up the retries of another, so a handler may get fewer than the
\* "up to MaxRetries" of Handler's comment.
DeadAfterRetries ==
  \A g \in Groups : \A m \in dead[g] : carried[m] + failed[m] > MaxRetries
=============================================================================
