------------------------------ MODULE MQProofs -------------------------------
(***************************************************************************)
(* Proofs about MQ for any messages, consumers, groups and bounds: the     *)
(* types, the counters, the retries before a message is dead, and the      *)
(* delivery at least once.                                                 *)
(***************************************************************************)
EXTENDS MQ, TLAPS

-----------------------------------------------------------------------------
(* Types.                                                                  *)

\* Storing an element into the last slot keeps a sequence a sequence.
LEMMA StoreLast ==
  ASSUME NEW S, NEW q \in Seq(S), NEW e \in S
  PROVE  /\ [q EXCEPT ![Len(q)] = e] \in Seq(S)
         /\ Len([q EXCEPT ![Len(q)] = e]) = Len(q)
<1>1. CASE Len(q) = 0
  <2>1. [q EXCEPT ![Len(q)] = e] = q
    BY <1>1
  <2> QED
    BY ZenonT(30), <2>1
<1>2. CASE Len(q) \in 1..Len(q)
  BY <1>2
<1> QED
  BY <1>1, <1>2

\* bump keeps the counters natural numbers.
LEMMA Bumped ==
  ASSUME TypeOK, NEW f \in Counters, Bump(f)
  PROVE  /\ stats' \in [Counters -> Nat]
         /\ \A k \in Counters : stats'[k] = IF k = f THEN stats[k] + 1 ELSE stats[k]
BY DEF TypeOK, Bump

LEMMA TopicType ==
  ASSUME TypeOK, GetOrCreateTopic
  PROVE  created' \in BOOLEAN /\ gen' \in Nat /\ dlq' \in Seq(Messages) /\ reader' \in Nat
<1>1. CASE created
  BY Zenon, <1>1 DEF TypeOK, GetOrCreateTopic
<1>2. CASE ~created
  <2>1. gen' = gen + 1 /\ dlq' = <<>> /\ created' = TRUE /\ reader' = reader
    BY Zenon, <1>2 DEF GetOrCreateTopic
  <2>2. <<>> \in Seq(Messages)
    OBVIOUS
  <2> QED
    BY <2>1, <2>2 DEF TypeOK
<1> QED
  BY Zenon, <1>1, <1>2

LEMMA TypeInit == Init => TypeOK
<1> SUFFICES ASSUME Init PROVE TypeOK
  OBVIOUS
<1>1. stats \in [Counters -> Nat]
  BY Zenon DEF Init
<1>2. queue \in Seq(Messages \cup {Nil}) /\ dlq \in Seq(Messages)
  BY DEF Init
<1> QED
  BY ZenonT(30), <1>1, <1>2 DEF Init, TypeOK

\* Each step of the broker keeps every variable in its type.
LEMMA TypeStep == TypeOK /\ [Next]_vars => TypeOK'
<1> SUFFICES ASSUME TypeOK, [Next]_vars
             PROVE  TypeOK'
  OBVIOUS
<1> USE MQAssumption
<1>1. ASSUME NEW m \in Messages, NEW h \in Carried, Publish(m, h)
      PROVE  TypeOK'
  <2>1. queue' \in Seq(Messages \cup {Nil})
    BY <1>1 DEF TypeOK, Publish
  <2>2. created' \in BOOLEAN /\ gen' \in Nat /\ dlq' \in Seq(Messages) /\ reader' \in Nat
    BY Zenon, <1>1, TopicType DEF Publish
  <2>3. headers' \in [Messages -> Nat] /\ carried' \in [Messages -> Nat]
    BY <1>1 DEF TypeOK, Publish
  <2> QED
    BY Zenon, <1>1, <2>1, <2>2, <2>3 DEF TypeOK, Publish, runVars
<1>2. ASSUME NEW m \in Messages, PublishStore(m)
      PROVE  TypeOK'
  <2>1. queue' \in Seq(Messages \cup {Nil})
    BY ZenonT(30), <1>2, StoreLast DEF TypeOK, PublishStore
  <2>2. stats' \in [Counters -> Nat]
    BY Zenon, <1>2, Bumped DEF PublishStore, Counters
  <2> QED
    BY Zenon, <1>2, <2>1, <2>2 DEF TypeOK, PublishStore, runVars, dlqVars, histVars
<1>3. ASSUME NEW c \in Consumers, Subscribe(c)
      PROVE  TypeOK'
  <2>1. created' \in BOOLEAN /\ gen' \in Nat /\ dlq' \in Seq(Messages) /\ reader' \in Nat
    BY Zenon, <1>3, TopicType DEF Subscribe
  <2> QED
    BY Zenon, <1>3, <2>1 DEF TypeOK, Subscribe, Goto, histVars
<1>4. ASSUME NEW c \in Consumers, Cancel(c)
      PROVE  TypeOK'
  BY <1>4 DEF TypeOK, Cancel, Goto, topicVars, dlqVars
<1>5. ASSUME NEW c \in Consumers, Select(c)
      PROVE  TypeOK'
  BY Zenon, <1>5 DEF TypeOK, Select, Goto, topicVars, dlqVars, histVars
<1>6. ASSUME NEW c \in Consumers, Take(c)
      PROVE  TypeOK'
  <2>1. cursor[GroupOf[c]] \in Nat /\ cursor[GroupOf[c]] < Len(queue)
    BY Zenon, <1>6 DEF TypeOK, Take
  <2>2. queue[cursor[GroupOf[c]] + 1] \in Messages \cup {Nil}
    BY <2>1 DEF TypeOK
  <2>3. stats' \in [Counters -> Nat]
    BY Zenon, <1>6, Bumped DEF Take, Counters
  <2>4. cursor' \in [Groups -> Nat]
    BY <1>6 DEF TypeOK, Take
  <2>5. /\ hand' \in [Consumers -> Messages \cup {Nil}]
        /\ \A d \in Consumers : pc'[d] \notin {"off", "poll", "take", "handle"} => hand'[d] \in Messages
    BY Zenon, <1>6, <2>2 DEF TypeOK, Take, Goto
  <2>6. missed' \in [Groups -> SUBSET Nat]
    <3>1. cursor[GroupOf[c]] + 1 \in Nat
      BY <2>1
    <3> QED
      BY Zenon, <1>6, <3>1 DEF TypeOK, Take
  <2> QED
    BY Zenon, <1>6, <2>3, <2>4, <2>5, <2>6 DEF TypeOK, Take, Goto, dlqVars
<1>7. ASSUME NEW c \in Consumers, TakeNothing(c)
      PROVE  TypeOK'
  BY Zenon, <1>7 DEF TypeOK, TakeNothing, Goto, topicVars, dlqVars, histVars
<1>8. ASSUME NEW c \in Consumers, HandleNil(c)
      PROVE  TypeOK'
  BY Zenon, <1>8 DEF TypeOK, HandleNil, topicVars, dlqVars, histVars
<1>9. ASSUME NEW c \in Consumers, Ack(c) \/ AckNil(c)
      PROVE  TypeOK'
  <2>1. stats' \in [Counters -> Nat]
    BY Zenon, <1>9, Bumped DEF Ack, AckNil, Counters
  <2>2. CASE Ack(c)
    BY <2>1, <2>2 DEF TypeOK, Ack, Goto, topicVars, dlqVars
  <2>3. CASE AckNil(c)
    BY Zenon, <2>1, <2>3 DEF TypeOK, AckNil, Goto, topicVars, dlqVars, histVars
  <2> QED
    BY Zenon, <1>9, <2>2, <2>3
<1>10. ASSUME NEW c \in Consumers, Fail(c)
       PROVE  TypeOK'
  <2>1. failed[hand[c]] \in Nat /\ fails \in Nat
    BY Zenon, <1>10 DEF TypeOK, Fail
  <2>2. fails + 1 \in Nat /\ failed[hand[c]] + 1 \in Nat
    BY <2>1
  <2>3. fails' \in Nat /\ failed' \in [Messages -> Nat]
    BY ZenonT(30), <1>10, <2>2 DEF TypeOK, Fail
  <2> QED
    BY ZenonT(60), <1>10, <2>3 DEF TypeOK, Fail, Goto, topicVars, dlqVars
<1>11. ASSUME NEW c \in Consumers, Count(c)
       PROVE  TypeOK'
  <2>1. torn' \in BOOLEAN
    BY Zenon, <1>11 DEF Count, ReadRetries
  <2> QED
    BY ZenonT(60), <1>11, <2>1 DEF TypeOK, Count, ReadRetries, Goto, topicVars, dlqVars
<1>12. ASSUME NEW c \in Consumers, ResetHeaders(c)
       PROVE  TypeOK'
  BY ZenonT(30), <1>12 DEF TypeOK, ResetHeaders, Goto, dlqVars, histVars
<1>13. ASSUME NEW c \in Consumers, SetRetries(c)
       PROVE  TypeOK'
  <2>1. retries[c] + 1 \in Nat
    BY DEF TypeOK
  <2>2. headers' \in [Messages -> Nat]
    BY ZenonT(30), <1>13, <2>1 DEF TypeOK, SetRetries
  <2> QED
    BY ZenonT(30), <1>13, <2>2 DEF TypeOK, SetRetries, Goto, dlqVars, histVars
<1>14. ASSUME NEW c \in Consumers, Requeue(c)
       PROVE  TypeOK'
  <2>1. queue' \in Seq(Messages \cup {Nil})
    BY <1>14 DEF TypeOK, Requeue
  <2> QED
    BY Zenon, <1>14, <2>1 DEF TypeOK, Requeue, Goto, dlqVars, histVars
<1>15. ASSUME NEW c \in Consumers, RequeueStore(c)
       PROVE  TypeOK'
  <2>1. queue' \in Seq(Messages \cup {Nil})
    BY ZenonT(30), <1>15, StoreLast DEF TypeOK, RequeueStore
  <2>2. stats' \in [Counters -> Nat]
    BY Zenon, <1>15, Bumped DEF RequeueStore, Counters
  <2> QED
    BY Zenon, <1>15, <2>1, <2>2 DEF TypeOK, RequeueStore, Goto, dlqVars, histVars
<1>16. ASSUME NEW c \in Consumers, ToDLQ(c)
       PROVE  TypeOK'
  <2>1. stats' \in [Counters -> Nat]
    BY Zenon, <1>16, Bumped DEF ToDLQ, Counters
  <2>2. hand[c] \in Messages
    BY ZenonT(30), <1>16 DEF TypeOK, ToDLQ
  <2>3. Append(dlq, hand[c]) \in Seq(Messages)
    BY <2>2 DEF TypeOK
  <2>4. dlq' \in Seq(Messages)
    BY Zenon, <1>16, <2>3 DEF TypeOK, ToDLQ
  <2> QED
    BY Zenon, <1>16, <2>1, <2>2, <2>4 DEF TypeOK, ToDLQ, Goto, topicVars
<1>17. ASSUME NEW c \in Consumers, NEW d \in Consumers, MapRace(c, d)
       PROVE  TypeOK'
  BY Zenon, <1>17 DEF TypeOK, MapRace, topicVars, dlqVars, histVars
<1>18. CASE Close
  BY Zenon, <1>18 DEF TypeOK, Close, topicVars, dlqVars, histVars
<1>19. CASE OpenDLQ
  BY Zenon, <1>19 DEF TypeOK, OpenDLQ, topicVars, runVars, histVars
<1>20. CASE ReadDLQ
  BY <1>20 DEF TypeOK, ReadDLQ, topicVars, runVars, histVars
<1>21. CASE UNCHANGED vars
  BY Zenon, <1>21 DEF TypeOK, vars, topicVars, runVars, dlqVars, histVars
<1> QED
  BY Zenon, <1>1, <1>2, <1>3, <1>4, <1>5, <1>6, <1>7, <1>8, <1>9, <1>10, <1>11, <1>12, <1>13,
     <1>14, <1>15, <1>16, <1>17, <1>18, <1>19, <1>20, <1>21 DEF Next, Deliver

\* The variables of the broker keep their types; in particular a consumer whose
\* handler failed has a message in hand (deliverOnce writes to mv.Headers).
THEOREM TypeCorrect == Spec => []TypeOK
BY TypeInit, TypeStep, PTL DEF Spec

-----------------------------------------------------------------------------
(* At-least-once delivery.                                                 *)

\* A consumer between deliveries has nothing in hand.
HandsEmpty == \A c \in Consumers : pc[c] \in {"off", "poll", "take"} => hand[c] = Nil

\* t.mu excludes: one append is under way at a time, and it is to the last slot.
\* No cursor is past that slot.
OneFiller ==
  /\ \A g \in Groups : cursor[g] <= Len(queue)
  /\ \A m, n \in Messages : pub[m] = "fill" /\ pub[n] = "fill" => m = n
  /\ \A c, d \in Consumers : pc[c] = "fill" /\ pc[d] = "fill" => c = d
  /\ \A m \in Messages, c \in Consumers : ~(pub[m] = "fill" /\ pc[c] = "fill")
  /\ ~TopicFree => queue # <<>>
  /\ \A i \in DOMAIN queue : queue[i] = Nil => i = Len(queue) /\ ~TopicFree
  /\ ~TopicFree => queue[Len(queue)] = Nil

\* A group whose cursor has passed a slot without a message took it too early.
NilTaken ==
  \A g \in Groups : \A i \in DOMAIN queue : queue[i] = Nil /\ i <= cursor[g] => i \in missed[g]

\* AtLeastOnce is not inductive: an append stores its message into a slot that
\* was there before, and every group whose cursor has passed it has it in missed.
DeliveryInv == HandsEmpty /\ OneFiller /\ NilTaken /\ AtLeastOnce

-----------------------------------------------------------------------------

\* append after it has stored the new length, ...
LEMMA Grown ==
  ASSUME TypeOK, queue' = Append(queue, Nil)
  PROVE  /\ DOMAIN queue = 1..Len(queue) /\ Len(queue) \in Nat
         /\ DOMAIN queue' = 1..(Len(queue) + 1) /\ Len(queue') = Len(queue) + 1
         /\ queue'[Len(queue) + 1] = Nil
         /\ \A i \in 1..Len(queue) : queue'[i] = queue[i]
BY DEF TypeOK

\* ... and after it has stored the element.
LEMMA Stored ==
  ASSUME TypeOK, queue # <<>>, NEW e \in Messages, queue' = [queue EXCEPT ![Len(queue)] = e]
  PROVE  /\ DOMAIN queue = 1..Len(queue) /\ Len(queue) \in Nat \ {0}
         /\ DOMAIN queue' = 1..Len(queue) /\ Len(queue') = Len(queue)
         /\ queue'[Len(queue)] = e
         /\ \A i \in 1..Len(queue) : i # Len(queue) => queue'[i] = queue[i]
<1>1. DOMAIN queue = 1..Len(queue) /\ Len(queue) \in Nat \ {0}
  BY DEF TypeOK
<1>2. queue' \in Seq(Messages \cup {Nil}) /\ Len(queue') = Len(queue)
  BY StoreLast DEF TypeOK
<1>3. DOMAIN queue' = 1..Len(queue)
  BY Zenon, <1>1
<1>4. queue'[Len(queue)] = e
  BY <1>1
<1>5. \A i \in 1..Len(queue) : i # Len(queue) => queue'[i] = queue[i]
  BY Zenon, <1>1
<1> QED
  BY Zenon, <1>1, <1>2, <1>3, <1>4, <1>5

LEMMA HandsStep == TypeOK /\ HandsEmpty /\ [Next]_vars => HandsEmpty'
<1> SUFFICES ASSUME TypeOK, HandsEmpty, [Next]_vars
             PROVE  HandsEmpty'
  OBVIOUS
<1>1. ASSUME NEW c \in Consumers,
             Subscribe(c) \/ Cancel(c) \/ Select(c) \/ TakeNothing(c) \/ Fail(c) \/ Count(c)
             \/ ResetHeaders(c) \/ SetRetries(c) \/ Requeue(c)
      PROVE  HandsEmpty'
  <2>1. hand' = hand
    BY Zenon, <1>1 DEF Subscribe, Cancel, Select, TakeNothing, Fail, Count, ReadRetries, ResetHeaders, SetRetries,
                       Requeue
  <2>2. \A d \in Consumers : pc'[d] \in {"off", "poll", "take"} => pc[d] \in {"off", "poll", "take"}
    BY <1>1 DEF Subscribe, Cancel, Select, TakeNothing, Fail, Count, ReadRetries, ResetHeaders, SetRetries,
                Requeue, Goto, TypeOK
  <2> QED
    BY Zenon, <2>1, <2>2 DEF HandsEmpty
<1>2. ASSUME NEW c \in Consumers, Take(c) \/ AckNil(c) \/ Ack(c) \/ RequeueStore(c) \/ ToDLQ(c)
      PROVE  HandsEmpty'
  BY ZenonT(30), <1>2 DEF Take, AckNil, Ack, RequeueStore, ToDLQ, Goto, TypeOK, HandsEmpty
<1>3. CASE UNCHANGED <<pc, hand>>
  BY Zenon, <1>3 DEF HandsEmpty
<1>4. (\E m \in Messages : (\E h \in Carried : Publish(m, h)) \/ PublishStore(m)) \/ (\E c \in Consumers : HandleNil(c))
      \/ (\E c, d \in Consumers : MapRace(c, d)) \/ Close \/ OpenDLQ \/ ReadDLQ \/ UNCHANGED vars
      => UNCHANGED <<pc, hand>>
  BY Zenon DEF Publish, PublishStore, HandleNil, MapRace, Close, OpenDLQ, ReadDLQ, vars, runVars
<1> QED
  BY Zenon, <1>1, <1>2, <1>3, <1>4 DEF Next, Deliver

\* A step that neither begins nor ends an append.
LEMMA KeepFiller ==
  ASSUME OneFiller, UNCHANGED <<queue, pub, cursor>>,
         \A c \in Consumers : pc'[c] = "fill" <=> pc[c] = "fill"
  PROVE  OneFiller'
<1>1. TopicFree' <=> TopicFree
  BY Zenon DEF TopicFree
<1> QED
  BY Zenon, <1>1 DEF OneFiller

\* A step that begins one, by a publisher or by a consumer.
LEMMA BeginFiller ==
  ASSUME TypeOK, OneFiller, TopicFree, queue' = Append(queue, Nil), cursor' = cursor,
         \/ \E m \in Messages : pub' = [pub EXCEPT ![m] = "fill"] /\ pc' = pc
         \/ \E c \in Consumers : pc' = [pc EXCEPT ![c] = "fill"] /\ pub' = pub
  PROVE  OneFiller'
<1>1. /\ \A m, n \in Messages : pub'[m] = "fill" /\ pub'[n] = "fill" => m = n
      /\ \A c, d \in Consumers : pc'[c] = "fill" /\ pc'[d] = "fill" => c = d
      /\ \A m \in Messages, c \in Consumers : ~(pub'[m] = "fill" /\ pc'[c] = "fill")
      /\ ~TopicFree'
  BY DEF TopicFree, TypeOK
<1>2. \A i \in 1..Len(queue) : queue[i] # Nil
  BY Zenon, Grown DEF OneFiller
<1>3. \A i \in DOMAIN queue' : queue'[i] = Nil => i = Len(queue')
  BY <1>2, Grown
<1>4. queue' # <<>> /\ queue'[Len(queue')] = Nil
  BY Grown
<1>5. \A g \in Groups : cursor'[g] <= Len(queue')
  BY Grown DEF OneFiller, TypeOK
<1> QED
  BY Zenon, <1>1, <1>3, <1>4, <1>5 DEF OneFiller

\* A step that ends one.
LEMMA EndFiller ==
  ASSUME TypeOK, OneFiller, ~TopicFree, TopicFree', cursor' = cursor,
         NEW e \in Messages, queue' = [queue EXCEPT ![Len(queue)] = e]
  PROVE  OneFiller'
<1>1. queue # <<>>
  BY Zenon DEF OneFiller
<1>2. /\ \A m \in Messages : pub'[m] # "fill"
      /\ \A c \in Consumers : pc'[c] # "fill"
  BY Zenon DEF TopicFree
<1>3. \A i \in DOMAIN queue' : queue'[i] # Nil
  BY Zenon, <1>1, Stored, MQAssumption DEF OneFiller
<1>4. \A g \in Groups : cursor'[g] <= Len(queue')
  BY Zenon, <1>1, Stored DEF OneFiller
<1> QED
  BY Zenon, <1>2, <1>3, <1>4 DEF OneFiller

LEMMA FillerStep == TypeOK /\ OneFiller /\ [Next]_vars => OneFiller'
<1> SUFFICES ASSUME TypeOK, OneFiller, [Next]_vars
             PROVE  OneFiller'
  OBVIOUS
<1> USE MQAssumption
<1> DEFINE Away == /\ UNCHANGED <<queue, pub, cursor>>
                   /\ \A c \in Consumers : pc'[c] = "fill" <=> pc[c] = "fill"
<1>0. Away => OneFiller'
  BY Zenon, KeepFiller
<1>1. ASSUME NEW m \in Messages, NEW h \in Carried, Publish(m, h)
      PROVE  OneFiller'
  BY ZenonT(30), <1>1, BeginFiller DEF Publish, runVars
<1>2. ASSUME NEW m \in Messages, PublishStore(m)
      PROVE  OneFiller'
  <2>1. ~TopicFree /\ TopicFree'
    BY Zenon, <1>2 DEF PublishStore, TopicFree, OneFiller, TypeOK, runVars
  <2> QED
    BY ZenonT(30), <1>2, <2>1, EndFiller DEF PublishStore
<1>3. ASSUME NEW c \in Consumers, Requeue(c)
      PROVE  OneFiller'
  BY ZenonT(30), <1>3, BeginFiller DEF Requeue, Goto
<1>4. ASSUME NEW c \in Consumers, RequeueStore(c)
      PROVE  OneFiller'
  <2>1. ~TopicFree /\ TopicFree'
    BY Zenon, <1>4 DEF RequeueStore, TopicFree, OneFiller, TypeOK, Goto
  <2>2. hand[c] \in Messages
    BY ZenonT(30), <1>4 DEF RequeueStore, TypeOK
  <2> QED
    BY ZenonT(30), <1>4, <2>1, <2>2, EndFiller DEF RequeueStore
<1>5. ASSUME NEW c \in Consumers, Take(c)
      PROVE  OneFiller'
  <2>1. UNCHANGED <<queue, pub>> /\ \A d \in Consumers : pc'[d] = "fill" <=> pc[d] = "fill"
    BY Zenon, <1>5 DEF Take, Goto, TypeOK
  <2>2. TopicFree' <=> TopicFree
    BY Zenon, <2>1 DEF TopicFree
  <2>3. Len(queue) \in Nat
    BY DEF TypeOK
  <2>4. \A g \in Groups : cursor'[g] <= Len(queue)
    BY <1>5, <2>3 DEF Take, TypeOK, OneFiller
  <2> QED
    BY Zenon, <2>1, <2>2, <2>4 DEF OneFiller
<1>6. ASSUME NEW c \in Consumers, Subscribe(c) \/ Cancel(c) \/ Select(c) \/ TakeNothing(c)
      PROVE  Away
  BY Zenon, <1>6 DEF TypeOK, Subscribe, Cancel, Select, TakeNothing, Goto, topicVars
<1>7. ASSUME NEW c \in Consumers, HandleNil(c) \/ AckNil(c) \/ Ack(c) \/ Fail(c) \/ Count(c)
      PROVE  Away
  BY Zenon, <1>7 DEF TypeOK, HandleNil, AckNil, Ack, Fail, Count, ReadRetries, Goto, topicVars
<1>8. ASSUME NEW c \in Consumers, ResetHeaders(c) \/ SetRetries(c) \/ ToDLQ(c)
      PROVE  Away
  BY Zenon, <1>8 DEF TypeOK, ResetHeaders, SetRetries, ToDLQ, Goto, topicVars
<1>9. (\E c, d \in Consumers : MapRace(c, d)) \/ Close \/ OpenDLQ \/ ReadDLQ \/ UNCHANGED vars => Away
  BY Zenon DEF MapRace, Close, OpenDLQ, ReadDLQ, vars, topicVars, runVars
<1> HIDE DEF Away
<1> QED
  BY Zenon, <1>0, <1>1, <1>2, <1>3, <1>4, <1>5, <1>6, <1>7, <1>8, <1>9 DEF Next, Deliver

\* What a group took too early stays known.
LEMMA MissedStays == TypeOK /\ [Next]_vars => \A g \in Groups : missed[g] \subseteq missed'[g]
<1> SUFFICES ASSUME TypeOK, [Next]_vars, NEW g \in Groups PROVE missed[g] \subseteq missed'[g]
  OBVIOUS
<1>1. ASSUME NEW c \in Consumers, Take(c)
      PROVE  missed[g] \subseteq missed'[g]
  BY Zenon, <1>1 DEF Take, TypeOK
<1>2. (\E c \in Consumers : Take(c)) \/ missed' = missed
  <2>1. ASSUME NEW c \in Consumers, Deliver(c), ~Take(c)
        PROVE  missed' = missed
    BY Zenon, <2>1 DEF Deliver, Select, TakeNothing, HandleNil, AckNil, Ack, Fail, Count, ReadRetries, ResetHeaders,
       SetRetries, Requeue, RequeueStore, ToDLQ, histVars
  <2> QED
    BY Zenon, <2>1 DEF Next, Publish, PublishStore, Subscribe, Cancel, MapRace, Close, OpenDLQ, ReadDLQ, vars, histVars
<1> QED
  BY Zenon, <1>1, <1>2

\* The only slot without a message is the last; Take is how a cursor passes it.
LEMMA NilStep ==
  TypeOK /\ TypeOK' /\ OneFiller /\ OneFiller' /\ NilTaken /\ [Next]_vars => NilTaken'
<1> SUFFICES ASSUME TypeOK, TypeOK', OneFiller, OneFiller', NilTaken, [Next]_vars,
                    NEW g \in Groups, NEW i \in DOMAIN queue', queue'[i] = Nil, i <= cursor'[g]
             PROVE  i \in missed'[g]
  BY Zenon DEF NilTaken
<1> USE MQAssumption
<1>1. ASSUME i \in DOMAIN queue, queue[i] = Nil, i <= cursor[g]
      PROVE  i \in missed'[g]
  BY Zenon, <1>1, MissedStays DEF NilTaken
<1>2. CASE UNCHANGED <<queue, cursor>>
  BY Zenon, <1>1, <1>2
<1>3. CASE queue' = Append(queue, Nil) /\ cursor' = cursor
  <2>1. cursor[g] \in Nat /\ cursor[g] <= Len(queue) /\ Len(queue) \in Nat
    BY SMTT(30) DEF TypeOK, OneFiller
  <2>2. i \in 1..Len(queue)
    BY SMTT(30), <1>3, <2>1, Grown
  <2> QED
    BY Zenon, <1>1, <1>3, <2>2, Grown
<1>4. ASSUME NEW e \in Messages, ~TopicFree, queue' = [queue EXCEPT ![Len(queue)] = e]
      PROVE  FALSE
  <2>1. queue # <<>>
    BY Zenon, <1>4 DEF OneFiller
  <2>2. i \in 1..Len(queue) /\ i # Len(queue) /\ queue[i] = Nil /\ i \in DOMAIN queue
    BY Zenon, <1>4, <2>1, Stored
  <2> QED
    BY Zenon, <2>2 DEF OneFiller
<1>5. ASSUME NEW c \in Consumers, Take(c)
      PROVE  i \in missed'[g]
  <2>1. queue' = queue
    BY Zenon, <1>5 DEF Take
  <2>2. i \in Nat /\ cursor[g] \in Nat
    BY SMTT(30), <2>1 DEF TypeOK
  <2>3. cursor'[g] = IF g = GroupOf[c] THEN cursor[g] + 1 ELSE cursor[g]
    BY Zenon, <1>5 DEF Take, TypeOK
  <2>4. CASE i <= cursor[g]
    BY Zenon, <1>1, <2>1, <2>4
  <2>5. CASE ~(i <= cursor[g])
    <3>1. GroupOf[c] = g /\ i = cursor[g] + 1
      BY SMTT(30), <2>2, <2>3, <2>5
    <3> QED
      BY Zenon, <1>5, <2>1, <3>1 DEF Take, TypeOK
  <2> QED
    BY Zenon, <2>4, <2>5
<1>6. ASSUME NEW m \in Messages, PublishStore(m)
      PROVE  FALSE
  BY ZenonT(30), <1>4, <1>6 DEF PublishStore, TopicFree
<1>7. ASSUME NEW c \in Consumers, RequeueStore(c)
      PROVE  FALSE
  <2>1. hand[c] \in Messages
    BY ZenonT(30), <1>7 DEF RequeueStore, TypeOK
  <2> QED
    BY ZenonT(30), <1>4, <1>7, <2>1 DEF RequeueStore, TopicFree
<1>8. (\E m \in Messages, h \in Carried : Publish(m, h)) \/ (\E c \in Consumers : Requeue(c))
      => queue' = Append(queue, Nil) /\ cursor' = cursor
  BY Zenon DEF Publish, Requeue
<1>9. ASSUME NEW c \in Consumers,
             Subscribe(c) \/ Cancel(c) \/ Select(c) \/ TakeNothing(c) \/ HandleNil(c) \/ AckNil(c)
             \/ Ack(c) \/ Fail(c) \/ Count(c) \/ ResetHeaders(c) \/ SetRetries(c) \/ ToDLQ(c)
      PROVE  UNCHANGED <<queue, cursor>>
  BY Zenon, <1>9 DEF Subscribe, Cancel, Select, TakeNothing, HandleNil, AckNil, Ack, Fail, Count, ReadRetries, ResetHeaders,
              SetRetries, ToDLQ, topicVars
<1>10. (\E c, d \in Consumers : MapRace(c, d)) \/ Close \/ OpenDLQ \/ ReadDLQ \/ UNCHANGED vars
       => UNCHANGED <<queue, cursor>>
  BY Zenon DEF MapRace, Close, OpenDLQ, ReadDLQ, vars, topicVars
<1> QED
  BY Zenon, <1>2, <1>3, <1>5, <1>6, <1>7, <1>8, <1>9, <1>10 DEF Next, Deliver

-----------------------------------------------------------------------------
\* What AtLeastOnce says of one group and one message.
Covered(g, m) == m \in acked[g] \/ m \in dead[g] \/ Pending(g, m) \/ Missed(g, m)

\* A message stays covered when the queue only gains messages, the cursor and
\* the hands stay, and nothing acknowledged or given up is forgotten.
LEMMA KeepCovered ==
  ASSUME NEW g \in Groups, NEW m \in Messages, Covered(g, m), missed[g] \subseteq missed'[g],
         acked[g] \subseteq acked'[g], dead[g] \subseteq dead'[g], cursor'[g] = cursor[g],
         \A i \in DOMAIN queue : queue[i] = m => i \in DOMAIN queue' /\ queue'[i] = m,
         \A c \in Consumers : hand[c] = m => hand'[c] = m
  PROVE  Covered(g, m)'
BY Zenon DEF Covered, Pending, Missed

\* What an append under way stores is ahead of every cursor, or the slot was
\* taken without it.
LEMMA StoredCovered ==
  ASSUME TypeOK, OneFiller, NilTaken, [Next]_vars, ~TopicFree, cursor' = cursor,
         NEW m \in Messages, queue' = [queue EXCEPT ![Len(queue)] = m], NEW g \in Groups
  PROVE  Covered(g, m)'
<1>1. queue # <<>> /\ queue[Len(queue)] = Nil
  BY Zenon DEF OneFiller
<1>2. Len(queue) \in DOMAIN queue /\ Len(queue) \in DOMAIN queue' /\ queue'[Len(queue)] = m
  BY SMTT(30), <1>1, Stored
<1>3. CASE Len(queue) <= cursor[g]
  <2>1. Len(queue) \in missed'[g]
    BY Zenon, <1>1, <1>2, <1>3, MissedStays DEF NilTaken
  <2> QED
    BY Zenon, <1>2, <2>1 DEF Covered, Missed
<1>4. CASE Len(queue) > cursor'[g]
  BY Zenon, <1>2, <1>4 DEF Covered, Pending
<1>5. Len(queue) \in Nat /\ cursor[g] \in Nat
  BY SMTT(30) DEF TypeOK
<1> QED
  BY <1>3, <1>4, <1>5

LEMMA CoveredStep ==
  TypeOK /\ DeliveryInv /\ [Next]_vars => AtLeastOnce'
<1> SUFFICES ASSUME TypeOK, DeliveryInv, [Next]_vars,
                    NEW g \in Groups, NEW m \in Messages, pub'[m] = "done"
             PROVE  Covered(g, m)'
  BY Zenon DEF AtLeastOnce, Covered
<1> USE MQAssumption
<1>0. OneFiller /\ NilTaken /\ HandsEmpty
  BY Zenon DEF DeliveryInv
<1>1. missed[g] \subseteq missed'[g]
  BY Zenon, MissedStays
<1>2. pub[m] = "done" => Covered(g, m)
  BY Zenon, <1>0 DEF DeliveryInv, AtLeastOnce, Covered
<1>3. ASSUME pub'[m] = pub[m], UNCHANGED <<queue, cursor, acked, dead, hand>>
      PROVE  Covered(g, m)'
  BY Zenon, <1>1, <1>2, <1>3, KeepCovered
<1>4. ASSUME pub'[m] = pub[m], queue' = Append(queue, Nil), UNCHANGED <<cursor, acked, dead, hand>>
      PROVE  Covered(g, m)'
  <2>1. \A i \in DOMAIN queue : queue[i] = m => i \in DOMAIN queue' /\ queue'[i] = m
    BY <1>4, Grown
  <2> QED
    BY Zenon, <1>1, <1>2, <1>4, <2>1, KeepCovered
<1>5. ASSUME NEW e \in Messages, ~TopicFree, queue' = [queue EXCEPT ![Len(queue)] = e]
      PROVE  \A i \in DOMAIN queue : queue[i] = m => i \in DOMAIN queue' /\ queue'[i] = m
  <2>1. queue # <<>> /\ queue[Len(queue)] = Nil
    BY Zenon, <1>0, <1>5 DEF OneFiller
  <2> QED
    BY Zenon, <1>5, <2>1, Stored
<1>6. ASSUME NEW n \in Messages, NEW h \in Carried, Publish(n, h)
      PROVE  Covered(g, m)'
  <2>1. pub'[m] = pub[m]
    BY Zenon, <1>6 DEF Publish, TypeOK
  <2> QED
    BY Zenon, <1>4, <1>6, <2>1 DEF Publish, runVars
<1>7. ASSUME NEW n \in Messages, PublishStore(n)
      PROVE  Covered(g, m)'
  <2>1. ~TopicFree /\ queue' = [queue EXCEPT ![Len(queue)] = n] /\ UNCHANGED <<cursor, acked, dead, hand>>
    BY Zenon, <1>7 DEF PublishStore, TopicFree, runVars, histVars
  <2>2. CASE m = n
    BY ZenonT(30), <1>0, <2>1, <2>2, StoredCovered
  <2>3. CASE m # n
    <3>1. pub'[m] = pub[m]
      BY Zenon, <1>7, <2>3 DEF PublishStore, TypeOK
    <3>2. \A i \in DOMAIN queue : queue[i] = m => i \in DOMAIN queue' /\ queue'[i] = m
      BY ZenonT(30), <1>5, <2>1
    <3> QED
      BY Zenon, <1>1, <1>2, <2>1, <3>1, <3>2, KeepCovered
  <2> QED
    BY Zenon, <2>2, <2>3
<1>8. ASSUME NEW c \in Consumers, Take(c)
      PROVE  Covered(g, m)'
  <2>1. UNCHANGED <<queue, pub, acked, dead>>
    BY Zenon, <1>8 DEF Take
  <2>2. Covered(g, m)
    BY Zenon, <1>2, <2>1
  <2>3. \A d \in Consumers : hand[d] = m => hand'[d] = m
    BY Zenon, <1>0, <1>8 DEF Take, TypeOK, HandsEmpty
  <2>4. cursor[g] \in Nat /\ cursor'[g] = IF g = GroupOf[c] THEN cursor[g] + 1 ELSE cursor[g]
    BY Zenon, <1>8 DEF Take, TypeOK
  <2>5. CASE \E i \in DOMAIN queue : i > cursor[g] /\ queue[i] = m
    <3>1. PICK i \in DOMAIN queue : i > cursor[g] /\ queue[i] = m
      BY Zenon, <2>5
    <3>2. CASE i > cursor'[g]
      BY Zenon, <2>1, <3>1, <3>2 DEF Covered, Pending
    <3>3. CASE ~(i > cursor'[g])
      <4>1. i \in Nat
        BY SMTT(30) DEF TypeOK
      <4>2. g = GroupOf[c] /\ i = cursor[g] + 1
        BY SMTT(30), <2>4, <3>1, <3>3, <4>1
      <4>3. hand'[c] = m
        BY Zenon, <1>8, <3>1, <4>2 DEF Take, TypeOK
      <4> QED
        BY Zenon, <4>2, <4>3 DEF Covered, Pending
    <3> QED
      BY Zenon, <3>2, <3>3
  <2>6. CASE ~\E i \in DOMAIN queue : i > cursor[g] /\ queue[i] = m
    BY Zenon, <1>1, <2>1, <2>2, <2>3, <2>6 DEF Covered, Pending, Missed
  <2> QED
    BY Zenon, <2>5, <2>6
<1>9. ASSUME NEW c \in Consumers, Ack(c)
      PROVE  Covered(g, m)'
  <2>1. UNCHANGED <<queue, pub, cursor, dead>>
    BY Zenon, <1>9 DEF Ack, topicVars
  <2>2. acked[g] \subseteq acked'[g] /\ hand[c] \in acked'[GroupOf[c]]
    BY Zenon, <1>9 DEF Ack, TypeOK
  <2>3. \A d \in Consumers : d # c => hand'[d] = hand[d]
    BY Zenon, <1>9 DEF Ack, TypeOK
  <2>4. Covered(g, m)
    BY ZenonT(60), <1>2, <2>1
  <2> QED
    BY Zenon, <1>1, <2>1, <2>2, <2>3, <2>4 DEF Covered, Pending, Missed
<1>10. ASSUME NEW c \in Consumers, ToDLQ(c)
       PROVE  Covered(g, m)'
  <2>1. UNCHANGED <<queue, pub, cursor, acked>>
    BY Zenon, <1>10 DEF ToDLQ, topicVars
  <2>2. dead[g] \subseteq dead'[g] /\ hand[c] \in dead'[GroupOf[c]]
    BY Zenon, <1>10 DEF ToDLQ, TypeOK
  <2>3. \A d \in Consumers : d # c => hand'[d] = hand[d]
    BY Zenon, <1>10 DEF ToDLQ, TypeOK
  <2>4. Covered(g, m)
    BY ZenonT(60), <1>2, <2>1
  <2> QED
    BY Zenon, <1>1, <2>1, <2>2, <2>3, <2>4 DEF Covered, Pending, Missed
<1>11. ASSUME NEW c \in Consumers, RequeueStore(c)
       PROVE  Covered(g, m)'
  <2>1. /\ ~TopicFree /\ hand[c] \in Messages /\ queue' = [queue EXCEPT ![Len(queue)] = hand[c]]
        /\ UNCHANGED <<pub, cursor, acked, dead>>
    BY Zenon, <1>11 DEF RequeueStore, TopicFree, TypeOK, histVars
  <2>2. CASE m = hand[c]
    BY ZenonT(30), <1>0, <2>1, <2>2, StoredCovered
  <2>3. CASE m # hand[c]
    <3>1. \A i \in DOMAIN queue : queue[i] = m => i \in DOMAIN queue' /\ queue'[i] = m
      BY Zenon, <1>5, <2>1
    <3>2. \A d \in Consumers : hand[d] = m => hand'[d] = m
      BY Zenon, <1>11, <2>3 DEF RequeueStore, TypeOK
    <3> QED
      BY ZenonT(30), <1>1, <1>2, <2>1, <3>1, <3>2, KeepCovered
  <2> QED
    BY Zenon, <2>2, <2>3
<1>12. ASSUME NEW c \in Consumers, Requeue(c)
       PROVE  Covered(g, m)'
  BY Zenon, <1>4, <1>12 DEF Requeue, histVars
<1>13. ASSUME NEW c \in Consumers,
              Subscribe(c) \/ Cancel(c) \/ Select(c) \/ TakeNothing(c) \/ HandleNil(c) \/ AckNil(c)
              \/ Fail(c) \/ Count(c) \/ ResetHeaders(c) \/ SetRetries(c)
       PROVE  UNCHANGED <<queue, pub, cursor, acked, dead, hand>>
  BY Zenon, <1>13 DEF Subscribe, Cancel, Select, TakeNothing, HandleNil, AckNil, Fail, Count, ReadRetries, ResetHeaders,
               SetRetries, topicVars, histVars
<1>14. (\E c, d \in Consumers : MapRace(c, d)) \/ Close \/ OpenDLQ \/ ReadDLQ \/ UNCHANGED vars
       => UNCHANGED <<queue, pub, cursor, acked, dead, hand>>
  BY Zenon DEF MapRace, Close, OpenDLQ, ReadDLQ, vars, topicVars, runVars, histVars
<1> QED
  BY Zenon, <1>3, <1>6, <1>7, <1>8, <1>9, <1>10, <1>11, <1>12, <1>13, <1>14 DEF Next, Deliver

LEMMA DeliveryInit == Init => DeliveryInv
<1> SUFFICES ASSUME Init PROVE DeliveryInv
  OBVIOUS
<1>1. HandsEmpty /\ NilTaken /\ AtLeastOnce
  BY DEF Init, HandsEmpty, NilTaken, AtLeastOnce
<1>2. OneFiller
  BY DEF Init, OneFiller, TopicFree
<1> QED
  BY Zenon, <1>1, <1>2 DEF DeliveryInv

\* At-least-once delivery: no group ever skips a published message, for any
\* number of consumers, groups and messages, but for one whose slot it took
\* while append was at it: deliverOnce reads the queue without its lock.
THEOREM AtLeastOnceHolds == Spec => []AtLeastOnce
<1>1. TypeOK /\ TypeOK' /\ DeliveryInv /\ [Next]_vars => DeliveryInv'
  BY Zenon, HandsStep, FillerStep, NilStep, CoveredStep DEF DeliveryInv
<1>2. DeliveryInv => AtLeastOnce
  BY Zenon DEF DeliveryInv
<1> QED
  BY <1>1, <1>2, DeliveryInit, TypeInit, TypeStep, PTL DEF Spec


INSTANCE FiniteSetTheorems

-----------------------------------------------------------------------------
(* The counters.                                                           *)

LEMMA InFlightFinite == IsFiniteSet(InFlight) /\ Cardinality(InFlight) \in Nat
<1>1. InFlight \in SUBSET Consumers
  BY Zenon DEF InFlight
<1> QED
  BY Zenon, <1>1, MQAssumption, FS_Subset, FS_CardinalityType

\* A step between two points at which a consumer has no delivery, or between two
\* at which it has one, leaves the number in flight alone.
LEMMA SameFlight ==
  ASSUME \A c \in Consumers : pc'[c] \in {"off", "poll", "take"} <=> pc[c] \in {"off", "poll", "take"}
  PROVE  InFlight' = InFlight
BY Zenon DEF InFlight

\* The delivery of a consumer begins.
LEMMA OneMore ==
  ASSUME TypeOK, NEW c \in Consumers, NEW l, Goto(c, l),
         pc[c] \in {"off", "poll", "take"}, l \notin {"off", "poll", "take"}
  PROVE  Cardinality(InFlight') = Cardinality(InFlight) + 1
<1>1. InFlight' = InFlight \cup {c}
  BY DEF InFlight, Goto, TypeOK
<1>2. c \notin InFlight
  BY Zenon DEF InFlight
<1> QED
  BY Zenon, <1>1, <1>2, InFlightFinite, FS_AddElement

\* It ends.
LEMMA OneLess ==
  ASSUME TypeOK, NEW c \in Consumers, NEW l, Goto(c, l),
         pc[c] \notin {"off", "poll", "take"}, l \in {"off", "poll", "take"}
  PROVE  Cardinality(InFlight') = Cardinality(InFlight) - 1
<1>1. InFlight' = InFlight \ {c}
  BY Zenon DEF InFlight, Goto, TypeOK
<1>2. c \in InFlight
  BY Zenon DEF InFlight
<1> QED
  BY Zenon, <1>1, <1>2, InFlightFinite, FS_RemoveElement

LEMMA StatsInit == Init => StatsBalance
<1> SUFFICES ASSUME Init PROVE StatsBalance
  OBVIOUS
<1>1. InFlight = {}
  BY Zenon DEF Init, InFlight
<1>2. \A f \in Counters : stats[f] = 0
  BY Zenon DEF Init
<1> QED
  BY <1>1, <1>2, FS_EmptySet DEF StatsBalance, Counters

\* Take moves a delivery into flight, and Ack, RequeueStore and ToDLQ move it
\* into one of the other counters; every other step leaves both sides alone.
LEMMA StatsStep == TypeOK /\ StatsBalance /\ [Next]_vars => StatsBalance'
<1> SUFFICES ASSUME TypeOK, StatsBalance, [Next]_vars
             PROVE  StatsBalance'
  OBVIOUS
<1> DEFINE Calm == {"off", "poll", "take"}
           Quiet == /\ \A c \in Consumers : pc'[c] \in Calm <=> pc[c] \in Calm
                    /\ \A f \in {"delivered", "acked", "retried", "dead"} : stats'[f] = stats[f]
<1>0. Quiet => StatsBalance'
  <2>1. Quiet => InFlight' = InFlight
    BY Zenon, SameFlight
  <2> QED
    BY Zenon, <2>1 DEF StatsBalance
<1>a. /\ stats \in [Counters -> Nat] /\ Cardinality(InFlight) \in Nat
      /\ stats["delivered"] = stats["acked"] + stats["retried"] + stats["dead"] + Cardinality(InFlight)
  BY Zenon, InFlightFinite DEF TypeOK, StatsBalance
<1>1. ASSUME NEW m \in Messages, NEW h \in Carried, Publish(m, h)
      PROVE  Quiet
  BY Zenon, <1>1 DEF Publish, runVars
<1>2. ASSUME NEW m \in Messages, PublishStore(m)
      PROVE  Quiet
  BY Zenon, <1>2, Bumped DEF PublishStore, runVars, Counters
<1>3. ASSUME NEW c \in Consumers, Subscribe(c) \/ Cancel(c) \/ Select(c) \/ TakeNothing(c)
      PROVE  Quiet
  BY Zenon, <1>3 DEF TypeOK, Subscribe, Cancel, Select, TakeNothing, Goto
<1>4. ASSUME NEW c \in Consumers, Fail(c) \/ Count(c) \/ ResetHeaders(c) \/ SetRetries(c) \/ Requeue(c)
      PROVE  Quiet
  BY Zenon, <1>4 DEF TypeOK, Fail, Count, ReadRetries, ResetHeaders, SetRetries, Requeue, Goto
<1>5. ASSUME NEW c \in Consumers, Take(c)
      PROVE  StatsBalance'
  <2>1. Cardinality(InFlight') = Cardinality(InFlight) + 1
    BY Zenon, <1>5, OneMore DEF Take
  <2>2. \A k \in Counters : stats'[k] = IF k = "delivered" THEN stats[k] + 1 ELSE stats[k]
    BY Zenon, <1>5, Bumped DEF Take, Counters
  <2> QED
    BY <1>a, <2>1, <2>2 DEF StatsBalance, Counters
<1>6. ASSUME NEW c \in Consumers, Ack(c) \/ AckNil(c)
      PROVE  StatsBalance'
  <2>1. Cardinality(InFlight') = Cardinality(InFlight) - 1
    BY Zenon, <1>6, OneLess DEF Ack, AckNil
  <2>2. \A k \in Counters : stats'[k] = IF k = "acked" THEN stats[k] + 1 ELSE stats[k]
    BY Zenon, <1>6, Bumped DEF Ack, AckNil, Counters
  <2> QED
    BY <1>a, <2>1, <2>2 DEF StatsBalance, Counters
<1>7. ASSUME NEW c \in Consumers, RequeueStore(c)
      PROVE  StatsBalance'
  <2>1. Cardinality(InFlight') = Cardinality(InFlight) - 1
    BY Zenon, <1>7, OneLess DEF RequeueStore
  <2>2. \A k \in Counters : stats'[k] = IF k = "retried" THEN stats[k] + 1 ELSE stats[k]
    BY Zenon, <1>7, Bumped DEF RequeueStore, Counters
  <2> QED
    BY <1>a, <2>1, <2>2 DEF StatsBalance, Counters
<1>8. ASSUME NEW c \in Consumers, ToDLQ(c)
      PROVE  StatsBalance'
  <2>1. Cardinality(InFlight') = Cardinality(InFlight) - 1
    BY Zenon, <1>8, OneLess DEF ToDLQ
  <2>2. \A k \in Counters : stats'[k] = IF k = "dead" THEN stats[k] + 1 ELSE stats[k]
    BY Zenon, <1>8, Bumped DEF ToDLQ, Counters
  <2> QED
    BY <1>a, <2>1, <2>2 DEF StatsBalance, Counters
<1>9. CASE UNCHANGED <<pc, stats>>
  BY Zenon, <1>0, <1>9
<1>10. (\E c \in Consumers : HandleNil(c)) \/ (\E c, d \in Consumers : MapRace(c, d))
       \/ Close \/ OpenDLQ \/ ReadDLQ \/ UNCHANGED vars => UNCHANGED <<pc, stats>>
  BY Zenon DEF HandleNil, MapRace, Close, OpenDLQ, ReadDLQ, vars, runVars
<1> HIDE DEF Quiet
<1> QED
  BY Zenon, <1>0, <1>1, <1>2, <1>3, <1>4, <1>5, <1>6, <1>7, <1>8, <1>9, <1>10 DEF Next, Deliver

\* The counters of Stats account for every delivery, whatever the consumers, the
\* publishers and Close do at the same time.
THEOREM StatsBalanceHolds == Spec => []StatsBalance
BY StatsInit, StatsStep, TypeInit, TypeStep, PTL DEF Spec

-----------------------------------------------------------------------------
(* Retries.                                                                *)

\* The consumers whose handler has failed on m and who have not yet read the
\* counter of m.
Counting(m) == {c \in Consumers : pc[c] = "count" /\ hand[c] = m}

\* What the counter of m can have come to: what it was published with, and its
\* failures.
Budget(m) == carried[m] + failed[m]

\* DeadAfterRetries is not inductive: the counter of a message has to be covered
\* by failures that are not still to be counted, and so has the value that a
\* consumer has read from it.
RetryInv ==
  /\ \A m \in Messages : headers[m] + Cardinality(Counting(m)) <= Budget(m)
  /\ \A m \in Messages : pub[m] = "new" => carried[m] = 0
  /\ \A m \in Messages, c \in Consumers : pc[c] \in {"reset", "set", "dead"} /\ hand[c] = m =>
       retries[c] + 1 + Cardinality(Counting(m)) <= Budget(m)
  /\ \A c \in Consumers : pc[c] = "dead" => retries[c] >= MaxRetries
  /\ DeadAfterRetries

LEMMA CountingFinite ==
  ASSUME NEW m
  PROVE  IsFiniteSet(Counting(m)) /\ Cardinality(Counting(m)) \in Nat
<1>1. Counting(m) \in SUBSET Consumers
  BY Zenon DEF Counting
<1> QED
  BY Zenon, <1>1, MQAssumption, FS_Subset, FS_CardinalityType

LEMMA RetryInit == Init => RetryInv
<1> SUFFICES ASSUME Init PROVE RetryInv
  OBVIOUS
<1>1. \A m \in Messages : Counting(m) = {}
  BY Zenon DEF Init, Counting
<1>2. \A m \in Messages : headers[m] + Cardinality(Counting(m)) <= Budget(m)
  <2>1. \A m \in Messages : Cardinality(Counting(m)) = 0
    BY Zenon, <1>1, FS_EmptySet
  <2>2. \A m \in Messages : headers[m] = 0 /\ failed[m] = 0 /\ carried[m] = 0
    BY Zenon DEF Init
  <2> QED
    BY <2>1, <2>2 DEF Budget
<1>3. DeadAfterRetries
  BY Zenon DEF Init, DeadAfterRetries
<1> QED
  BY Zenon, <1>2, <1>3 DEF Init, RetryInv

\* Consumers whose failed delivery is between the handler and the re-append.
Failing == {"count", "reset", "set", "dead"}

\* A step that touches no such consumer, no counter and no dead letter.
LEMMA KeepCounting ==
  ASSUME \A c \in Consumers : (pc'[c] = "count" \/ pc[c] = "count") => pc'[c] = pc[c] /\ hand'[c] = hand[c]
  PROVE  \A m : Counting(m)' = Counting(m)
BY Zenon DEF Counting

LEMMA KeepRetry ==
  ASSUME TypeOK, RetryInv, UNCHANGED <<headers, failed, carried, dead>>,
         \A m \in Messages : pub'[m] = "new" => pub[m] = "new",
         \A c \in Consumers : pc'[c] \in Failing \/ pc[c] = "count" =>
            pc'[c] = pc[c] /\ hand'[c] = hand[c] /\ retries'[c] = retries[c]
  PROVE  RetryInv'
<1>1. \A m : Counting(m)' = Counting(m)
  BY Zenon, KeepCounting DEF Failing
<1>2. /\ \A m \in Messages : headers'[m] + Cardinality(Counting(m)') <= Budget(m)'
      /\ \A m \in Messages : pub'[m] = "new" => carried'[m] = 0
  BY Zenon, <1>1 DEF RetryInv, Budget
<1>3. \A m \in Messages, c \in Consumers : pc'[c] \in {"reset", "set", "dead"} /\ hand'[c] = m =>
        retries'[c] + 1 + Cardinality(Counting(m)') <= Budget(m)'
  BY Zenon, <1>1 DEF RetryInv, Failing, Budget
<1>5. \A c \in Consumers : pc'[c] = "dead" => retries'[c] >= MaxRetries
  BY Zenon DEF RetryInv, Failing
<1>6. DeadAfterRetries'
  BY Zenon DEF RetryInv, DeadAfterRetries
<1> QED
  BY Zenon, <1>2, <1>3, <1>5, <1>6 DEF RetryInv

LEMMA CountsNat ==
  ASSUME TypeOK
  PROVE  \A m \in Messages : /\ Cardinality(Counting(m)) \in Nat /\ headers[m] \in Nat
                             /\ carried[m] \in Nat /\ Budget(m) \in Nat
<1>1. \A m \in Messages : carried[m] + failed[m] \in Nat
  BY DEF TypeOK
<1> QED
  BY Zenon, <1>1, CountingFinite DEF TypeOK, Budget

\* Fail adds a failure that is still to be counted; Count takes it from there
\* into what the consumer will write or act on.
LEMMA RetryFail ==
  ASSUME TypeOK, RetryInv, NEW c \in Consumers, Fail(c)
  PROVE  RetryInv'
<1> USE MQAssumption
<1>0. \A m \in Messages : /\ Cardinality(Counting(m)) \in Nat /\ headers[m] \in Nat
                          /\ carried[m] \in Nat /\ Budget(m) \in Nat
  BY Zenon, CountsNat
<1>1. PICK m \in Messages : m = hand[c]
  BY Zenon DEF Fail, TypeOK
<1>2. c \notin Counting(m) /\ Counting(m)' = Counting(m) \cup {c}
  BY SMTT(60), <1>1 DEF Fail, TypeOK, Counting, Goto
<1>3. \A n \in Messages : n # m => Counting(n)' = Counting(n)
  BY Zenon, <1>1 DEF Fail, TypeOK, Counting, Goto
<1>4. \A n \in Messages : Cardinality(Counting(n)') =
        IF n = m THEN Cardinality(Counting(n)) + 1 ELSE Cardinality(Counting(n))
  BY Zenon, <1>2, <1>3, CountingFinite, FS_AddElement
<1>6. UNCHANGED <<headers, retries, hand, dead, carried, pub>>
  BY Zenon DEF Fail, topicVars
<1>5. \A n \in Messages : Budget(n)' = IF n = m THEN Budget(n) + 1 ELSE Budget(n)
  <2>1. \A n \in Messages : failed'[n] = IF n = m THEN failed[n] + 1 ELSE failed[n]
    BY Zenon, <1>1 DEF Fail, TypeOK
  <2>2. \A n \in Messages : failed[n] \in Nat /\ carried'[n] = carried[n]
    BY Zenon, <1>6 DEF TypeOK
  <2> QED
    BY <1>0, <2>1, <2>2 DEF Budget
<1>7. \A d \in Consumers : pc'[d] \in {"reset", "set", "dead"} => pc'[d] = pc[d]
  BY Zenon DEF Fail, TypeOK, Goto
<1>8. \A n \in Messages : headers'[n] + Cardinality(Counting(n)') <= Budget(n)'
  <2> TAKE n \in Messages
  <2>1. headers[n] + Cardinality(Counting(n)) <= Budget(n)
    BY Zenon DEF RetryInv
  <2> QED
    BY <1>0, <1>4, <1>5, <1>6, <2>1
<1>9. \A n \in Messages, d \in Consumers : pc'[d] \in {"reset", "set", "dead"} /\ hand'[d] = n =>
        retries'[d] + 1 + Cardinality(Counting(n)') <= Budget(n)'
  <2> TAKE n \in Messages, d \in Consumers
  <2> HAVE pc'[d] \in {"reset", "set", "dead"} /\ hand'[d] = n
  <2>1. retries[d] \in Nat /\ retries[d] + 1 + Cardinality(Counting(n)) <= Budget(n)
    BY Zenon, <1>6, <1>7 DEF RetryInv, TypeOK
  <2> QED
    BY <1>0, <1>4, <1>5, <1>6, <2>1
<1>10. \A d \in Consumers : pc'[d] = "dead" => retries'[d] >= MaxRetries
  BY Zenon, <1>6, <1>7 DEF RetryInv
<1>11. \A n \in Messages : Budget(n) > MaxRetries => Budget(n)' > MaxRetries
  BY <1>0, <1>5
<1>12. \A g \in Groups : dead[g] \subseteq Messages
  BY Zenon DEF TypeOK
<1>13. DeadAfterRetries'
  BY Zenon, <1>6, <1>11, <1>12 DEF RetryInv, DeadAfterRetries, Budget
<1>14. \A n \in Messages : pub'[n] = "new" => carried'[n] = 0
  BY Zenon, <1>6 DEF RetryInv
<1> QED
  BY Zenon, <1>8, <1>9, <1>10, <1>13, <1>14 DEF RetryInv

LEMMA RetryCount ==
  ASSUME TypeOK, RetryInv, NEW c \in Consumers, Count(c)
  PROVE  RetryInv'
<1> USE MQAssumption
<1>0. \A m \in Messages : /\ Cardinality(Counting(m)) \in Nat /\ headers[m] \in Nat
                          /\ carried[m] \in Nat /\ Budget(m) \in Nat
  BY ZenonT(60), CountsNat
<1>1. PICK m \in Messages : m = hand[c]
  BY ZenonT(30) DEF Count, ReadRetries, TypeOK
<1>2. c \in Counting(m) /\ Counting(m)' = Counting(m) \ {c}
  BY Zenon, <1>1 DEF Count, ReadRetries, TypeOK, Counting, Goto
<1>3. \A n \in Messages : n # m => Counting(n)' = Counting(n)
  BY Zenon, <1>1 DEF Count, ReadRetries, TypeOK, Counting, Goto
<1>4. \A n \in Messages : Cardinality(Counting(n)') =
        IF n = m THEN Cardinality(Counting(n)) - 1 ELSE Cardinality(Counting(n))
  BY <1>2, <1>3, CountingFinite, FS_RemoveElement
<1>5. UNCHANGED <<headers, hand, dead, pub, carried>> /\ \A n : Budget(n)' = Budget(n)
  BY Zenon DEF Count, ReadRetries, topicVars, Budget
<1>6. retries'[c] = headers[m] /\ (pc'[c] = "dead" => headers[m] >= MaxRetries)
  BY Zenon, <1>1 DEF Count, ReadRetries, TypeOK, Goto
<1>7. \A d \in Consumers : d # c => pc'[d] = pc[d] /\ retries'[d] = retries[d]
  BY Zenon DEF Count, ReadRetries, TypeOK, Goto
<1>8. \A n \in Messages : headers[n] + Cardinality(Counting(n)) <= Budget(n)
  BY Zenon DEF RetryInv
<1>9. \A n \in Messages : headers'[n] + Cardinality(Counting(n)') <= Budget(n)'
  BY SMTT(30), <1>0, <1>4, <1>5, <1>8
<1>10. \A n \in Messages, d \in Consumers : pc'[d] \in {"reset", "set", "dead"} /\ hand'[d] = n =>
         retries'[d] + 1 + Cardinality(Counting(n)') <= Budget(n)'
  <2> TAKE n \in Messages, d \in Consumers
  <2> HAVE pc'[d] \in {"reset", "set", "dead"} /\ hand'[d] = n
  <2>1. CASE d = c
    BY <1>0, <1>1, <1>4, <1>5, <1>6, <1>8, <2>1
  <2>2. CASE d # c
    <3>1. retries[d] \in Nat /\ retries[d] + 1 + Cardinality(Counting(n)) <= Budget(n)
      BY Zenon, <1>5, <1>7, <2>2 DEF RetryInv, TypeOK
    <3> QED
      BY SMTT(30), <1>0, <1>4, <1>5, <1>7, <2>2, <3>1
  <2> QED
    BY Zenon, <2>1, <2>2
<1>11. \A d \in Consumers : pc'[d] = "dead" => retries'[d] >= MaxRetries
  BY Zenon, <1>6, <1>7 DEF RetryInv
<1>12. DeadAfterRetries'
  BY Zenon, <1>5 DEF RetryInv, DeadAfterRetries, Budget
<1>13. \A n \in Messages : pub'[n] = "new" => carried'[n] = 0
  BY Zenon, <1>5 DEF RetryInv
<1> QED
  BY ZenonT(60), <1>9, <1>10, <1>11, <1>12, <1>13 DEF RetryInv

LEMMA RetryHeaders ==
  ASSUME TypeOK, RetryInv, NEW c \in Consumers, ResetHeaders(c) \/ SetRetries(c)
  PROVE  RetryInv'
<1> USE MQAssumption
<1>0. \A m \in Messages : /\ Cardinality(Counting(m)) \in Nat /\ headers[m] \in Nat
                          /\ carried[m] \in Nat /\ Budget(m) \in Nat
  BY Zenon, CountsNat
<1>1. \A n : Counting(n)' = Counting(n)
  BY Zenon, KeepCounting DEF ResetHeaders, SetRetries, Goto, TypeOK
<1>2. UNCHANGED <<hand, dead, retries, pub, carried>> /\ \A n : Budget(n)' = Budget(n)
  BY Zenon DEF ResetHeaders, SetRetries, histVars, Budget
<1>3. \A d \in Consumers : pc'[d] \in {"reset", "set", "dead"} =>
        pc[d] \in {"reset", "set", "dead"} /\ (pc'[d] = "dead" => pc[d] = "dead")
  BY ZenonT(60) DEF ResetHeaders, SetRetries, Goto, TypeOK
<1>4. hand[c] \in Messages /\ retries[c] \in Nat
      /\ retries[c] + 1 + Cardinality(Counting(hand[c])) <= Budget(hand[c])
  BY ZenonT(30) DEF ResetHeaders, SetRetries, TypeOK, RetryInv
<1>5. /\ headers'[hand[c]] \in {0, retries[c] + 1}
      /\ \A n \in Messages : n # hand[c] => headers'[n] = headers[n]
  BY Zenon, <1>4 DEF ResetHeaders, SetRetries, TypeOK
<1>6. \A n \in Messages : headers'[n] + Cardinality(Counting(n)') <= Budget(n)'
  BY <1>0, <1>1, <1>2, <1>4, <1>5 DEF RetryInv
<1>7. \A n \in Messages, d \in Consumers : pc'[d] \in {"reset", "set", "dead"} /\ hand'[d] = n =>
        retries'[d] + 1 + Cardinality(Counting(n)') <= Budget(n)'
  BY Zenon, <1>1, <1>2, <1>3 DEF RetryInv
<1>8. \A d \in Consumers : pc'[d] = "dead" => retries'[d] >= MaxRetries
  BY Zenon, <1>2, <1>3 DEF RetryInv
<1>9. DeadAfterRetries'
  BY Zenon, <1>2 DEF RetryInv, DeadAfterRetries, Budget
<1>10. \A n \in Messages : pub'[n] = "new" => carried'[n] = 0
  BY Zenon, <1>2 DEF RetryInv
<1> QED
  BY Zenon, <1>6, <1>7, <1>8, <1>9, <1>10 DEF RetryInv

LEMMA RetryDLQ ==
  ASSUME TypeOK, RetryInv, NEW c \in Consumers, ToDLQ(c)
  PROVE  RetryInv'
<1> USE MQAssumption
<1>0. \A m \in Messages : /\ Cardinality(Counting(m)) \in Nat /\ headers[m] \in Nat
                          /\ carried[m] \in Nat /\ Budget(m) \in Nat
  BY ZenonT(60), CountsNat
<1>1. \A n : Counting(n)' = Counting(n)
  BY Zenon, KeepCounting DEF ToDLQ, Goto, TypeOK
<1>2. UNCHANGED <<headers, retries, pub, carried>> /\ \A n : Budget(n)' = Budget(n)
  BY Zenon DEF ToDLQ, topicVars, Budget
<1>3. \A d \in Consumers : pc'[d] \in {"reset", "set", "dead"} => pc[d] = pc'[d] /\ hand'[d] = hand[d]
  BY Zenon DEF ToDLQ, Goto, TypeOK
<1>4. hand[c] \in Messages /\ retries[c] \in Nat /\ retries[c] >= MaxRetries
      /\ retries[c] + 1 + Cardinality(Counting(hand[c])) <= Budget(hand[c])
  BY ZenonT(30) DEF ToDLQ, TypeOK, RetryInv
<1>5. Budget(hand[c]) > MaxRetries
  BY SMTT(30), <1>0, <1>4
<1>6. \A g \in Groups : \A n \in dead'[g] : n \in dead[g] \/ n = hand[c]
  BY Zenon DEF ToDLQ, TypeOK
<1>7. DeadAfterRetries'
  BY Zenon, <1>2, <1>5, <1>6 DEF RetryInv, DeadAfterRetries, Budget
<1>8. \A n \in Messages : headers'[n] + Cardinality(Counting(n)') <= Budget(n)'
  BY Zenon, <1>1, <1>2 DEF RetryInv
<1>9. \A n \in Messages, d \in Consumers : pc'[d] \in {"reset", "set", "dead"} /\ hand'[d] = n =>
        retries'[d] + 1 + Cardinality(Counting(n)') <= Budget(n)'
  BY Zenon, <1>1, <1>2, <1>3 DEF RetryInv
<1>10. \A d \in Consumers : pc'[d] = "dead" => retries'[d] >= MaxRetries
  BY Zenon, <1>2, <1>3 DEF RetryInv
<1>11. \A n \in Messages : pub'[n] = "new" => carried'[n] = 0
  BY Zenon, <1>2 DEF RetryInv
<1> QED
  BY Zenon, <1>7, <1>8, <1>9, <1>10, <1>11 DEF RetryInv

\* Publish puts the caller's count into the headers and into the budget.
LEMMA RetryPublish ==
  ASSUME TypeOK, RetryInv, NEW m \in Messages, NEW h \in Carried, Publish(m, h)
  PROVE  RetryInv'
<1> USE MQAssumption
<1>0. \A n \in Messages : /\ Cardinality(Counting(n)) \in Nat /\ headers[n] \in Nat
                          /\ carried[n] \in Nat /\ Budget(n) \in Nat /\ failed[n] \in Nat
  BY Zenon, CountsNat DEF TypeOK
<1>1. UNCHANGED <<pc, hand, retries, dead, failed>>
  BY Zenon DEF Publish, runVars
<1>2. \A n : Counting(n)' = Counting(n)
  BY Zenon, <1>1 DEF Counting
<1>3. carried[m] = 0 /\ h \in Nat
  BY Zenon DEF Publish, RetryInv
<1>4. \A n \in Messages : /\ headers'[n] = IF n = m THEN h ELSE headers[n]
                          /\ carried'[n] = IF n = m THEN h ELSE carried[n]
  BY Zenon DEF Publish, TypeOK
<1>5. \A n \in Messages : /\ Budget(n)' >= Budget(n) /\ Budget(n)' \in Nat
                          /\ n = m => Budget(n)' = h + failed[n] /\ Budget(n) = failed[n]
                          /\ n # m => Budget(n)' = Budget(n)
  BY <1>0, <1>1, <1>3, <1>4 DEF Budget
<1>6. \A n \in Messages : headers'[n] + Cardinality(Counting(n)') <= Budget(n)'
  <2> TAKE n \in Messages
  <2>1. headers[n] + Cardinality(Counting(n)) <= Budget(n)
    BY Zenon DEF RetryInv
  <2> QED
    BY <1>0, <1>2, <1>3, <1>4, <1>5, <2>1
<1>7. \A n \in Messages, d \in Consumers : pc'[d] \in {"reset", "set", "dead"} /\ hand'[d] = n =>
        retries'[d] + 1 + Cardinality(Counting(n)') <= Budget(n)'
  <2> TAKE n \in Messages, d \in Consumers
  <2> HAVE pc'[d] \in {"reset", "set", "dead"} /\ hand'[d] = n
  <2>1. retries[d] \in Nat /\ retries[d] + 1 + Cardinality(Counting(n)) <= Budget(n)
    BY Zenon, <1>1 DEF RetryInv, TypeOK
  <2> QED
    BY <1>0, <1>1, <1>2, <1>5, <2>1
<1>8. \A d \in Consumers : pc'[d] = "dead" => retries'[d] >= MaxRetries
  BY Zenon, <1>1 DEF RetryInv
<1>9. \A n \in Messages : Budget(n) > MaxRetries => Budget(n)' > MaxRetries
  BY <1>0, <1>5
<1>10. DeadAfterRetries'
  BY Zenon, <1>1, <1>9 DEF RetryInv, DeadAfterRetries, Budget, TypeOK
<1>11. \A n \in Messages : pub'[n] = "new" => carried'[n] = 0
  BY Zenon, <1>4 DEF RetryInv, Publish, TypeOK
<1> QED
  BY Zenon, <1>6, <1>7, <1>8, <1>10, <1>11 DEF RetryInv

LEMMA RetryStep == TypeOK /\ RetryInv /\ [Next]_vars => RetryInv'
<1> SUFFICES ASSUME TypeOK, RetryInv, [Next]_vars
             PROVE  RetryInv'
  OBVIOUS
<1> USE MQAssumption
<1> DEFINE Away == /\ UNCHANGED <<headers, failed, carried, dead>>
                   /\ \A m \in Messages : pub'[m] = "new" => pub[m] = "new"
                   /\ \A c \in Consumers : pc'[c] \in Failing \/ pc[c] = "count" =>
                        pc'[c] = pc[c] /\ hand'[c] = hand[c] /\ retries'[c] = retries[c]
<1>0. Away => RetryInv'
  BY Zenon, KeepRetry
<1>1. ASSUME NEW m \in Messages, PublishStore(m)
      PROVE  Away
  BY Zenon, <1>1 DEF PublishStore, runVars, histVars, TypeOK
<1>2. ASSUME NEW c \in Consumers, Subscribe(c) \/ Cancel(c) \/ Select(c) \/ TakeNothing(c)
      PROVE  Away
  BY ZenonT(60), <1>2 DEF TypeOK, Failing, Subscribe, Cancel, Select, TakeNothing, Goto, topicVars, histVars
<1>3. ASSUME NEW c \in Consumers, Take(c) \/ HandleNil(c) \/ AckNil(c) \/ Ack(c) \/ Requeue(c) \/ RequeueStore(c)
      PROVE  Away
  <2>1. UNCHANGED <<headers, failed, carried, dead, pub>>
    BY Zenon, <1>3 DEF Take, HandleNil, AckNil, Ack, Requeue, RequeueStore, topicVars, histVars
  <2>2. /\ \A d \in Consumers \ {c} : pc'[d] = pc[d] /\ hand'[d] = hand[d]
        /\ retries' = retries /\ pc[c] \notin Failing
        /\ pc'[c] \in Failing => pc'[c] = pc[c] /\ hand'[c] = hand[c]
    BY ZenonT(60), <1>3 DEF TypeOK, Failing, Take, HandleNil, AckNil, Ack, Requeue, RequeueStore, Goto
  <2> QED
    BY Zenon, <2>1, <2>2 DEF Failing
<1>4. (\E c, d \in Consumers : MapRace(c, d)) \/ Close \/ OpenDLQ \/ ReadDLQ \/ UNCHANGED vars => Away
  BY Zenon DEF MapRace, Close, OpenDLQ, ReadDLQ, vars, topicVars, runVars, histVars
<1>5. ASSUME NEW c \in Consumers, Fail(c)
      PROVE  RetryInv'
  BY Zenon, <1>5, RetryFail
<1>6. ASSUME NEW c \in Consumers, Count(c)
      PROVE  RetryInv'
  BY Zenon, <1>6, RetryCount
<1>7. ASSUME NEW c \in Consumers, ResetHeaders(c) \/ SetRetries(c)
      PROVE  RetryInv'
  BY Zenon, <1>7, RetryHeaders
<1>8. ASSUME NEW c \in Consumers, ToDLQ(c)
      PROVE  RetryInv'
  BY ZenonT(60), <1>8, RetryDLQ
<1>9. ASSUME NEW m \in Messages, NEW h \in Carried, Publish(m, h)
      PROVE  RetryInv'
  BY Zenon, <1>9, RetryPublish
<1> HIDE DEF Away
<1> QED
  BY Zenon, <1>0, <1>1, <1>2, <1>3, <1>4, <1>5, <1>6, <1>7, <1>8, <1>9 DEF Next, Deliver

\* No group routes a message to the dead-letter queue before the counter it was
\* published with and the failures of the handlers of all groups come to more
\* than MaxRetries, although the counter is reset and written under no lock.
THEOREM DeadAfterRetriesHolds == Spec => []DeadAfterRetries
<1>1. RetryInv => DeadAfterRetries
  BY Zenon DEF RetryInv
<1> QED
  BY <1>1, RetryInit, RetryStep, TypeInit, TypeStep, PTL DEF Spec
==============================================================================
