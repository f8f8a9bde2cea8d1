---------------------------- MODULE LibraryProofs ----------------------------
(***************************************************************************)
(* Leader election, retry.Do, the log ring, the metrics registry and a     *)
(* chat request, each for any values of its constants.                     *)
(*                                                                         *)
(* Election: unless claims clash, one node at a time is between test and   *)
(* write, and what its tick read of the record is still true.              *)
(* retry.Do: while it runs it has waited after every call, and a delay     *)
(* with room for jitter is the nominal one.                                *)
(* Log ring: the i-th newest record is i places behind the next index.     *)
(* Metrics: the counts are those of the samples so far, a written line is  *)
(* at most its count, and an addition under way has read less than the     *)
(* number of additions.                                                    *)
(* Chat: what is written, in hand and in the channel is, in this order,    *)
(* what the goroutine has sent.                                            *)
(***************************************************************************)
EXTENDS Election, Retry, Logs, Metrics, Inference, TLAPS

-----------------------------------------------------------------------------
(* Leader election.                                                         *)

\* Initially every variable has its type.
LEMMA TypeInit == Init => TypeOK
<1> SUFFICES ASSUME Init PROVE TypeOK
  OBVIOUS
<1>1. record \in Record \cup {Nil} /\ version \in Nat
  BY ElectionAssumption DEF Init, Record
<1> QED
  BY <1>1 DEF Init, TypeOK

\* Every step of an election preserves the types.
LEMMA TypeNext == TypeOK /\ [Next]_vars => TypeOK'
<1> SUFFICES ASSUME TypeOK, [Next]_vars PROVE TypeOK'
  OBVIOUS
<1> USE DEF TypeOK, Goto, tick, store
<1>1. CASE Pass \/ OtherCall
  <2>1. CASE Pass
    BY <2>1 DEF Pass
  <2>2. CASE OtherCall
    BY <2>2 DEF OtherCall
  <2> QED
    BY Zenon, <1>1, <2>1, <2>2
<1>2. ASSUME NEW n \in Nodes, TickStart(n) PROVE TypeOK'
  <2> DEFINE new == [node |-> n, term |-> term[n] + 1, expiry |-> now + TTL]
  <2>1. new \in Record
    <3>1. now + TTL \in Nat /\ term[n] + 1 \in Nat
      BY ElectionAssumption
    <3> QED
      BY Zenon, <3>1 DEF Record
  <2>2. /\ cur' = [cur EXCEPT ![n] = new]
        /\ pc' = [pc EXCEPT ![n] = "get"]
        /\ term' = [term EXCEPT ![n] = term[n] + 1]
        /\ at' = [at EXCEPT ![n] = now]
        /\ due' = [due EXCEPT ![n] = FALSE]
        /\ state' = [state EXCEPT ![n] = "Candidate"]
        /\ UNCHANGED <<now, running, ver, index, store, claimed, clashed>>
    BY <1>2 DEF TickStart
  <2> QED
    BY <2>1, <2>2
<1>3. ASSUME NEW n \in Nodes, Follow(n) PROVE TypeOK'
  <2>1. record.term \in Nat
    BY <1>3 DEF Follow, Leased, Record
  <2> QED
    BY <1>3, <2>1 DEF Follow
<1>4. ASSUME NEW n \in Nodes, GoForClaim(n) PROVE TypeOK'
  BY <1>4 DEF GoForClaim
<1>5. ASSUME NEW n \in Nodes, ClaimPut(n) \/ ClaimCAS(n) PROVE TypeOK'
  <2>1. clashed' \in BOOLEAN
    BY Zenon, <1>5 DEF ClaimPut, ClaimCAS, Tested
  <2>2. /\ pc[n] # "idle"
        /\ ver' = [ver EXCEPT ![n] = version + 1] /\ pc' = [pc EXCEPT ![n] = "append"]
        /\ UNCHANGED <<now, running, tick, index, store, claimed>>
    BY Zenon, <1>5 DEF ClaimPut, ClaimCAS, Tested
  <2> QED
    BY <2>1, <2>2
<1>6. ASSUME NEW n \in Nodes, LogClaim(n) PROVE TypeOK'
  BY <1>6 DEF LogClaim
<1>7. ASSUME NEW n \in Nodes, ApplyClaim(n) PROVE TypeOK'
  BY <1>7 DEF ApplyClaim
<1>8. ASSUME NEW n \in Nodes, ApplySkip(n) PROVE TypeOK'
  BY <1>8 DEF ApplySkip
<1>9. ASSUME NEW n \in Nodes, ApplyStore(n) PROVE TypeOK'
  BY <1>9 DEF ApplyStore
<1>10. ASSUME NEW n \in Nodes, Lose(n) \/ Lead(n) \/ Stop(n) PROVE TypeOK'
  BY ZenonT(60), <1>10 DEF Lose, Lead, Stop
<1>11. ASSUME NEW n \in Nodes, Restart(n) PROVE TypeOK'
  BY <1>11 DEF Restart
<1>12. CASE UNCHANGED vars
  BY <1>12 DEF vars
<1> QED
  BY Zenon, <1>1, <1>2, <1>3, <1>4, <1>5, <1>6, <1>7, <1>8, <1>9, <1>10, <1>11, <1>12 DEF Next, Call

\* tick() and the operations of Election keep every variable in its type, for
\* any number of nodes and any TTL.
THEOREM TypeCorrect == Spec => []TypeOK
<1>1. Init => TypeOK
  BY TypeInit
<1>2. TypeOK /\ [Next]_vars => TypeOK'
  BY TypeNext
<1> QED
  BY <1>1, <1>2, PTL DEF Spec

-----------------------------------------------------------------------------
\* tick() proposes a record of its own node and has read the clock before.
Proposes == \A n \in Nodes : pc[n] # "idle" => cur[n].node = n /\ at[n] <= now

\* n may replace the record.
Outdated(n) == record = Nil \/ record.expiry <= at[n] \/ record.term < cur[n].term

\* Unless two claims have clashed: one node at a time is between the test of
\* its call and its write, with the version that is due; until its call tests
\* the version, what a tick read holds or the version has moved on; and a
\* leader's version tells whether it holds the record.
OneWriter ==
  /\ \A n, m \in Writing : n = m
  /\ \A n \in Writing : ver[n] = version + 1 /\ Outdated(n)

Decided ==
  \A n \in Nodes : pc[n] = "cas" => /\ ver[n] <= version
                                    /\ ver[n] = version => Outdated(n)

Fences ==
  \A n \in Nodes : IsLeader(n) \/ pc[n] = "won" =>
    /\ 0 < claimed[n] /\ claimed[n] <= version
    /\ claimed[n] = version <=> record.node = n

ElectionInv == Proposes /\ (~clashed => OneWriter /\ Decided /\ Fences)

\* Every step keeps proposals in the name of their proposer.
LEMMA ProposesNext == TypeOK /\ Proposes /\ [Next]_vars => Proposes'
<1> SUFFICES ASSUME TypeOK, Proposes, [Next]_vars PROVE Proposes'
  OBVIOUS
<1> USE DEF Proposes, Goto, TypeOK, tick, store
<1>1. CASE Pass \/ OtherCall \/ UNCHANGED vars
  BY <1>1 DEF Pass, OtherCall, vars
<1>2. ASSUME NEW n \in Nodes, TickStart(n) PROVE Proposes'
  <2>1. /\ cur' = [cur EXCEPT ![n] = [node |-> n, term |-> term[n] + 1, expiry |-> now + TTL]]
        /\ at' = [at EXCEPT ![n] = now] /\ now' = now /\ pc' = [pc EXCEPT ![n] = "get"]
    BY Zenon, <1>2 DEF TickStart
  <2>2. cur'[n].node = n /\ at'[n] = now
    BY Zenon, <2>1
  <2>3. \A m \in Nodes \ {n} : cur'[m] = cur[m] /\ at'[m] = at[m] /\ pc'[m] = pc[m]
    BY Zenon, <2>1
  <2> QED
    BY <2>1, <2>2, <2>3
<1>3. ASSUME NEW n \in Nodes,
             \/ Follow(n) \/ GoForClaim(n) \/ Call(n)
             \/ Lose(n) \/ Lead(n) \/ Stop(n) \/ Restart(n)
      PROVE Proposes'
  <2>1. UNCHANGED <<now, cur, at>>
    BY Zenon, <1>3 DEF Follow, GoForClaim, Call, ClaimPut, ClaimCAS, Tested, LogClaim, ApplyClaim,
       ApplySkip, ApplyStore, Lose, Lead, Stop, Restart
  <2>2. \A m \in Nodes : pc'[m] # "idle" => pc[m] # "idle"
    BY ZenonT(60), <1>3 DEF Follow, GoForClaim, Call, ClaimPut, ClaimCAS, Tested, LogClaim, ApplyClaim,
       ApplySkip, ApplyStore, Lose, Lead, Stop, Restart
  <2> QED
    BY Zenon, <2>1, <2>2
<1> QED
  BY Zenon, <1>1, <1>2, <1>3 DEF Next

\* A step of n that leaves the record alone and takes n to a place where it
\* neither decides nor writes.
LEMMA ElectionStay ==
  ASSUME TypeOK, ElectionInv, NEW n \in Nodes, UNCHANGED <<record, version, claimed>>,
         \A m \in Nodes \ {n} : /\ pc'[m] = pc[m] /\ state'[m] = state[m] /\ ver'[m] = ver[m]
                                 /\ at'[m] = at[m] /\ cur'[m] = cur[m],
         pc'[n] \in {"idle", "get", "put", "won"},
         (IsLeader(n) \/ pc[n] = "won")' => IsLeader(n) \/ pc[n] = "won",
         ~clashed' => ~clashed
  PROVE  (~clashed => OneWriter /\ Decided /\ Fences)'
<1> SUFFICES ASSUME ~clashed' PROVE (OneWriter /\ Decided /\ Fences)'
  OBVIOUS
<1>1. OneWriter /\ Decided /\ Fences
  BY Zenon DEF ElectionInv
<1>2. \A m \in Nodes : m \in Writing' => m \in Writing /\ m # n
  BY Zenon DEF Writing
<1>3. OneWriter'
  <2>1. \A m, l \in Writing' : m = l
    BY Zenon, <1>1, <1>2 DEF OneWriter, Writing
  <2>2. ASSUME NEW m \in Writing' PROVE ver'[m] = version' + 1 /\ Outdated(m)'
    <3>1. m \in Nodes \ {n} /\ m \in Writing
      BY Zenon, <1>2 DEF Writing
    <3> QED
      BY Zenon, <1>1, <3>1 DEF OneWriter, Outdated
  <2> QED
    BY Zenon, <2>1, <2>2 DEF OneWriter
<1>4. Decided'
  <2> SUFFICES ASSUME NEW m \in Nodes, pc'[m] = "cas"
               PROVE  ver'[m] <= version' /\ (ver'[m] = version' => Outdated(m)')
    BY Zenon DEF Decided
  <2>1. m \in Nodes \ {n}
    BY Zenon
  <2> QED
    BY Zenon, <1>1, <2>1 DEF Decided, Outdated
<1>5. Fences'
  BY Zenon, <1>1 DEF Fences, IsLeader
<1> QED
  BY Zenon, <1>3, <1>4, <1>5

\* Get finds a record that n may replace, or none.
LEMMA ElectionGo ==
  ASSUME TypeOK, ElectionInv, NEW n \in Nodes, GoForClaim(n)
  PROVE  (~clashed => OneWriter /\ Decided /\ Fences)'
<1> SUFFICES ASSUME ~clashed PROVE (OneWriter /\ Decided /\ Fences)'
  BY Zenon DEF GoForClaim
<1>1. OneWriter /\ Decided /\ Fences
  BY Zenon DEF ElectionInv
<1>2. /\ UNCHANGED <<record, version, claimed, state, at, cur>>
      /\ ver' = [ver EXCEPT ![n] = version]
      /\ \E l \in {"put", "cas"} : pc' = [pc EXCEPT ![n] = l]
      /\ pc[n] = "get"
  BY Zenon DEF GoForClaim, Goto, tick, store
<1>3. \A m \in Nodes \ {n} : pc'[m] = pc[m] /\ ver'[m] = ver[m]
  BY Zenon, <1>2 DEF TypeOK
<1>4. Outdated(n)
  <2>1. record # Nil => record.expiry \in Nat /\ record.term \in Nat
    BY DEF TypeOK, Record
  <2>2. at[n] \in Nat /\ cur[n].term \in Nat
    BY SMTT(60), <1>2 DEF TypeOK, Record
  <2> QED
    BY <2>1, <2>2 DEF GoForClaim, Leased, Outdated
<1>5. \A m \in Nodes : Outdated(m)' <=> Outdated(m)
  BY Zenon, <1>2 DEF Outdated
<1>6. Writing' = Writing /\ n \notin Writing
  BY Zenon, <1>2, <1>3 DEF Writing, TypeOK
<1>7. OneWriter'
  <2>1. ASSUME NEW m \in Writing PROVE ver'[m] = version' + 1 /\ Outdated(m)'
    <3>1. m \in Nodes \ {n}
      BY Zenon, <1>6 DEF Writing
    <3> QED
      BY Zenon, <1>1, <1>2, <1>3, <1>5, <3>1 DEF OneWriter
  <2> QED
    BY Zenon, <1>1, <1>6, <2>1 DEF OneWriter
<1>8. Decided'
  <2>1. ver'[n] = version /\ version <= version
    BY <1>2 DEF TypeOK
  <2> QED
    BY Zenon, <1>1, <1>2, <1>3, <1>4, <1>5, <2>1 DEF Decided
<1>9. Fences'
  <2>1. pc'[n] # "won"
    BY Zenon, <1>2 DEF TypeOK
  <2> QED
    BY Zenon, <1>1, <1>2, <1>3, <2>1 DEF Fences, IsLeader
<1> QED
  BY Zenon, <1>7, <1>8, <1>9

\* The test of a call: nobody else is writing, and the record is one that n may
\* replace.
LEMMA ElectionTested ==
  ASSUME TypeOK, ElectionInv, NEW n \in Nodes, ClaimPut(n) \/ ClaimCAS(n)
  PROVE  (~clashed => OneWriter /\ Decided /\ Fences)'
<1> SUFFICES ASSUME ~clashed' PROVE (OneWriter /\ Decided /\ Fences)'
  OBVIOUS
<1>1. ~clashed /\ Writing = {} /\ (pc[n] = "put" => record = Nil)
  BY Zenon DEF ClaimPut, ClaimCAS, Tested
<1>2. OneWriter /\ Decided /\ Fences
  BY Zenon, <1>1 DEF ElectionInv
<1>3. /\ UNCHANGED <<record, version, claimed, state, at, cur>>
      /\ ver' = [ver EXCEPT ![n] = version + 1] /\ pc' = [pc EXCEPT ![n] = "append"]
  BY Zenon DEF ClaimPut, ClaimCAS, Tested, Goto, tick, store
<1>4. \A m \in Nodes \ {n} : pc'[m] = pc[m] /\ ver'[m] = ver[m]
  BY Zenon, <1>3 DEF TypeOK
<1>5. pc'[n] = "append" /\ ver'[n] = version + 1
  BY Zenon, <1>3 DEF TypeOK
<1>6. \A m \in Nodes : Outdated(m)' <=> Outdated(m)
  BY Zenon, <1>3 DEF Outdated
<1>7. Outdated(n)
  BY Zenon, <1>1, <1>2 DEF ClaimPut, ClaimCAS, Decided, Outdated
<1>8. \A m \in Writing' : m = n
  BY Zenon, <1>1, <1>4 DEF Writing
<1>9. OneWriter'
  BY Zenon, <1>3, <1>5, <1>6, <1>7, <1>8 DEF OneWriter
<1>10. Decided'
  <2> SUFFICES ASSUME NEW m \in Nodes, pc'[m] = "cas"
               PROVE  ver'[m] <= version' /\ (ver'[m] = version' => Outdated(m)')
    BY Zenon DEF Decided
  <2>1. m \in Nodes \ {n}
    BY Zenon, <1>5
  <2> QED
    BY Zenon, <1>2, <1>3, <1>4, <1>6, <2>1 DEF Decided
<1>11. Fences'
  BY Zenon, <1>2, <1>3, <1>4, <1>5 DEF Fences, IsLeader
<1> QED
  BY Zenon, <1>9, <1>10, <1>11

\* A call takes and claims its index: nothing else changes.
LEMMA ElectionIndex ==
  ASSUME TypeOK, ElectionInv, NEW n \in Nodes, LogClaim(n) \/ ApplyClaim(n)
  PROVE  (~clashed => OneWriter /\ Decided /\ Fences)'
<1>0. clashed' = clashed
  BY Zenon DEF LogClaim, ApplyClaim
<1> SUFFICES ASSUME ~clashed PROVE (OneWriter /\ Decided /\ Fences)'
  BY Zenon, <1>0
<1>1. OneWriter /\ Decided /\ Fences
  BY Zenon DEF ElectionInv
<1>2. /\ UNCHANGED <<record, version, claimed, state, at, cur, ver>>
      /\ pc[n] \in {"append", "check"} /\ \E l \in {"check", "store"} : pc' = [pc EXCEPT ![n] = l]
  BY Zenon DEF LogClaim, ApplyClaim, Goto, tick
<1>3. pc'[n] \in {"check", "store"} /\ \A m \in Nodes \ {n} : pc'[m] = pc[m]
  BY Zenon, <1>2 DEF TypeOK
<1>4. Writing' = Writing
  BY Zenon, <1>2, <1>3 DEF Writing
<1>5. \A m \in Nodes : Outdated(m)' <=> Outdated(m)
  BY Zenon, <1>2 DEF Outdated
<1>6. OneWriter'
  <2>1. \A m \in Writing : m \in Nodes
    BY Zenon DEF Writing
  <2> QED
    BY Zenon, <1>1, <1>2, <1>4, <1>5, <2>1 DEF OneWriter
<1>7. Decided'
  BY Zenon, <1>1, <1>2, <1>3, <1>5 DEF Decided
<1>8. Fences'
  BY Zenon, <1>1, <1>2, <1>3 DEF Fences, IsLeader
<1> QED
  BY Zenon, <1>6, <1>7, <1>8

\* The write makes every version read before it stale.
LEMMA ElectionStore ==
  ASSUME TypeOK, ElectionInv, NEW n \in Nodes, ApplyStore(n)
  PROVE  (~clashed => OneWriter /\ Decided /\ Fences)'
<1> SUFFICES ASSUME ~clashed PROVE (OneWriter /\ Decided /\ Fences)'
  BY Zenon DEF ApplyStore
<1>1. OneWriter /\ Decided /\ Fences
  BY Zenon DEF ElectionInv
<1>2. /\ UNCHANGED <<state, at, cur, ver>> /\ pc[n] = "store"
      /\ record' = cur[n] /\ version' = ver[n]
      /\ claimed' = [claimed EXCEPT ![n] = ver[n]] /\ pc' = [pc EXCEPT ![n] = "won"]
  BY Zenon DEF ApplyStore, Goto, tick
<1>3. /\ pc'[n] = "won" /\ claimed'[n] = ver[n]
      /\ \A m \in Nodes \ {n} : pc'[m] = pc[m] /\ claimed'[m] = claimed[m]
  BY Zenon, <1>2 DEF TypeOK
<1>4. n \in Writing /\ Writing' = {}
  <2>1. n \in Writing
    BY Zenon, <1>2 DEF Writing
  <2>2. \A m \in Nodes : m \in Writing => m = n
    BY Zenon, <1>1, <2>1 DEF OneWriter
  <2>3. \A m \in Nodes : pc'[m] \notin {"append", "check", "store"}
    BY Zenon, <1>3, <2>2 DEF Writing
  <2> QED
    BY Zenon, <2>1, <2>3 DEF Writing
<1>5. version' = version + 1 /\ version \in Nat /\ record'.node = n
  BY Zenon, <1>1, <1>2, <1>4 DEF OneWriter, ElectionInv, Proposes, TypeOK
<1>6. OneWriter'
  BY Zenon, <1>4 DEF OneWriter
<1>7. Decided'
  <2> SUFFICES ASSUME NEW m \in Nodes, pc'[m] = "cas"
               PROVE  ver'[m] <= version' /\ ver'[m] # version'
    BY Zenon DEF Decided
  <2>1. pc[m] = "cas" /\ ver'[m] = ver[m] /\ ver[m] \in Nat
    BY Zenon, <1>2, <1>3 DEF TypeOK
  <2>2. ver[m] <= version
    BY Zenon, <1>1, <2>1 DEF Decided
  <2> QED
    BY <1>5, <2>1, <2>2
<1>8. Fences'
  <2> SUFFICES ASSUME NEW m \in Nodes, IsLeader(m)' \/ pc'[m] = "won"
               PROVE  /\ 0 < claimed'[m] /\ claimed'[m] <= version'
                      /\ claimed'[m] = version' <=> record'.node = m
    BY Zenon DEF Fences
  <2>1. CASE m = n
    <3>1. claimed'[m] = version'
      BY Zenon, <1>2, <1>3, <2>1
    <3> QED
      BY <1>5, <2>1, <3>1
  <2>2. CASE m # n
    <3>1. claimed'[m] = claimed[m] /\ (IsLeader(m) \/ pc[m] = "won") /\ claimed[m] \in Nat
      BY Zenon, <1>2, <1>3, <2>2 DEF IsLeader, TypeOK
    <3>2. 0 < claimed[m] /\ claimed[m] <= version
      BY Zenon, <1>1, <3>1 DEF Fences
    <3> QED
      BY <1>5, <2>2, <3>1, <3>2
  <2> QED
    BY Zenon, <2>1, <2>2
<1> QED
  BY Zenon, <1>6, <1>7, <1>8

\* Every step keeps the invariant.
LEMMA ElectionNext == TypeOK /\ ElectionInv /\ [Next]_vars => ElectionInv'
<1> SUFFICES ASSUME TypeOK, ElectionInv, [Next]_vars PROVE (~clashed => OneWriter /\ Decided /\ Fences)'
  BY Zenon, ProposesNext DEF ElectionInv
<1>1. CASE Pass \/ OtherCall \/ UNCHANGED vars
  <2>1. UNCHANGED <<pc, state, ver, at, cur, record, version, claimed, clashed>>
    BY Zenon, <1>1 DEF Pass, OtherCall, vars, tick, store
  <2> QED
    BY Zenon, <2>1 DEF ElectionInv, OneWriter, Decided, Fences, Writing, Outdated, IsLeader
<1>2. ASSUME NEW n \in Nodes, \/ TickStart(n) \/ Follow(n) \/ Lose(n) \/ Lead(n) \/ Stop(n) \/ Restart(n)
                              \/ ApplySkip(n)
      PROVE  (~clashed => OneWriter /\ Decided /\ Fences)'
  <2>1. UNCHANGED <<record, version, claimed>>
    BY Zenon, <1>2 DEF TickStart, Follow, Lose, Lead, Stop, Restart, ApplySkip, store
  <2>2. \A m \in Nodes \ {n} : /\ pc'[m] = pc[m] /\ state'[m] = state[m] /\ ver'[m] = ver[m]
                                /\ at'[m] = at[m] /\ cur'[m] = cur[m]
    <3>1. CASE TickStart(n)
      BY Zenon, <3>1 DEF TickStart, Goto, TypeOK
    <3> QED
      BY ZenonT(60), <1>2, <3>1 DEF Follow, Lose, Lead, Stop, Restart, ApplySkip, Goto, TypeOK, tick
  <2>3. CASE Stop(n) \/ Restart(n)
    <3>1. pc' = pc /\ ver' = ver /\ at' = at /\ cur' = cur /\ clashed' = clashed
      BY Zenon, <2>3 DEF Stop, Restart, tick
    <3>2. \A m \in Nodes : IsLeader(m)' => IsLeader(m)
      BY Zenon, <2>3 DEF Stop, Restart, tick, IsLeader, TypeOK
    <3> QED
      BY Zenon, <2>1, <3>1, <3>2 DEF ElectionInv, OneWriter, Decided, Fences, Writing, Outdated
  <2>4. CASE ApplySkip(n)
    BY Zenon, <2>4 DEF ApplySkip
  <2>5. CASE TickStart(n) \/ Follow(n) \/ Lose(n) \/ Lead(n)
    <3>1. pc'[n] \in {"idle", "get"} /\ clashed' = clashed
      BY Zenon, <2>5 DEF TickStart, Follow, Lose, Lead, Goto, TypeOK
    <3>2. (IsLeader(n) \/ pc[n] = "won")' => IsLeader(n) \/ pc[n] = "won"
      BY Zenon, <2>5, <3>1 DEF TickStart, Follow, Lose, Lead, Goto, TypeOK, IsLeader, tick
    <3> QED
      BY Zenon, <2>1, <2>2, <3>1, <3>2, ElectionStay
  <2> QED
    BY Zenon, <1>2, <2>3, <2>4, <2>5
<1>3. ASSUME NEW n \in Nodes, GoForClaim(n) PROVE (~clashed => OneWriter /\ Decided /\ Fences)'
  BY Zenon, <1>3, ElectionGo
<1>4. ASSUME NEW n \in Nodes, ClaimPut(n) \/ ClaimCAS(n) PROVE (~clashed => OneWriter /\ Decided /\ Fences)'
  BY Zenon, <1>4, ElectionTested
<1>5. ASSUME NEW n \in Nodes, LogClaim(n) \/ ApplyClaim(n) PROVE (~clashed => OneWriter /\ Decided /\ Fences)'
  BY Zenon, <1>5, ElectionIndex
<1>6. ASSUME NEW n \in Nodes, ApplyStore(n) PROVE (~clashed => OneWriter /\ Decided /\ Fences)'
  BY Zenon, <1>6, ElectionStore
<1> QED
  BY Zenon, <1>1, <1>2, <1>3, <1>4, <1>5, <1>6 DEF Next, Call

LEMMA ElectionAlways == Spec => []ElectionInv
<1>1. Init => ElectionInv
  BY Zenon DEF Init, ElectionInv, Proposes, OneWriter, Decided, Fences, Writing, IsLeader
<1> QED
  BY <1>1, ElectionNext, TypeCorrect, PTL DEF Spec

\* However many nodes tick, stall, stop and start again, and whatever else goes
\* through the store, the version of the leader record tells the holder of the
\* lease from every node that only believes it leads, until two claims clash in
\* the store.
THEOREM VersionFencesHolds == Spec => []VersionFences
<1>1. ElectionInv => VersionFences
  BY Zenon DEF ElectionInv, Fences, VersionFences
<1> QED
  BY <1>1, ElectionAlways, PTL

\* Until two claims clash in the store, no claim of tick() replaces a valid lease
\* except by one of a higher term.
THEOREM SwapsRespectLeaseHolds == Spec => SwapsRespectLease
<1> DEFINE Rule == \A n \in Nodes : ~clashed /\ ApplyStore(n) /\ record # Nil
                                     => record.expiry <= now \/ record'.term > record.term
<1>1. TypeOK /\ ElectionInv /\ [Next]_vars => [Rule]_vars
  <2> SUFFICES ASSUME TypeOK, ElectionInv, NEW n \in Nodes, ~clashed, ApplyStore(n), record # Nil
               PROVE  record.expiry <= now \/ record'.term > record.term
    OBVIOUS
  <2>1. n \in Writing /\ pc[n] = "store" /\ record' = cur[n]
    BY Zenon DEF ApplyStore, Writing
  <2>2. /\ at[n] <= now
        /\ record.expiry <= at[n] \/ record.term < cur[n].term
    BY Zenon, <2>1 DEF ElectionInv, OneWriter, Outdated, Proposes
  <2>3. record.expiry \in Nat /\ record.term \in Nat /\ cur[n].term \in Nat
    BY <2>1 DEF TypeOK, Record
  <2> QED
    BY <2>1, <2>2, <2>3 DEF TypeOK
<1> QED
  BY <1>1, TypeCorrect, ElectionAlways, PTL DEF Spec, SwapsRespectLease

-----------------------------------------------------------------------------
(* The ring of log records.                                                 *)

\* The next index, without the remainder.
LEMMA NextIndex ==
  ASSUME NEW m \in Nat \ {0}, NEW x \in 0..(m - 1)
  PROVE  (x + 1) % m = IF x + 1 = m THEN 0 ELSE x + 1
<1>1. CASE x + 1 = m
  BY <1>1
<1>2. CASE x + 1 < m
  BY <1>2
<1> QED
  BY <1>1, <1>2

\* The least of three numbers is one of them and at most each.
LEMMA Least3Facts ==
  ASSUME NEW a \in Nat, NEW b \in Nat, NEW c \in Nat
  PROVE  LET m == Least3(a, b, c) IN m \in {a, b, c} /\ m <= a /\ m <= b /\ m <= c
<1>1. \E m \in {a, b, c} : m <= a /\ m <= b /\ m <= c
  OBVIOUS
<1> QED
  BY Zenon, <1>1 DEF Least3

\* The index of the i-th newest record.
Back(l, i) == IF l.next - i < 0 THEN l.next - i + l.max ELSE l.next - i

LogTypes ==
  /\ log = [ring |-> log.ring, next |-> log.next, full |-> log.full, max |-> log.max]
  /\ log.max \in Nat \ {0} /\ log.next \in 0..(log.max - 1) /\ log.full \in BOOLEAN
  /\ log.ring \in [0..(log.max - 1) -> Nat]
  /\ appended \in Seq(Nat)

\* The ring has the newest records, as far as it reaches.
LogInv ==
  /\ LogTypes
  /\ ~log.full => Len(appended) = log.next
  /\ log.full => Len(appended) >= log.max
  /\ \A i \in 1..log.max : i <= Len(appended) => log.ring[Back(log, i)] = appended[Len(appended) + 1 - i]

\* NewLogs, with the default size where the argument is not positive.
LEMMA LogInit == LogsInit => LogInv
<1> SUFFICES ASSUME LogsInit
             PROVE  LogInv
  OBVIOUS
<1>1. PICK size \in RingSizes : log = NewLogs(size)
  BY Zenon DEF LogsInit
<1> DEFINE max == IF size <= 0 THEN DefaultRing ELSE size
<1>2. max \in Nat \ {0}
  BY LogsAssumption
<1>3. log = [ring |-> [i \in 0..(max - 1) |-> 0], next |-> 0, full |-> FALSE, max |-> max]
  BY Zenon, <1>1 DEF NewLogs
<1> HIDE DEF max
<1>4. log.max = max /\ log.next = 0 /\ log.full = FALSE /\ log.ring = [i \in 0..(max - 1) |-> 0]
  BY <1>3
<1>5. appended = <<>>
  BY Zenon DEF LogsInit
<1>6. LogTypes
  BY <1>2, <1>3, <1>4, <1>5 DEF LogTypes
<1> QED
  BY <1>4, <1>5, <1>6 DEF LogInv

\* Append keeps it: the record goes where the next index is, the others are one
\* place further back, also across the end of the ring.
LEMMA LogKeeps ==
  ASSUME LogInv, [LogStep]_logVars
  PROVE  LogInv'
<1>1. CASE UNCHANGED logVars
  BY Zenon, <1>1 DEF logVars, LogInv, LogTypes, Back
<1>2. CASE LogStep
  <2> DEFINE n == Len(appended)
             m == log.max
             x == log.next
             y == IF x + 1 = m THEN 0 ELSE x + 1
  <2>1. /\ log = [ring |-> log.ring, next |-> x, full |-> log.full, max |-> m]
        /\ m \in Nat \ {0} /\ x \in 0..(m - 1) /\ log.full \in BOOLEAN
        /\ log.ring \in [0..(m - 1) -> Nat] /\ appended \in Seq(Nat) /\ n \in Nat
    BY DEF LogInv, LogTypes
  <2>1a. m \in Nat \ {0} /\ x \in 0..(m - 1)
    BY Zenon, <2>1
  <2>2. y = (x + 1) % m /\ y \in 0..(m - 1)
    BY <2>1, NextIndex
  <2>3. log' = AppendLog(log, n + 1) /\ appended' = Append(appended, n + 1)
    BY Zenon, <1>2 DEF LogStep
  <2> HIDE DEF n, m, x, y
  <2> DEFINE f == log.full \/ y = 0
  <2>4. log' = [ring |-> [log.ring EXCEPT ![x] = n + 1], next |-> y, full |-> f, max |-> m]
    BY Zenon, <2>2, <2>3 DEF AppendLog, x, m
  <2> HIDE DEF f
  <2>5. /\ log'.ring = [log.ring EXCEPT ![x] = n + 1] /\ log'.next = y /\ log'.full = f /\ log'.max = m
        /\ log' = [ring |-> log'.ring, next |-> log'.next, full |-> log'.full, max |-> log'.max]
    BY Zenon, <2>4
  <2>5a. f \in BOOLEAN /\ (f => log.full \/ y = 0) /\ (~f => ~log.full /\ y # 0)
    BY Zenon DEF f
  <2>6. appended' \in Seq(Nat) /\ Len(appended') = n + 1 /\ appended'[n + 1] = n + 1
        /\ \A i \in 1..n : appended'[i] = appended[i]
    BY <2>1, <2>3 DEF n
  <2>7. LogTypes'
    BY SMTT(60), <2>1, <2>2, <2>5, <2>5a, <2>6 DEF LogTypes
  <2>8. /\ ~log.full => n = x
        /\ log.full => n >= m
        /\ \A i \in 1..m : i <= n => log.ring[Back(log, i)] = appended[n + 1 - i]
    BY Zenon DEF LogInv, n, m, x
  <2>9. /\ ~log'.full => Len(appended') = log'.next
        /\ log'.full => Len(appended') >= log'.max
    <3>1. (~log.full /\ y # 0) => n + 1 = y
      BY <2>1, <2>2, <2>8 DEF y
    <3>2. (log.full \/ y = 0) => n + 1 >= m
      BY <2>1, <2>2, <2>8 DEF y
    <3> QED
      BY Zenon, <2>5, <2>5a, <2>6, <3>1, <3>2
  <2>9a. \A k : Back(log, k) = IF x - k < 0 THEN x - k + m ELSE x - k
    BY Zenon DEF Back, x, m
  <2>9b. \A k : Back(log', k) = IF y - k < 0 THEN y - k + m ELSE y - k
    BY Zenon, <2>5 DEF Back
  <2>10. ASSUME NEW i \in 1..m, i <= n + 1
         PROVE  log'.ring[Back(log', i)] = appended'[(n + 1) + 1 - i]
    <3>1. CASE i = 1
      <4>1. Back(log', i) = x
        <5>1. x = IF y - 1 < 0 THEN y - 1 + m ELSE y - 1
          BY <2>1a DEF y
        <5> QED
          BY Zenon, <2>9b, <3>1, <5>1
      <4> QED
        BY <2>1, <2>5, <2>6, <3>1, <4>1
    <3>2. CASE i > 1
      <4>1. i - 1 \in 1..m /\ i - 1 <= n
        BY <2>1, <2>10, <3>2
      <4>2. Back(log', i) = Back(log, i - 1) /\ Back(log, i - 1) # x /\ Back(log, i - 1) \in 0..(m - 1)
        <5> DEFINE z == IF x - (i - 1) < 0 THEN x - (i - 1) + m ELSE x - (i - 1)
        <5>1. z = IF y - i < 0 THEN y - i + m ELSE y - i
          BY <2>1a, <3>2 DEF y
        <5>2. z # x /\ z \in 0..(m - 1)
          BY <2>1a, <3>2
        <5>3. Back(log, i - 1) = z /\ Back(log', i) = z
          BY Zenon, <2>9a, <2>9b, <5>1
        <5> QED
          BY Zenon, <5>2, <5>3
      <4>3. log.ring[Back(log, i - 1)] = appended[n + 1 - (i - 1)]
        BY Zenon, <2>8, <4>1
      <4>4. log'.ring[Back(log', i)] = log.ring[Back(log, i - 1)]
        BY <2>1, <2>5, <4>2
      <4>5. n + 1 - (i - 1) = (n + 1) + 1 - i /\ (n + 1) + 1 - i \in 1..n
        BY <2>1, <2>10, <3>2
      <4> QED
        BY <2>6, <4>3, <4>4, <4>5
    <3> QED
      BY <3>1, <3>2
  <2>11. \A i \in 1..log'.max : i <= Len(appended') => log'.ring[Back(log', i)] = appended'[Len(appended') + 1 - i]
    BY Zenon, <2>5, <2>6, <2>10
  <2> QED
    BY Zenon, <2>7, <2>9, <2>11 DEF LogInv
<1> QED
  BY Zenon, <1>1, <1>2

\* Whatever its size and however often it wrapped, Tail returns the newest
\* records of the ring, newest first.
THEOREM LogTailIsNewest == LogsSpec => []TailIsNewest
<1>1. LogInv => TailIsNewest
  <2> SUFFICES ASSUME LogInv, NEW k \in 0..(log.max + 1)
               PROVE  TailOf(log, k) = [i \in 1..Least3(k, log.max, Len(appended)) |-> appended[Len(appended) + 1 - i]]
    BY Zenon DEF TailIsNewest
  <2> DEFINE n     == Len(appended)
             m     == log.max
             count == IF log.full THEN m ELSE log.next
             L     == Least3(k, m, count)
  <2>1. k \in Nat /\ m \in Nat /\ n \in Nat /\ count \in Nat
    BY DEF LogInv, LogTypes
  <2>2. log.full => count = m /\ n >= m
    BY Zenon DEF LogInv
  <2>3. ~log.full => count = n
    BY Zenon DEF LogInv
  <2>4. TailOf(log, k) = [i \in 1..L |-> log.ring[Back(log, i)]]
    BY Zenon DEF TailOf, Back
  <2>5. \A i \in 1..m : i <= n => log.ring[Back(log, i)] = appended[n + 1 - i]
    BY Zenon DEF LogInv
  <2> HIDE DEF n, m, count
  <2>6. L \in {k, m, count} /\ L <= k /\ L <= m /\ L <= count
    BY Zenon, <2>1, Least3Facts
  <2> DEFINE P == Least3(k, m, n)
  <2>7. P \in {k, m, n} /\ P <= k /\ P <= m /\ P <= n
    BY Zenon, <2>1, Least3Facts
  <2> HIDE DEF L, P
  <2>8. L = P
    BY <2>1, <2>2, <2>3, <2>6, <2>7
  <2>9. \A i \in 1..L : i \in 1..m /\ i <= n
    BY <2>1, <2>2, <2>3, <2>6, <2>7, <2>8
  <2>10. TailOf(log, k) = [i \in 1..P |-> appended[n + 1 - i]]
    BY <2>4, <2>5, <2>8, <2>9
  <2> QED
    BY Zenon, <2>10 DEF P, n, m
<1>2. LogInv /\ [LogStep]_logVars => LogInv'
  BY LogKeeps
<1> QED
  BY <1>1, <1>2, LogInit, PTL DEF LogsSpec

-----------------------------------------------------------------------------
(* Numbers.                                                                 *)

INSTANCE FiniteSetTheorems

\* The least of some naturals.
LEMMA Least ==
  ASSUME NEW T, T \subseteq Nat, T # {}
  PROVE  \E x \in T : \A y \in T : x <= y
<1> DEFINE R == OpToRel(<, Nat)
<1>1. IsWellFoundedOn(R, Nat)
  BY Zenon, NatLessThanWellFounded
<1>2. \A x, y : (x \in Nat /\ y \in Nat /\ x < y) => <<x, y>> \in R
  BY DEF OpToRel
<1> HIDE DEF R
<1>3. PICK x \in T : \A y \in T : ~ (<<y, x>> \in R)
  BY Zenon, <1>1, WFMin
<1>4. ASSUME NEW y \in T
      PROVE  x <= y
  <2>1. ~ (y < x)
    BY Zenon, <1>2, <1>3
  <2> QED
    BY <2>1
<1> QED
  BY <1>4

-----------------------------------------------------------------------------
(* retry.Do.                                                                *)

\* Powers of two, counted as the subsets of 1..n.
LEMMA Powers ==
  ASSUME NEW n \in Nat
  PROVE  /\ 2^n \in Nat \ {0}
         /\ \A k \in 0..n : 2^k \in Nat \ {0} /\ 2^k <= 2^n
<1>1. ASSUME NEW k \in Nat
      PROVE  IsFiniteSet(SUBSET (1..k)) /\ Cardinality(SUBSET (1..k)) = 2^k
  <2>1. IsFiniteSet(1..k) /\ Cardinality(1..k) = k
    BY FS_Interval
  <2> QED
    BY Zenon, <2>1, FS_SUBSET
<1>2. ASSUME NEW k \in Nat
      PROVE  2^k \in Nat \ {0}
  <2>1. 2^k \in Nat
    BY Zenon, <1>1, FS_CardinalityType
  <2>2. {} \in SUBSET (1..k)
    OBVIOUS
  <2>3. Cardinality(SUBSET (1..k)) # 0
    BY Zenon, <1>1, <2>2, FS_EmptySet
  <2> QED
    BY Zenon, <1>1, <2>1, <2>3
<1>3. ASSUME NEW k \in 0..n
      PROVE  2^k <= 2^n
  <2>1. SUBSET (1..k) \in SUBSET (SUBSET (1..n))
    OBVIOUS
  <2>2. k \in Nat
    OBVIOUS
  <2> QED
    <3>1. Cardinality(SUBSET (1..k)) <= Cardinality(SUBSET (1..n))
      BY Zenon, <1>1, <2>1, FS_Subset
    <3>2. Cardinality(SUBSET (1..k)) = 2^k /\ Cardinality(SUBSET (1..n)) = 2^n
      BY Zenon, <1>1, <2>2
    <3> QED
      BY Zenon, <3>1, <3>2
<1> QED
  BY <1>2, <1>3

Nominal(i) == Smaller(do.base * 2^(i - 1), do.cap)
Fitting == do.base >= 4 /\ do.cap >= 4 /\ do.base * 2^(do.max - 1) <= MaxDuration

DoTypes(r) ==
  /\ r = [max |-> r.max, base |-> r.base, cap |-> r.cap, calls |-> r.calls, waits |-> r.waits, result |-> r.result]
  /\ r.max \in Nat \ {0} /\ r.base \in Nat \ {0} /\ r.cap \in Nat \ {0}
  /\ r.calls \in 0..r.max /\ r.waits \in Seq(Int)

\* While Do runs it has waited after every call.
RetryInv ==
  /\ DoTypes(do)
  /\ do.result = "none" => Len(do.waits) = do.calls /\ do.calls < do.max
  /\ Len(do.waits) < do.max
  /\ over => do.result \in {"ok", "permanent"}
  /\ \A i \in DOMAIN do.waits : do.waits[i] >= Nominal(i) /\ 4 * do.waits[i] < 5 * Nominal(i)
  /\ Fitting => do.result # "panic"

\* Do begins with its defaults applied and no call made.
LEMMA RetryStarts == RetryInit => RetryInv
<1> SUFFICES ASSUME RetryInit
             PROVE  RetryInv
  OBVIOUS
<1>1. PICK a \in Arguments : do = StartDo(a.attempts, a.base, a.cap)
  BY Zenon DEF RetryInit
<1>2. a.attempts \in Int /\ a.base \in Int /\ a.cap \in Int
  BY RetryAssumption
<1>3. /\ do.max = IF a.attempts <= 0 THEN DefaultAttempts ELSE a.attempts
      /\ do.base = IF a.base <= 0 THEN DefaultBase ELSE a.base
      /\ do.cap = IF a.cap <= 0 THEN DefaultCap ELSE a.cap
      /\ do.calls = 0 /\ do.waits = <<>> /\ do.result = "none"
      /\ do = [max |-> do.max, base |-> do.base, cap |-> do.cap, calls |-> do.calls, waits |-> do.waits, result |-> do.result]
  BY <1>1 DEF StartDo
<1>4. DoTypes(do)
  BY <1>2, <1>3, RetryAssumption DEF DoTypes
<1> QED
  BY <1>3, <1>4 DEF RetryInv, RetryInit, DoTypes

\* A delay with room for jitter is the nominal one.
LEMMA Delays ==
  ASSUME DoTypes(do), NEW n \in Nat \ {0}, NEW j \in Jitters(Backoff(do, n))
  PROVE  LET d == Backoff(do, n)
         IN d + j \in Int /\ d + j >= Nominal(n) /\ 4 * (d + j) < 5 * Nominal(n)
<1> DEFINE raw == do.base * 2^(n - 1)
           d   == Backoff(do, n)
<1>1. raw \in Nat
  <2>1. n - 1 \in Nat /\ do.base \in Nat
    BY DEF DoTypes
  <2>2. 2^(n - 1) \in Nat
    BY Zenon, <2>1, Powers
  <2> QED
    BY <2>1, <2>2
<1>2. Nominal(n) = Smaller(raw, do.cap)
  BY Zenon DEF Nominal
<1>3. d = LET e == IF raw > MaxDuration THEN -MaxDuration - 1 ELSE raw
          IN IF e > do.cap THEN do.cap ELSE e
  BY Zenon DEF Backoff
<1> HIDE DEF raw
<1>4. do.cap \in Nat /\ MaxDuration \in Nat
  BY RetryAssumption DEF DoTypes
<1>5. d \in Int
  BY <1>1, <1>3, <1>4
<1>6. j \in Int /\ 0 <= j /\ j <= d \div 4 - 1
  BY <1>5 DEF Jitters
<1> HIDE DEF d
<1>7. d >= 4 /\ 4 * (d \div 4) <= d
  BY <1>5, <1>6
<1>8. d = Smaller(raw, do.cap)
  BY <1>1, <1>3, <1>4, <1>7 DEF Smaller
<1>9. d + j \in Int /\ d + j >= d /\ 4 * (d + j) < 5 * d
  BY <1>5, <1>6, <1>7
<1> QED
  BY Zenon, <1>2, <1>8, <1>9 DEF d

\* Where the products fit, there is room.
LEMMA RoomForJitter ==
  ASSUME DoTypes(do), Fitting, NEW n \in 1..do.max
  PROVE  Jitters(Backoff(do, n)) # {}
<1> DEFINE raw == do.base * 2^(n - 1)
           top == do.base * 2^(do.max - 1)
           p   == 2^(n - 1)
           q   == 2^(do.max - 1)
<1>1. do.base \in Nat /\ do.cap \in Nat /\ do.base >= 4 /\ do.cap >= 4 /\ MaxDuration \in Nat
  BY RetryAssumption DEF DoTypes, Fitting
<1>2. do.max - 1 \in Nat /\ n - 1 \in 0..(do.max - 1)
  BY DEF DoTypes
<1>3. p \in Nat \ {0} /\ q \in Nat \ {0} /\ p <= q
  BY Zenon, <1>2, Powers
<1>4. do.base * q <= MaxDuration
  BY Zenon DEF Fitting
<1>5. Backoff(do, n) = LET e == IF do.base * p > MaxDuration THEN -MaxDuration - 1 ELSE do.base * p
                       IN IF e > do.cap THEN do.cap ELSE e
  BY Zenon DEF Backoff
<1> HIDE DEF p, q
<1>6. do.base * p \in Nat /\ do.base * p >= 4 /\ do.base * p <= do.base * q /\ do.base * q \in Nat
  BY <1>1, <1>3
<1>7. Backoff(do, n) \in Int /\ Backoff(do, n) >= 4
  BY <1>1, <1>4, <1>5, <1>6
<1>8. 0 \in Jitters(Backoff(do, n))
  BY <1>7 DEF Jitters
<1> QED
  BY Zenon, <1>8

\* One pass of the loop: Do ends, or it has waited once more.
LEMMA RetryKeeps ==
  ASSUME RetryInv, [RetryStep]_retryVars
  PROVE  RetryInv'
<1>1. CASE UNCHANGED retryVars
  BY Zenon, <1>1 DEF retryVars, RetryInv, DoTypes, Nominal, Fitting
<1>2. CASE RetryStep
  <2>1. PICK outcome \in {"ok", "fail", "permanent"}, canceled \in {"no", "before", "waiting"} :
          do' \in Attempt(do, outcome, canceled) /\ over' = (canceled # "before" /\ outcome # "fail")
    BY Zenon, <1>2 DEF RetryStep
  <2> DEFINE n == do.calls + 1
             d == Backoff(do, n)
  <2>2. do.result = "none" /\ Len(do.waits) = do.calls /\ do.calls < do.max /\ DoTypes(do)
    BY Zenon, <1>2 DEF RetryStep, RetryInv
  <2>3. n \in 1..do.max /\ n \in Nat \ {0}
    BY <2>2 DEF DoTypes
  <2>4. ASSUME NEW res, NEW c \in {do.calls, n}, do' = [do EXCEPT !.calls = c, !.result = res], res # "none",
               over' => res \in {"ok", "permanent"}, res = "panic" => ~Fitting
        PROVE  RetryInv'
    <3>1. /\ do'.max = do.max /\ do'.base = do.base /\ do'.cap = do.cap /\ do'.calls = c
          /\ do'.waits = do.waits /\ do'.result = res
          /\ do' = [max |-> do'.max, base |-> do'.base, cap |-> do'.cap, calls |-> do'.calls, waits |-> do'.waits, result |-> do'.result]
      BY Zenon, <2>2, <2>4 DEF DoTypes
    <3>2. DoTypes(do)'
      BY <2>2, <2>3, <3>1 DEF DoTypes
    <3>3. Fitting' = Fitting /\ \A i : Nominal(i)' = Nominal(i)
      BY Zenon, <3>1 DEF Fitting, Nominal
    <3> QED
      BY Zenon, <2>4, <3>1, <3>2, <3>3 DEF RetryInv
  <2>5. ASSUME NEW j \in Jitters(d), n # do.max, ~over',
               do' = [do EXCEPT !.calls = n, !.result = "none", !.waits = Append(do.waits, d + j)]
        PROVE  RetryInv'
    <3>1. d + j \in Int /\ d + j >= Nominal(n) /\ 4 * (d + j) < 5 * Nominal(n)
      BY Zenon, <2>2, <2>3, Delays
    <3> HIDE DEF d
    <3>2. /\ do'.max = do.max /\ do'.base = do.base /\ do'.cap = do.cap /\ do'.calls = n
          /\ do'.waits = Append(do.waits, d + j) /\ do'.result = "none"
          /\ do' = [max |-> do'.max, base |-> do'.base, cap |-> do'.cap, calls |-> do'.calls, waits |-> do'.waits, result |-> do'.result]
      BY Zenon, <2>2, <2>5 DEF DoTypes
    <3>3. do'.waits \in Seq(Int) /\ Len(do'.waits) = n /\ do'.waits[n] = d + j /\ DOMAIN do'.waits = 1..n
          /\ \A i \in 1..(n - 1) : i \in DOMAIN do.waits /\ do'.waits[i] = do.waits[i]
      BY SMTT(60), <2>2, <2>3, <3>1, <3>2 DEF DoTypes
    <3>4. DoTypes(do)'
      BY <2>2, <2>3, <3>2, <3>3 DEF DoTypes
    <3>5. \A i : Nominal(i)' = Nominal(i)
      BY Zenon, <3>2 DEF Nominal
    <3>6. \A i \in DOMAIN do'.waits : do'.waits[i] >= Nominal(i) /\ 4 * do'.waits[i] < 5 * Nominal(i)
      <4>1. ASSUME NEW i \in DOMAIN do'.waits
            PROVE  do'.waits[i] >= Nominal(i) /\ 4 * do'.waits[i] < 5 * Nominal(i)
        <5>1. CASE i = n
          BY Zenon, <3>1, <3>3, <5>1
        <5>2. CASE i # n
          <6>1. i \in 1..(n - 1)
            BY <2>3, <3>3, <5>2
          <6> QED
            BY Zenon, <3>3, <6>1 DEF RetryInv
        <5> QED
          BY Zenon, <5>1, <5>2
      <4> QED
        BY Zenon, <4>1
    <3>7. n < do.max
      BY <2>2, <2>3, <2>5 DEF DoTypes
    <3>8. "none" # "panic"
      OBVIOUS
    <3> QED
      BY Zenon, <2>5, <3>2, <3>3, <3>4, <3>5, <3>6, <3>7, <3>8 DEF RetryInv
  <2>6. do = [do EXCEPT !.calls = do.calls]
    BY <2>2 DEF DoTypes
  <2>7. CASE canceled = "before"
    <3>1. do' = [do EXCEPT !.calls = do.calls, !.result = "canceled"]
      BY Zenon, <2>1, <2>2, <2>7 DEF Attempt, DoTypes
    <3>2. ~over'
      BY Zenon, <2>1, <2>7
    <3>3. "canceled" # "none" /\ "canceled" # "panic" /\ do.calls \in {do.calls, n}
      OBVIOUS
    <3> QED
      BY Zenon, <2>4, <3>1, <3>2, <3>3
  <2>8. CASE canceled # "before" /\ outcome = "ok"
    <3>1. do' = [do EXCEPT !.calls = n, !.result = "ok"]
      BY <2>1, <2>8 DEF Attempt
    <3>2. "ok" # "none" /\ "ok" # "panic" /\ n \in {do.calls, n}
      OBVIOUS
    <3> QED
      BY Zenon, <2>4, <3>1, <3>2
  <2>9. CASE canceled # "before" /\ outcome = "permanent"
    <3>1. do' = [do EXCEPT !.calls = n, !.result = "permanent"]
      BY <2>1, <2>9 DEF Attempt
    <3>2. "permanent" # "none" /\ "permanent" # "panic" /\ n \in {do.calls, n}
      OBVIOUS
    <3> QED
      BY Zenon, <2>4, <3>1, <3>2
  <2>10. CASE canceled # "before" /\ outcome = "fail"
    <3>1. ~over'
      BY ZenonT(60), <2>1, <2>10
    <3>2. \/ \E res \in {"exhausted", "canceled"} : do' = [do EXCEPT !.calls = n, !.result = res]
          \/ Jitters(d) = {} /\ do' = [do EXCEPT !.calls = n, !.result = "panic"]
          \/ /\ n # do.max
             /\ \E j \in Jitters(d) :
                  do' = [[do EXCEPT !.calls = n, !.result = "none"] EXCEPT !.waits = Append(do.waits, d + j)]
      BY ZenonT(60), <2>1, <2>10 DEF Attempt
    <3>3. CASE \E res \in {"exhausted", "canceled"} : do' = [do EXCEPT !.calls = n, !.result = res]
      BY ZenonT(60), <2>4, <3>1, <3>3
    <3>4. CASE Jitters(d) = {} /\ do' = [do EXCEPT !.calls = n, !.result = "panic"]
      <4>1. ~Fitting
        BY ZenonT(60), <2>2, <2>3, <3>4, RoomForJitter
      <4> QED
        BY Zenon, <2>4, <3>1, <3>4, <4>1
    <3>5. ASSUME NEW j \in Jitters(d), n # do.max,
                 do' = [[do EXCEPT !.calls = n, !.result = "none"] EXCEPT !.waits = Append(do.waits, d + j)]
          PROVE  RetryInv'
      <4>1. do' = [do EXCEPT !.calls = n, !.result = "none", !.waits = Append(do.waits, d + j)]
        BY <3>5
      <4> QED
        BY Zenon, <2>5, <3>1, <3>5, <4>1
    <3> QED
      BY Zenon, <3>2, <3>3, <3>4, <3>5
  <2> QED
    BY Zenon, <2>1, <2>7, <2>8, <2>9, <2>10
<1> QED
  BY Zenon, <1>1, <1>2

\* For any arguments, any outcomes of fn and any end of the context.
THEOREM DoBacksOff == RetrySpec => []RetryBacksOff
<1>1. RetryInv => RetryBacksOff
  BY DEF RetryInv, RetryBacksOff, Nominal, Fitting, DoTypes
<1>2. RetryInv /\ [RetryStep]_retryVars => RetryInv'
  BY RetryKeeps
<1> QED
  BY <1>1, <1>2, RetryStarts, PTL DEF RetrySpec

-----------------------------------------------------------------------------
(* The metrics registry.                                                    *)

\* f adds up the first k members of s.
SumsUp(f, s, k) == f = [i \in 0..k |-> IF i = 0 THEN 0 ELSE f[i - 1] + s[i]]

\* There is such a function for every sequence.
LEMMA SumExists ==
  ASSUME NEW s \in Seq(Int)
  PROVE  \E f : SumsUp(f, s, Len(s))
<1> DEFINE T == {k \in 0..Len(s) : ~ \E f : SumsUp(f, s, k)}
<1>1. CASE T = {}
  <2>1. Len(s) \in 0..Len(s)
    OBVIOUS
  <2> QED
    BY Zenon, <1>1, <2>1
<1>2. CASE T # {}
  <2>1. T \subseteq Nat
    OBVIOUS
  <2>2. PICK x \in T : \A y \in T : x <= y
    BY Zenon, <1>2, <2>1, Least
  <2>3. x \in 0..Len(s) /\ ~ \E f : SumsUp(f, s, x)
    BY Zenon, <2>2
  <2>4. CASE x = 0
    <3>1. SumsUp([i \in 0..0 |-> 0], s, 0)
      BY DEF SumsUp
    <3> QED
      BY Zenon, <2>3, <2>4, <3>1
  <2>5. CASE x # 0
    <3>1. x - 1 \in 0..Len(s) /\ ~ (x <= x - 1)
      BY <2>3, <2>5
    <3>2. x - 1 \notin T
      BY Zenon, <2>2, <3>1
    <3>3. PICK f : SumsUp(f, s, x - 1)
      BY Zenon, <3>1, <3>2
    <3> DEFINE g == [i \in 0..x |-> IF i = x THEN f[x - 1] + s[x] ELSE f[i]]
    <3>4. f = [i \in 0..(x - 1) |-> IF i = 0 THEN 0 ELSE f[i - 1] + s[i]]
      BY Zenon, <3>3 DEF SumsUp
    <3>5. ASSUME NEW i \in 0..x
          PROVE  g[i] = IF i = 0 THEN 0 ELSE g[i - 1] + s[i]
      BY <2>3, <2>5, <3>4
    <3>6. g = [i \in 0..x |-> g[i]]
      OBVIOUS
    <3> HIDE DEF g
    <3>7. g = [i \in 0..x |-> IF i = 0 THEN 0 ELSE g[i - 1] + s[i]]
      BY <3>5, <3>6
    <3> QED
      BY Zenon, <2>3, <3>7 DEF SumsUp
  <2> QED
    BY Zenon, <2>4, <2>5
<1> QED
  BY Zenon, <1>1, <1>2

\* SampleSum is the last value of one.
LEMMA SampleSumIs ==
  ASSUME NEW s \in Seq(Int)
  PROVE  \E f : SumsUp(f, s, Len(s)) /\ SampleSum(s) = f[Len(s)]
<1> DEFINE f == CHOOSE g : g = [i \in 0..Len(s) |-> IF i = 0 THEN 0 ELSE g[i - 1] + s[i]]
<1>1. SampleSum(s) = f[Len(s)]
  BY Zenon DEF SampleSum
<1>2. \E g : g = [i \in 0..Len(s) |-> IF i = 0 THEN 0 ELSE g[i - 1] + s[i]]
  BY Zenon, SumExists DEF SumsUp
<1>3. f = [i \in 0..Len(s) |-> IF i = 0 THEN 0 ELSE f[i - 1] + s[i]]
  BY Zenon, <1>2
<1> HIDE DEF f
<1> QED
  BY Zenon, <1>1, <1>3 DEF SumsUp

\* A sample more adds its value.
LEMMA SampleSumStep ==
  /\ SampleSum(<<>>) = 0
  /\ \A s \in Seq(Int), v \in Int : SampleSum(Append(s, v)) = SampleSum(s) + v
<1>1. SampleSum(<<>>) = 0
  <2>1. <<>> \in Seq(Int) /\ Len(<<>>) = 0
    OBVIOUS
  <2>2. PICK f : SumsUp(f, <<>>, 0) /\ SampleSum(<<>>) = f[0]
    BY Zenon, <2>1, SampleSumIs
  <2> DEFINE e == <<>>
  <2>3. f = [i \in 0..0 |-> IF i = 0 THEN 0 ELSE f[i - 1] + e[i]]
    BY Zenon, <2>2 DEF SumsUp
  <2> HIDE DEF e
  <2>4. f[0] = 0
    BY <2>3
  <2> QED
    BY Zenon, <2>2, <2>4
<1>2. ASSUME NEW s \in Seq(Int), NEW v \in Int
      PROVE  SampleSum(Append(s, v)) = SampleSum(s) + v
  <2> DEFINE n == Len(s)
             t == Append(s, v)
  <2>1. n \in Nat /\ t \in Seq(Int) /\ Len(t) = n + 1 /\ t[n + 1] = v /\ \A i \in 1..n : t[i] = s[i]
    OBVIOUS
  <2>2. PICK f : SumsUp(f, s, n) /\ SampleSum(s) = f[n]
    BY Zenon, SampleSumIs
  <2>3. PICK g : SumsUp(g, t, n + 1) /\ SampleSum(t) = g[n + 1]
    <3>1. \E h : SumsUp(h, t, Len(t)) /\ SampleSum(t) = h[Len(t)]
      BY Zenon, <2>1, SampleSumIs
    <3> QED
      BY Zenon, <2>1, <3>1
  <2> HIDE DEF n, t
  <2>4. f[0] = 0 /\ \A i \in 1..n : f[i] = f[i - 1] + s[i]
    <3>1. f = [i \in 0..n |-> IF i = 0 THEN 0 ELSE f[i - 1] + s[i]]
      BY Zenon, <2>2 DEF SumsUp
    <3> QED
      BY <2>1, <3>1
  <2>5. g[0] = 0 /\ \A i \in 1..(n + 1) : g[i] = g[i - 1] + t[i]
    <3>1. g = [i \in 0..(n + 1) |-> IF i = 0 THEN 0 ELSE g[i - 1] + t[i]]
      BY Zenon, <2>3 DEF SumsUp
    <3> QED
      BY <2>1, <3>1
  <2> DEFINE T == {i \in 0..n : f[i] # g[i]}
  <2>6. T = {}
    <3> SUFFICES ASSUME T # {}
                 PROVE  FALSE
      BY Zenon
    <3>1. T \subseteq Nat
      BY <2>1
    <3>2. PICK x \in T : \A y \in T : x <= y
      BY Zenon, <3>1, Least
    <3>3. x \in 0..n /\ f[x] # g[x]
      BY Zenon, <3>2
    <3>4. x # 0
      BY Zenon, <2>4, <2>5, <3>3
    <3>5. x - 1 \in 0..n /\ ~ (x <= x - 1) /\ x \in 1..n /\ x \in 1..(n + 1)
      BY <2>1, <3>3, <3>4
    <3>6. f[x - 1] = g[x - 1]
      BY Zenon, <3>2, <3>5
    <3> QED
      BY Zenon, <2>1, <2>4, <2>5, <3>3, <3>5, <3>6
  <2>7. f[n] = g[n]
    <3>1. n \in 0..n
      BY <2>1
    <3> QED
      BY Zenon, <2>6, <3>1
  <2>8. g[n + 1] = g[n] + t[n + 1]
    <3>1. n + 1 \in 1..(n + 1) /\ (n + 1) - 1 = n
      BY <2>1
    <3> QED
      BY Zenon, <2>5, <3>1
  <2> QED
    BY Zenon, <2>1, <2>2, <2>3, <2>7, <2>8 DEF t
<1> QED
  BY Zenon, <1>1, <1>2

-----------------------------------------------------------------------------

\* The count of bucket i, and the histogram as a whole.
CountOf(i) == IF i = Len(bounds) + 1 THEN Len(samples) ELSE Cardinality(UpTo(bounds[i]))
HistNow ==
  [type |-> "histogram", value |-> 0, buckets |-> bounds, counts |-> [i \in 1..(Len(bounds) + 1) |-> CountOf(i)],
   sum |-> SampleSum(samples), count |-> Len(samples)]

Sampled == samples \in Seq(Int) /\ bounds \in Buckets

\* 1..n has n members.
LEMMA FirstNumbers ==
  ASSUME NEW n \in Nat
  PROVE  IsFiniteSet(1..n) /\ Cardinality(1..n) = n
BY FS_Interval

\* The samples up to a bound are finitely many.
LEMMA UpToFacts ==
  ASSUME Sampled, NEW b \in Int
  PROVE  IsFiniteSet(UpTo(b)) /\ Cardinality(UpTo(b)) \in Nat /\ UpTo(b) \subseteq 1..Len(samples)
         /\ Cardinality(UpTo(b)) <= Len(samples)
<1>1. UpTo(b) \subseteq 1..Len(samples) /\ Len(samples) \in Nat
  BY DEF UpTo, Sampled
<1>2. IsFiniteSet(1..Len(samples)) /\ Cardinality(1..Len(samples)) = Len(samples)
  BY Zenon, <1>1, FirstNumbers
<1>3. IsFiniteSet(UpTo(b)) /\ Cardinality(UpTo(b)) <= Cardinality(1..Len(samples))
  BY Zenon, <1>1, <1>2, FS_Subset
<1> QED
  BY Zenon, <1>1, <1>2, <1>3, FS_CardinalityType

\* The boundaries ascend.
LEMMA BoundsType ==
  ASSUME Sampled
  PROVE  /\ bounds \in Seq(Int) /\ Len(bounds) \in Nat
         /\ \A i \in 1..Len(bounds) : bounds[i] \in Int
         /\ \A i, j \in 1..Len(bounds) : i <= j => bounds[i] <= bounds[j]
<1>1. bounds \in Seq(Int) /\ \A i, j \in DOMAIN bounds : i <= j => bounds[i] <= bounds[j]
  BY MetricsAssumption DEF Sampled
<1> QED
  BY <1>1

\* The counts do not decrease from bucket to bucket.
LEMMA CountsAscend ==
  ASSUME Sampled
  PROVE  /\ \A i \in 1..(Len(bounds) + 1) : CountOf(i) \in Nat
         /\ \A i \in 1..Len(bounds) : CountOf(i) <= CountOf(i + 1)
<1>0. samples \in Seq(Int) /\ Len(samples) \in Nat
  BY DEF Sampled
<1>1. ASSUME NEW i \in 1..(Len(bounds) + 1)
      PROVE  CountOf(i) \in Nat
  <2>1. CASE i = Len(bounds) + 1
    BY <1>0, <2>1 DEF CountOf
  <2>2. CASE i # Len(bounds) + 1
    <3>1. bounds[i] \in Int
      BY <2>2, BoundsType
    <3> QED
      BY Zenon, <2>2, <3>1, UpToFacts DEF CountOf
  <2> QED
    BY Zenon, <2>1, <2>2
<1>2. ASSUME NEW i \in 1..Len(bounds)
      PROVE  CountOf(i) <= CountOf(i + 1)
  <2>1. bounds[i] \in Int /\ i # Len(bounds) + 1
    BY BoundsType
  <2>2. CASE i = Len(bounds)
    <3>1. i + 1 = Len(bounds) + 1
      BY <2>2
    <3> QED
      BY Zenon, <2>1, <3>1, UpToFacts DEF CountOf
  <2>3. CASE i # Len(bounds)
    <3>1. i + 1 \in 1..Len(bounds) /\ i <= i + 1 /\ i + 1 # Len(bounds) + 1
      BY <2>3, BoundsType
    <3>2. bounds[i + 1] \in Int /\ bounds[i] <= bounds[i + 1]
      BY <3>1, BoundsType
    <3>3. \A k \in 1..Len(samples) : samples[k] \in Int
      BY <1>0
    <3>4. UpTo(bounds[i]) \subseteq UpTo(bounds[i + 1])
      BY <1>0, <2>1, <3>2, <3>3 DEF UpTo
    <3>5. IsFiniteSet(UpTo(bounds[i + 1]))
      BY Zenon, <3>2, UpToFacts
    <3>6. Cardinality(UpTo(bounds[i])) <= Cardinality(UpTo(bounds[i + 1]))
      BY Zenon, <3>4, <3>5, FS_Subset
    <3> QED
      BY Zenon, <2>1, <3>1, <3>6 DEF CountOf
  <2> QED
    BY Zenon, <2>2, <2>3
<1> QED
  BY Zenon, <1>1, <1>2

HistInv ==
  /\ Sampled
  /\ lines \in Seq(Nat) /\ Len(lines) <= Len(bounds) + 1 /\ moved \in BOOLEAN
  /\ (Hist \in DOMAIN metrics) <=> samples # <<>>
  /\ samples # <<>> => metrics[Hist] = HistNow
  /\ lines # <<>> => snap # <<>>
  /\ snap # <<>> => /\ samples # <<>> /\ snap[Hist].count \in Nat
                    /\ snap[Hist].count <= Len(samples)
                    /\ ~moved => snap[Hist].count = Len(samples)
  /\ \A i \in 1..Len(lines) : /\ lines[i] <= CountOf(i)
                              /\ (i = Len(bounds) + 1) => lines[i] >= snap[Hist].count
                              /\ (i = Len(bounds) + 1 /\ ~moved) => lines[i] = snap[Hist].count
                              /\ i > 1 => lines[i - 1] <= lines[i]

Counter(v) == [type |-> "counter", value |-> v, buckets |-> <<>>, counts |-> <<>>, sum |-> 0, count |-> 0]

Reads == {-1} \cup Nat

\* What an addition has read is below the number of additions; while none
\* overlapped, the one under way has read the counter as it is.
CountInv ==
  /\ added \in Nat /\ read \in [Adders -> Reads] /\ raced \in BOOLEAN
  /\ Count \in DOMAIN metrics => metrics[Count] = Counter(metrics[Count].value) /\ metrics[Count].value \in Nat
  /\ Get(metrics, Count) <= added
  /\ \A t \in Adders : read[t] # -1 => read[t] < added
  /\ ~raced => /\ \A t, u \in Adders : read[t] # -1 /\ read[u] # -1 => t = u
               /\ (\A t \in Adders : read[t] = -1) => Get(metrics, Count) = added
               /\ \A t \in Adders : read[t] # -1 => read[t] = added - 1

\* The histogram and the counter are two series.
LEMMA Series == Hist # Count
BY DEF Hist, Count

\* With sets one series and leaves the others.
LEMMA WithFacts ==
  ASSUME NEW reg, NEW new, NEW key, NEW met, new = With(reg, key, met), NEW k, k # key
  PROVE  /\ key \in DOMAIN new /\ new[key] = met
         /\ (k \in DOMAIN new) <=> (k \in DOMAIN reg)
         /\ k \in DOMAIN reg => new[k] = reg[k]
BY DEF With

\* The fields of the histogram.
LEMMA HistFields ==
  ASSUME NEW h, h = HistNow
  PROVE  /\ h.type = "histogram" /\ h.value = 0 /\ h.buckets = bounds
         /\ h.counts = [i \in 1..(Len(bounds) + 1) |-> CountOf(i)]
         /\ h.sum = SampleSum(samples) /\ h.count = Len(samples)
BY Zenon DEF HistNow

\* The value of a counter.
LEMMA CounterValue ==
  ASSUME NEW h, NEW v, h = Counter(v)
  PROVE  h.value = v
BY Zenon DEF Counter

MetricsInv == HistInv /\ CountInv

\* A new registry.
LEMMA MetricsStart == MetricsInit => MetricsInv
<1> SUFFICES ASSUME MetricsInit
             PROVE  MetricsInv
  OBVIOUS
<1>1. metrics = <<>> /\ samples = <<>> /\ bounds \in Buckets /\ snap = <<>> /\ lines = <<>> /\ moved = FALSE
      /\ read = [t \in Adders |-> -1] /\ added = 0 /\ raced = FALSE
  BY Zenon DEF MetricsInit, NewMetrics
<1>2. DOMAIN metrics = {}
  BY <1>1
<1>3. Sampled
  BY <1>1 DEF Sampled
<1>4. Len(lines) = 0 /\ lines \in Seq(Nat) /\ 0 <= Len(bounds) + 1
  BY <1>1, <1>3, BoundsType
<1>5. HistInv
  <2>1. Hist \notin DOMAIN metrics /\ \A i : i \notin 1..Len(lines)
    BY <1>2, <1>4
  <2> QED
    BY Zenon, <1>1, <1>3, <1>4, <2>1 DEF HistInv
<1>6. Get(metrics, Count) = 0
  BY <1>2 DEF Get
<1>7. read \in [Adders -> Reads] /\ \A t \in Adders : read[t] = -1
  BY <1>1 DEF Reads
<1>8. CountInv
  <2>1. added \in Nat /\ 0 <= added
    BY <1>1
  <2>2. Count \notin DOMAIN metrics /\ raced \in BOOLEAN
    BY Zenon, <1>1, <1>2
  <2> QED
    BY Zenon, <1>1, <1>6, <1>7, <2>1, <2>2 DEF CountInv
<1> QED
  BY Zenon, <1>5, <1>8 DEF MetricsInv

\* What Observe sets.
LEMMA HistSet ==
  ASSUME NEW h, NEW k, NEW c, NEW s, NEW n,
         h = [type |-> h.type, value |-> h.value, buckets |-> h.buckets, counts |-> h.counts, sum |-> h.sum, count |-> h.count],
         k = [h EXCEPT !.counts = c, !.sum = s, !.count = n]
  PROVE  k = [type |-> h.type, value |-> h.value, buckets |-> h.buckets, counts |-> c, sum |-> s, count |-> n]
BY Zenon

\* Before the first sample Observe makes the histogram of no samples.
LEMMA EmptyHist ==
  ASSUME Sampled, samples = <<>>
  PROVE  Metric("histogram", 0, bounds) = HistNow
<1>1. Len(samples) = 0 /\ \A b : UpTo(b) = {}
  BY DEF UpTo
<1>2. \A i : CountOf(i) = 0
  BY Zenon, <1>1, FS_EmptySet DEF CountOf
<1>3. Metric("histogram", 0, bounds) =
        [type |-> "histogram", value |-> 0, buckets |-> bounds,
         counts |-> [i \in 1..(Len(bounds) + 1) |-> 0], sum |-> 0, count |-> 0]
  BY Zenon DEF Metric
<1>4. [i \in 1..(Len(bounds) + 1) |-> CountOf(i)] = [i \in 1..(Len(bounds) + 1) |-> 0]
  BY Zenon, <1>2
<1>5. SampleSum(samples) = 0
  BY Zenon, SampleSumStep
<1> QED
  BY Zenon, <1>1, <1>3, <1>4, <1>5 DEF HistNow

\* One more sample.
LEMMA CountsStep ==
  ASSUME Sampled, NEW v \in Int, samples' = Append(samples, v), bounds' = bounds
  PROVE  /\ Sampled' /\ samples' # <<>> /\ Len(samples') = Len(samples) + 1
         /\ \A i \in 1..(Len(bounds) + 1) :
              CountOf(i)' = IF i = Len(bounds) + 1 \/ v <= bounds[i] THEN CountOf(i) + 1 ELSE CountOf(i)
<1>1. samples \in Seq(Int) /\ Len(samples) \in Nat /\ samples' \in Seq(Int) /\ Len(samples') = Len(samples) + 1
      /\ samples' # <<>>
  BY DEF Sampled
<1>2. Sampled'
  BY Zenon, <1>1 DEF Sampled
<1>3. ASSUME NEW i \in 1..(Len(bounds) + 1)
      PROVE  CountOf(i)' = IF i = Len(bounds) + 1 \/ v <= bounds[i] THEN CountOf(i) + 1 ELSE CountOf(i)
  <2>1. CASE i = Len(bounds) + 1
    BY Zenon, <1>1, <2>1 DEF CountOf
  <2>2. CASE i # Len(bounds) + 1
    <3> DEFINE b == bounds[i]
    <3>1. b \in Int
      BY <2>2, BoundsType
    <3>2. CountOf(i) = Cardinality(UpTo(b)) /\ CountOf(i)' = Cardinality(UpTo(b)')
      BY Zenon, <2>2 DEF CountOf, UpTo
    <3>2a. UpTo(b)' = {k \in DOMAIN samples' : samples'[k] <= b}
      BY Zenon DEF UpTo
    <3> HIDE DEF b
    <3>3. IsFiniteSet(UpTo(b)) /\ UpTo(b) \subseteq 1..Len(samples) /\ Cardinality(UpTo(b)) \in Nat
      BY Zenon, <3>1, UpToFacts
    <3>4. /\ DOMAIN samples' = 1..(Len(samples) + 1) /\ DOMAIN samples = 1..Len(samples)
          /\ samples'[Len(samples) + 1] = v
          /\ \A k \in 1..Len(samples) : samples'[k] = samples[k]
      BY <1>1
    <3>5. CASE v <= b
      <4>1. UpTo(b)' = UpTo(b) \cup {Len(samples) + 1} /\ Len(samples) + 1 \notin UpTo(b)
        BY <1>1, <3>2a, <3>3, <3>4, <3>5 DEF UpTo
      <4>2. Cardinality(UpTo(b)') = Cardinality(UpTo(b)) + 1
        BY Zenon, <3>3, <4>1, FS_AddElement
      <4> QED
        BY Zenon, <3>2, <3>5, <4>2 DEF b
    <3>6. CASE ~ (v <= b)
      <4>1. UpTo(b)' = UpTo(b)
        BY <1>1, <3>2a, <3>4, <3>6 DEF UpTo
      <4> QED
        BY Zenon, <2>2, <3>2, <3>6, <4>1 DEF b
    <3> QED
      BY Zenon, <3>5, <3>6
  <2> QED
    BY Zenon, <2>1, <2>2
<1> QED
  BY Zenon, <1>1, <1>2, <1>3

\* Observe: the histogram of one more sample; lines written before stay below
\* their counts, which only grow.
LEMMA ObserveKeeps ==
  ASSUME MetricsInv, ObserveStep
  PROVE  MetricsInv'
<1> DEFINE N == Len(bounds) + 1
<1>1. PICK v \in Values, b \in Buckets :
        (samples = <<>> => b = bounds) /\ metrics' = Observe(metrics, Hist, v, b) /\ samples' = Append(samples, v)
  BY Zenon DEF ObserveStep
<1>2. moved' = TRUE /\ UNCHANGED <<bounds, snap, lines, read, added, raced>>
  BY Zenon DEF ObserveStep
<1>3. Sampled /\ v \in Int
  BY MetricsAssumption DEF MetricsInv, HistInv
<1> DEFINE h == IF Hist \in DOMAIN metrics THEN metrics[Hist] ELSE Metric("histogram", 0, b)
<1>4. h = HistNow
  <2>1. CASE samples = <<>>
    <3>1. Hist \notin DOMAIN metrics
      BY Zenon, <2>1 DEF MetricsInv, HistInv
    <3> QED
      BY Zenon, <1>1, <1>3, <2>1, <3>1, EmptyHist
  <2>2. CASE samples # <<>>
    BY Zenon, <2>2 DEF MetricsInv, HistInv
  <2> QED
    BY Zenon, <2>1, <2>2
<1> DEFINE c == [i \in 1..Len(h.counts) |-> IF i = Len(h.counts) \/ v <= h.buckets[i] THEN h.counts[i] + 1 ELSE h.counts[i]]
           k == [h EXCEPT !.counts = c, !.sum = h.sum + v, !.count = h.count + 1]
<1>5. metrics' = With(metrics, Hist, k)
  BY Zenon, <1>1 DEF Observe
<1> HIDE DEF h
<1>6. /\ h.type = "histogram" /\ h.value = 0 /\ h.buckets = bounds /\ h.counts = [i \in 1..N |-> CountOf(i)]
      /\ h.sum = SampleSum(samples) /\ h.count = Len(samples)
  BY Zenon, <1>4, HistFields DEF N
<1>7. h = [type |-> h.type, value |-> h.value, buckets |-> h.buckets, counts |-> h.counts, sum |-> h.sum, count |-> h.count]
  BY Zenon, <1>4, <1>6 DEF HistNow
<1>8. N \in Nat /\ Len(bounds) \in Nat
  BY <1>3, BoundsType
<1> HIDE DEF N
<1>9. Len(h.counts) = N
  <2> DEFINE f == [i \in 1..N |-> CountOf(i)]
  <2>1. f \in [1..N -> {CountOf(i) : i \in 1..N}]
    BY Zenon
  <2>2. Len(f) = N
    BY <1>8, <2>1
  <2> QED
    BY Zenon, <1>6, <2>2
<1>10. Sampled' /\ samples' # <<>> /\ Len(samples') = Len(samples) + 1
       /\ \A i \in 1..N : CountOf(i)' = IF i = N \/ v <= bounds[i] THEN CountOf(i) + 1 ELSE CountOf(i)
  BY Zenon, <1>1, <1>2, <1>3, CountsStep DEF N
<1>11. c = [i \in 1..N |-> CountOf(i)']
  <2>1. c = [i \in 1..N |-> IF i = N \/ v <= bounds[i] THEN h.counts[i] + 1 ELSE h.counts[i]]
    BY Zenon, <1>6, <1>9
  <2>2. \A i \in 1..N : h.counts[i] = CountOf(i)
    BY Zenon, <1>6
  <2>3. \A i \in 1..N : (IF i = N \/ v <= bounds[i] THEN h.counts[i] + 1 ELSE h.counts[i]) = CountOf(i)'
    BY Zenon, <1>10, <2>2
  <2> QED
    BY Zenon, <2>1, <2>3
<1> HIDE DEF c
<1>11a. k = [h EXCEPT !.counts = c, !.sum = h.sum + v, !.count = h.count + 1]
  BY Zenon
<1> HIDE DEF k
<1>12. k = [type |-> h.type, value |-> h.value, buckets |-> h.buckets, counts |-> c, sum |-> h.sum + v, count |-> h.count + 1]
  BY Zenon, <1>7, <1>11a, HistSet
<1>13. SampleSum(samples') = SampleSum(samples) + v
  BY Zenon, <1>1, <1>3, SampleSumStep DEF Sampled
<1>14. k = HistNow'
  BY Zenon, <1>2, <1>6, <1>10, <1>11, <1>12, <1>13 DEF HistNow, N
<1>15. /\ Hist \in DOMAIN metrics' /\ metrics'[Hist] = HistNow'
       /\ (Count \in DOMAIN metrics') <=> (Count \in DOMAIN metrics)
       /\ Count \in DOMAIN metrics => metrics'[Count] = metrics[Count]
  BY <1>5, <1>14, WithFacts, Series
<1>16. Get(metrics, Count)' = Get(metrics, Count)
  BY Zenon, <1>15 DEF Get
<1>17. CountInv'
  BY Zenon, <1>2, <1>15, <1>16 DEF MetricsInv, CountInv
<1>18. \A i \in 1..N : CountOf(i) \in Nat /\ CountOf(i)' \in Nat /\ CountOf(i) <= CountOf(i)'
  <2>1. \A i \in 1..N : CountOf(i) \in Nat
    BY Zenon, <1>3, CountsAscend DEF N
  <2>2. ASSUME NEW i \in 1..N
        PROVE  CountOf(i) \in Nat /\ CountOf(i)' \in Nat /\ CountOf(i) <= CountOf(i)'
    <3>1. CountOf(i) \in Nat /\ (CountOf(i)' = CountOf(i) + 1 \/ CountOf(i)' = CountOf(i))
      BY Zenon, <1>10, <2>1
    <3> HIDE DEF CountOf
    <3> QED
      BY <3>1
  <2> QED
    BY Zenon, <2>2
<1>19. HistInv'
  <2>1. lines \in Seq(Nat) /\ Len(lines) \in Nat /\ Len(lines) <= N
    BY DEF MetricsInv, HistInv, N
  <2>2. snap # <<>> => snap[Hist].count \in Nat /\ snap[Hist].count <= Len(samples')
    <3>1. Len(samples) \in Nat
      BY <1>3 DEF Sampled
    <3>2. snap # <<>> => snap[Hist].count \in Nat /\ snap[Hist].count <= Len(samples)
      BY Zenon DEF MetricsInv, HistInv
    <3> QED
      BY <1>10, <3>1, <3>2
  <2>3. ASSUME NEW i \in 1..Len(lines)
        PROVE  /\ lines[i] <= CountOf(i)'
               /\ (i = N) => lines[i] >= snap[Hist].count
               /\ i > 1 => lines[i - 1] <= lines[i]
    <3>1. lines[i] \in Nat /\ i \in 1..N
      BY <1>8, <2>1
    <3>2. /\ lines[i] <= CountOf(i)
          /\ (i = N) => lines[i] >= snap[Hist].count
          /\ i > 1 => lines[i - 1] <= lines[i]
      BY Zenon DEF MetricsInv, HistInv, N
    <3>3. CountOf(i) \in Nat /\ CountOf(i)' \in Nat /\ CountOf(i) <= CountOf(i)'
      BY Zenon, <1>18, <3>1
    <3>4. lines[i] <= CountOf(i)'
      BY <3>1, <3>2, <3>3
    <3> QED
      BY Zenon, <3>2, <3>4
  <2>4. lines # <<>> => snap # <<>>
    BY Zenon DEF MetricsInv, HistInv
  <2>5. moved' \in BOOLEAN /\ moved'
    BY Zenon, <1>2
  <2> QED
    BY ZenonT(60), <1>2, <1>10, <1>15, <2>1, <2>2, <2>3, <2>4, <2>5 DEF HistInv, N
<1> QED
  BY Zenon, <1>17, <1>19 DEF MetricsInv

\* A step that leaves the histogram and the exposition alone.
LEMMA HistFrame ==
  ASSUME HistInv, UNCHANGED <<samples, bounds, snap, lines, moved>>,
         (Hist \in DOMAIN metrics') <=> (Hist \in DOMAIN metrics),
         Hist \in DOMAIN metrics => metrics'[Hist] = metrics[Hist]
  PROVE  HistInv'
<1>1. HistNow' = HistNow /\ Sampled' /\ \A i : CountOf(i)' = CountOf(i)
  BY Zenon DEF HistNow, CountOf, UpTo, HistInv, Sampled
<1> QED
  BY Zenon, <1>1 DEF HistInv

\* A step that leaves the counter and the additions alone.
LEMMA CountFrame ==
  ASSUME CountInv, UNCHANGED <<metrics, read, added, raced>>
  PROVE  CountInv'
BY Zenon DEF CountInv, Get

\* Snapshot copies the number of samples.
LEMMA SnapshotKeeps ==
  ASSUME MetricsInv, SnapshotStep
  PROVE  MetricsInv'
<1>1. /\ samples # <<>> /\ snap = <<>> /\ snap' = Snapshot(metrics) /\ moved' = FALSE
      /\ UNCHANGED <<metrics, samples, bounds, lines, read, added, raced>>
  BY Zenon DEF SnapshotStep
<1>2. HistNow' = HistNow /\ Sampled' /\ Sampled /\ metrics[Hist] = HistNow /\ Hist \in DOMAIN metrics /\ lines = <<>>
  BY Zenon, <1>1 DEF HistNow, CountOf, UpTo, MetricsInv, HistInv, Sampled
<1>3. snap'[Hist].count = Len(samples) /\ Len(samples) \in Nat
  <2>1. snap'[Hist] = [type |-> metrics[Hist].type, value |-> metrics[Hist].value,
                       sum |-> metrics[Hist].sum, count |-> metrics[Hist].count]
    BY <1>1, <1>2 DEF Snapshot
  <2>2. metrics[Hist].count = Len(samples)
    BY Zenon, <1>2, HistFields
  <2>3. Len(samples) \in Nat
    BY <1>2 DEF Sampled
  <2> QED
    BY <2>1, <2>2, <2>3
<1>4. Len(lines) = 0 /\ lines \in Seq(Nat) /\ Len(lines) <= Len(bounds) + 1 /\ \A i : i \notin 1..Len(lines)
  BY <1>2, BoundsType
<1>5. Len(samples) <= Len(samples)
  BY <1>3
<1>6. HistInv'
  BY Zenon, <1>1, <1>2, <1>3, <1>4, <1>5 DEF HistInv, MetricsInv
<1> QED
  BY Zenon, <1>1, <1>6, CountFrame DEF MetricsInv

\* A line is the count of its bucket now, which is at least that of the bucket
\* before, and that at least its line.
LEMMA LineKeeps ==
  ASSUME MetricsInv, LineStep
  PROVE  MetricsInv'
<1> DEFINE N == Len(bounds) + 1
           L == Len(lines)
           w == CountOf(L + 1)
<1>1. /\ snap # <<>> /\ L <= Len(bounds) /\ lines' = Append(lines, BucketLine(metrics, Hist, L + 1))
      /\ UNCHANGED <<metrics, samples, bounds, snap, moved, read, added, raced>>
  BY Zenon DEF LineStep
<1>2. /\ Sampled /\ Sampled' /\ samples # <<>> /\ metrics[Hist] = HistNow /\ HistNow' = HistNow
      /\ \A i : CountOf(i)' = CountOf(i)
      /\ snap[Hist].count \in Nat /\ snap[Hist].count <= Len(samples)
      /\ ~moved => snap[Hist].count = Len(samples)
  BY Zenon, <1>1 DEF HistNow, CountOf, UpTo, MetricsInv, HistInv, Sampled
<1>3. lines \in Seq(Nat) /\ L \in Nat /\ Len(bounds) \in Nat /\ N \in Nat /\ L + 1 \in 1..N
  BY <1>1, <1>2, BoundsType DEF MetricsInv, HistInv
<1>4. metrics[Hist].counts[L + 1] = w /\ w \in Nat
  <2>1. metrics[Hist].counts = [i \in 1..N |-> CountOf(i)]
    BY Zenon, <1>2, HistFields
  <2> QED
    BY Zenon, <1>2, <1>3, <2>1, CountsAscend
<1>5. lines' = Append(lines, w)
  BY Zenon, <1>1, <1>4 DEF BucketLine
<1>6. L + 1 = N => w = Len(samples)
  BY Zenon DEF CountOf
<1>7. \A i \in 1..L : /\ lines[i] <= CountOf(i)
                      /\ (i = N) => lines[i] >= snap[Hist].count
                      /\ (i = N /\ ~moved) => lines[i] = snap[Hist].count
                      /\ i > 1 => lines[i - 1] <= lines[i]
  BY Zenon DEF MetricsInv, HistInv
<1>8. L > 0 => lines[L] <= w
  <2> SUFFICES ASSUME L > 0
               PROVE  lines[L] <= w
    OBVIOUS
  <2>1. L \in 1..L /\ L \in 1..Len(bounds) /\ L \in 1..N /\ lines[L] \in Nat
    BY <1>1, <1>3
  <2>2. lines[L] <= CountOf(L) /\ CountOf(L) <= w /\ CountOf(L) \in Nat
    BY Zenon, <1>2, <1>7, <2>1, CountsAscend
  <2> DEFINE u == CountOf(L)
             x == lines[L]
  <2>3. x \in Nat /\ u \in Nat /\ w \in Nat /\ x <= u /\ u <= w
    BY Zenon, <1>4, <2>1, <2>2
  <2> HIDE DEF u, x, w
  <2>4. x <= w
    BY <2>3
  <2> QED
    BY Zenon, <2>4 DEF x
<1> HIDE DEF w
<1>9. /\ lines' \in Seq(Nat) /\ Len(lines') = L + 1 /\ lines'[L + 1] = w
      /\ \A i \in 1..L : lines'[i] = lines[i]
  BY <1>3, <1>4, <1>5
<1>10. lines' # <<>> /\ Len(lines') <= N
  BY <1>3, <1>9
<1> HIDE DEF L, N
<1>11. ASSUME NEW i \in 1..(L + 1)
       PROVE  /\ lines'[i] <= CountOf(i)
              /\ (i = N) => lines'[i] >= snap[Hist].count
              /\ (i = N /\ ~moved) => lines'[i] = snap[Hist].count
              /\ i > 1 => lines'[i - 1] <= lines'[i]
  <2>1. CASE i \in 1..L
    <3>1. i > 1 => i - 1 \in 1..L
      BY <1>3, <2>1
    <3> QED
      BY Zenon, <1>7, <1>9, <2>1, <3>1
  <2>2. CASE i = L + 1
    <3>1. lines'[i] = w /\ CountOf(i) = w
      BY Zenon, <1>9, <2>2 DEF w
    <3>2. w <= w
      BY SMTT(60), <1>4
    <3>3. i = N => w >= snap[Hist].count
      <4>1. i = N => w = Len(samples)
        BY Zenon, <1>6, <2>2
      <4> QED
        BY <1>2, <1>4, <4>1
    <3>4. (i = N /\ ~moved) => w = snap[Hist].count
      BY Zenon, <1>2, <1>6, <2>2
    <3>5. i > 1 => L > 0 /\ i - 1 = L /\ L \in 1..L
      BY <1>3, <2>2
    <3>6. i > 1 => lines'[i - 1] <= w
      BY Zenon, <1>8, <1>9, <3>5
    <3> QED
      BY Zenon, <3>1, <3>2, <3>3, <3>4, <3>6
  <2> QED
    BY <1>3, <2>1, <2>2
<1>12. HistInv'
  <2>1. (Hist \in DOMAIN metrics) /\ moved \in BOOLEAN
    BY Zenon, <1>2 DEF MetricsInv, HistInv
  <2> QED
    BY Zenon, <1>1, <1>2, <1>9, <1>10, <1>11, <2>1 DEF HistInv, N
<1> QED
  BY Zenon, <1>1, <1>12, CountFrame DEF MetricsInv

\* The Get of Add: it reads the counter, and races with any addition under way.
LEMMA AddGetKeeps ==
  ASSUME MetricsInv, NEW t \in Adders, AddGet(t)
  PROVE  MetricsInv'
<1> DEFINE g == Get(metrics, Count)
<1>1. /\ read[t] = -1 /\ read' = [read EXCEPT ![t] = g] /\ added' = added + 1
      /\ raced' = (raced \/ \E u \in Adders : read[u] # -1)
      /\ UNCHANGED <<metrics, samples, bounds, snap, lines, moved>>
  BY Zenon DEF AddGet
<1>2. /\ added \in Nat /\ read \in [Adders -> Reads] /\ g <= added
      /\ \A u \in Adders : read[u] # -1 => read[u] < added
      /\ (~raced /\ \A u \in Adders : read[u] = -1) => g = added
  BY Zenon DEF MetricsInv, CountInv
<1>3. g \in Nat
  BY DEF MetricsInv, CountInv, Get
<1> HIDE DEF g
<1>4. added' \in Nat /\ g <= added' /\ g < added' /\ g # -1 /\ g \in Reads /\ \A x \in Nat : x < added => x < added'
  BY <1>1, <1>2, <1>3 DEF Reads
<1>5. read' \in [Adders -> Reads] /\ read'[t] = g /\ \A u \in Adders : u # t => read'[u] = read[u]
  BY Zenon, <1>1, <1>2, <1>4
<1>6. raced' \in BOOLEAN /\ (~raced' => ~raced /\ \A u \in Adders : read[u] = -1)
  BY Zenon, <1>1
<1>7. ASSUME NEW u \in Adders, read'[u] # -1
      PROVE  read'[u] < added'
  <2>1. CASE u = t
    BY Zenon, <1>4, <1>5, <2>1
  <2>2. CASE u # t
    <3>1. read[u] \in Reads /\ read[u] # -1
      BY Zenon, <1>2, <1>5, <1>7, <2>2
    <3>2. read[u] \in Nat /\ read[u] < added
      BY Zenon, <1>2, <3>1 DEF Reads
    <3> QED
      BY Zenon, <1>4, <1>5, <2>2, <3>2
  <2> QED
    BY Zenon, <2>1, <2>2
<1>8. ASSUME ~raced'
      PROVE  /\ \A u, x \in Adders : read'[u] # -1 /\ read'[x] # -1 => u = x
             /\ ~ \A u \in Adders : read'[u] = -1
             /\ \A u \in Adders : read'[u] # -1 => read'[u] = added' - 1
  <2>1. \A u \in Adders : read'[u] # -1 => u = t
    BY Zenon, <1>5, <1>6, <1>8
  <2>2. g = added
    BY Zenon, <1>2, <1>6, <1>8
  <2>3. g = added' - 1
    BY <1>1, <1>2, <2>2
  <2> QED
    BY Zenon, <1>4, <1>5, <2>1, <2>3
<1>9. Get(metrics, Count)' = g
  BY Zenon, <1>1 DEF Get, g
<1>10. Count \in DOMAIN metrics => metrics[Count] = Counter(metrics[Count].value) /\ metrics[Count].value \in Nat
  BY Zenon DEF MetricsInv, CountInv
<1>11. CountInv'
  BY Zenon, <1>1, <1>4, <1>5, <1>6, <1>7, <1>8, <1>9, <1>10 DEF CountInv
<1> QED
  BY Zenon, <1>1, <1>11, HistFrame DEF MetricsInv

\* What Set does to a counter.
LEMMA CounterSet ==
  ASSUME NEW h, NEW k, NEW v, h = Counter(h.value), k = [h EXCEPT !.value = v]
  PROVE  k = Counter(v)
BY DEF Counter

\* The Set of Add: without a race nobody else is adding.
LEMMA AddSetKeeps ==
  ASSUME MetricsInv, NEW t \in Adders, AddSet(t)
  PROVE  MetricsInv'
<1> DEFINE v == read[t] + 1
           met == IF Count \in DOMAIN metrics THEN [metrics[Count] EXCEPT !.value = v] ELSE Metric("counter", v, <<>>)
<1>1. /\ read[t] # -1 /\ metrics' = With(metrics, Count, met) /\ read' = [read EXCEPT ![t] = -1]
      /\ UNCHANGED <<samples, bounds, snap, lines, moved, added, raced>>
  BY Zenon DEF AddSet, SetMetric
<1>2. /\ added \in Nat /\ read \in [Adders -> Reads] /\ raced \in BOOLEAN
      /\ \A u \in Adders : read[u] # -1 => read[u] < added
      /\ ~raced => /\ \A x, u \in Adders : read[x] # -1 /\ read[u] # -1 => x = u
                   /\ \A u \in Adders : read[u] # -1 => read[u] = added - 1
  BY Zenon DEF MetricsInv, CountInv
<1>3. read[t] \in Nat /\ read[t] < added
  BY Zenon, <1>1, <1>2 DEF Reads
<1>4. v \in Nat /\ v <= added
  BY <1>2, <1>3
<1>5. met = Counter(v)
  <2>1. CASE Count \in DOMAIN metrics
    <3>1. metrics[Count] = Counter(metrics[Count].value)
      BY Zenon, <2>1 DEF MetricsInv, CountInv
    <3>2. met = [metrics[Count] EXCEPT !.value = v]
      BY Zenon, <2>1
    <3> HIDE DEF met
    <3> QED
      BY <3>1, <3>2, CounterSet
  <2>2. CASE Count \notin DOMAIN metrics
    <3>1. "counter" # "histogram"
      OBVIOUS
    <3> QED
      BY Zenon, <2>2, <3>1 DEF Metric, Counter
  <2> QED
    BY Zenon, <2>1, <2>2
<1> HIDE DEF met
<1>5a. metrics' = With(metrics, Count, met)
  BY Zenon, <1>1
<1>6. Count \in DOMAIN metrics' /\ metrics'[Count] = Counter(v)
  BY <1>5, <1>5a, WithFacts, Series
<1>7. /\ (Hist \in DOMAIN metrics') <=> (Hist \in DOMAIN metrics)
      /\ Hist \in DOMAIN metrics => metrics'[Hist] = metrics[Hist]
  BY <1>5a, WithFacts, Series
<1>8. metrics'[Count].value = v
  BY Zenon, <1>6, CounterValue
<1>9. Get(metrics, Count)' = v
  BY Zenon, <1>6, <1>8 DEF Get
<1>10. -1 \in Reads
  BY DEF Reads
<1>11. read' \in [Adders -> Reads] /\ read'[t] = -1 /\ \A u \in Adders : u # t => read'[u] = read[u]
  BY Zenon, <1>1, <1>2, <1>10
<1>12. ASSUME ~raced
       PROVE  v = added /\ \A u \in Adders : read'[u] = -1
  <2>1. read[t] = added - 1
    BY Zenon, <1>1, <1>2, <1>12
  <2>2. v = added
    BY <1>2, <1>3, <2>1
  <2> QED
    BY Zenon, <1>1, <1>2, <1>11, <1>12, <2>2
<1>13. \A u \in Adders : read'[u] # -1 => read'[u] < added
  BY Zenon, <1>2, <1>11
<1> HIDE DEF v
<1>14. CountInv'
  BY Zenon, <1>1, <1>2, <1>4, <1>6, <1>8, <1>9, <1>11, <1>12, <1>13 DEF CountInv
<1>15. HistInv'
  BY Zenon, <1>1, <1>7, HistFrame DEF MetricsInv
<1> QED
  BY Zenon, <1>14, <1>15 DEF MetricsInv

\* Every step of the registry.
LEMMA MetricsKeeps ==
  ASSUME MetricsInv, [HistogramNext \/ CounterNext]_metricsVars
  PROVE  MetricsInv'
<1>1. CASE UNCHANGED metricsVars
  <2>1. UNCHANGED <<samples, bounds, snap, lines, moved>> /\ UNCHANGED <<metrics, read, added, raced>>
    BY Zenon, <1>1 DEF metricsVars
  <2> QED
    BY Zenon, <2>1, HistFrame, CountFrame DEF MetricsInv
<1> QED
  BY Zenon, <1>1, ObserveKeeps, SnapshotKeeps, LineKeeps, AddGetKeeps, AddSetKeeps DEF HistogramNext, CounterNext

\* For any boundaries, samples and goroutines: a histogram counts its samples,
\* an exposition that races with Observe does not decrease from bucket to
\* bucket, and a counter misses an addition only when two overlapped.
THEOREM MetricsCounted == MetricsSpec => []SamplesCounted
<1>1. MetricsInv => SamplesCounted
  <2> SUFFICES ASSUME MetricsInv
               PROVE  SamplesCounted
    OBVIOUS
  <2> DEFINE N == Len(bounds) + 1
  <2>1. /\ Get(metrics, Count) <= added
        /\ (~raced /\ \A t \in Adders : read[t] = -1) => Get(metrics, Count) = added
    BY Zenon DEF MetricsInv, CountInv
  <2>2. ASSUME samples # <<>>
        PROVE  /\ metrics[Hist].counts = [i \in 1..N |-> IF i = N THEN Len(samples) ELSE Cardinality(UpTo(bounds[i]))]
               /\ metrics[Hist].count = Len(samples) /\ metrics[Hist].sum = SampleSum(samples)
    <3>1. metrics[Hist] = HistNow
      BY ZenonT(60), <2>2 DEF MetricsInv, HistInv
    <3> QED
      BY Zenon, <3>1, HistFields DEF CountOf
  <2>3. lines \in Seq(Nat) /\ Len(lines) \in Nat /\ Sampled
    BY DEF MetricsInv, HistInv
  <2>4. \A i \in 1..Len(lines) : /\ (i = N) => lines[i] >= snap[Hist].count
                                 /\ (i = N /\ ~moved) => lines[i] = snap[Hist].count
                                 /\ i > 1 => lines[i - 1] <= lines[i]
    BY Zenon DEF MetricsInv, HistInv
  <2>5. \A i \in 2..Len(lines) : i \in 1..Len(lines) /\ i > 1
    BY <2>3
  <2>6. Len(lines) = N => N \in 1..Len(lines)
    BY <2>3, BoundsType
  <2> QED
    BY Zenon, <2>1, <2>2, <2>4, <2>5, <2>6 DEF SamplesCounted
<1>2. MetricsInv /\ [HistogramNext \/ CounterNext]_metricsVars => MetricsInv'
  BY MetricsKeeps
<1> QED
  BY <1>1, <1>2, MetricsStart, PTL DEF MetricsSpec

-----------------------------------------------------------------------------
(* A chat request.                                                          *)

\* A function on 1..n is a sequence of length n.
LEMMA RowIsSeq ==
  ASSUME NEW S, NEW n \in Nat, NEW f \in [1..n -> S]
  PROVE  f \in Seq(S) /\ Len(f) = n
OBVIOUS

\* Two sequences joined.
LEMMA Joined ==
  ASSUME NEW S, NEW s \in Seq(S), NEW r \in Seq(S)
  PROVE  /\ s \o r \in Seq(S) /\ Len(s \o r) = Len(s) + Len(r)
         /\ \A i \in 1..Len(s) : (s \o r)[i] = s[i]
         /\ \A i \in (Len(s) + 1)..(Len(s) + Len(r)) : (s \o r)[i] = r[i - Len(s)]
OBVIOUS

\* The generator yields at least one word.
LEMMA UpToStopFacts ==
  ASSUME NEW most \in Nat, NEW words \in [1..most -> Words], NEW max \in 1..most
  PROVE  UpToStop(words, max) \in Seq(Words) /\ Len(UpToStop(words, max)) \in Nat \ {0}
<1> DEFINE stops == {i \in 1..max : ShouldStop(words[i])}
           n     == IF stops = {} THEN max ELSE CHOOSE i \in stops : \A j \in stops : i <= j
<1>1. n \in 1..max
  <2>1. CASE stops = {}
    BY <2>1
  <2>2. CASE stops # {}
    <3>1. stops \subseteq Nat
      OBVIOUS
    <3>2. \E i \in stops : \A j \in stops : i <= j
      BY Zenon, <2>2, <3>1, Least
    <3>3. n \in stops
      BY Zenon, <2>2, <3>2
    <3> QED
      BY Zenon, <3>3
  <2> QED
    BY Zenon, <2>1, <2>2
<1>2. UpToStop(words, max) = [i \in 1..n |-> words[i]]
  BY Zenon DEF UpToStop
<1> HIDE DEF n
<1>3. UpToStop(words, max) \in [1..n -> Words] /\ n \in Nat \ {0}
  BY <1>1, <1>2
<1> QED
  BY <1>3, RowIsSeq

\* A request that reaches the engine.
IsServed(r) == r \in Requests /\ r.messages # <<>>
DrawsType(d) == d \in [Prompted -> [1..MostTokens -> Words]]

\* What the engine streams for it.
LEMMA StreamedFacts ==
  ASSUME NEW d, DrawsType(d), NEW r, IsServed(r)
  PROVE  LET s == UpToStop(d[StreamPrompt(r.messages)], MaxTokens(r.max))
         IN s \in Seq(Words) /\ Len(s) \in Nat \ {0}
<1> DEFINE p == StreamPrompt(r.messages)
           m == MaxTokens(r.max)
<1>1. m \in 1..MostTokens /\ MostTokens \in Nat
  BY ChatAssumption DEF MaxTokens, IsServed
<1>2. p \in Prompted
  BY DEF Prompted, IsServed
<1> HIDE DEF p, m
<1>3. d[p] \in [1..MostTokens -> Words]
  BY Zenon, <1>2 DEF DrawsType
<1>4. UpToStop(d[p], m) \in Seq(Words) /\ Len(UpToStop(d[p], m)) \in Nat \ {0}
  BY ZenonT(60), <1>1, <1>3, UpToStopFacts
<1> QED
  BY Zenon, <1>4 DEF p, m

\* What is written, in hand and in the channel is what was sent, in order; how
\* the goroutine and the handler end.
Flow(S) ==
  /\ ctx \in {"live", "gone", "done"}
  /\ prod.pc \in {"check", "send", "exited"} /\ cons \in {"recv", "test", "200", "gone"}
  /\ prod = [pc |-> prod.pc, sent |-> prod.sent] /\ prod.sent \in 0..Len(S)
  /\ ch = [buf |-> ch.buf, closed |-> ch.closed] /\ ch.buf \in Seq(Words)
  /\ ch.closed \in BOOLEAN /\ (ch.closed <=> prod.pc = "exited")
  /\ out = [hand |-> out.hand, tokens |-> out.tokens, done |-> out.done]
  /\ out.hand \in Seq(Words) /\ out.tokens \in Seq(Words) /\ out.done \in BOOLEAN
  /\ prod.pc # "exited" => prod.sent < Len(S) /\ ctx # "done"
  /\ prod.pc = "exited" => prod.sent = Len(S) \/ ctx = "gone"
  /\ cons \in {"recv", "200"} => out.hand = <<>>
  /\ out.done => cons = "200" /\ ch.buf = <<>> /\ prod.pc = "exited"
  /\ Len(out.tokens) + Len(out.hand) + Len(ch.buf) = prod.sent
  /\ \A i \in 1..Len(out.tokens) : out.tokens[i] = S[i]
  /\ \A i \in 1..Len(out.hand) : out.hand[i] = S[Len(out.tokens) + i]
  /\ \A i \in 1..Len(ch.buf) : ch.buf[i] = S[Len(out.tokens) + Len(out.hand) + i]

ChatInv ==
  /\ DrawsType(draws)
  /\ cons = "start" =>
       /\ prod.pc = "none" /\ ctx = "live"
       /\ ch = [buf |-> <<>>, closed |-> FALSE]
       /\ out = [hand |-> <<>>, tokens |-> <<>>, done |-> FALSE]
  /\ prod.pc # "none" => IsServed(req) /\ Flow(Streamed)

\* Before the request nothing is sent.
LEMMA ChatInvInit == ChatInit => ChatInv
BY DEF ChatInit, NewTinyEngine, ChatInv, DrawsType

\* What the engine streams is fixed by the request and the generator.
LEMMA StreamedStays ==
  ASSUME UNCHANGED <<draws, req>>
  PROVE  Streamed' = Streamed
BY DEF Streamed, Tokens

\* And is the generator cut at a word that stops.
LEMMA StreamedIs == Streamed = UpToStop(draws[StreamPrompt(req.messages)], MaxTokens(req.max))
BY DEF Streamed, Tokens

\* What a step after handleChat has to show.
LEMMA ChatKeeps ==
  ASSUME ChatInv, UNCHANGED <<draws, req>>, cons' # "start",
         prod'.pc # "none" => prod.pc # "none",
         prod.pc # "none" => Flow(Streamed)'
  PROVE  ChatInv'
BY Zenon DEF ChatInv, IsServed

\* Every step of goroutine, handler and client.
LEMMA ChatStep ==
  ASSUME ChatInv, [ChatNext]_chatVars
  PROVE  ChatInv'
<1> DEFINE S == Streamed
<1>0. prod.pc # "none" => S \in Seq(Words) /\ Len(S) \in Nat \ {0} /\ Flow(S)
  BY ZenonT(60), StreamedFacts, StreamedIs DEF ChatInv
<1>1. ASSUME NEW r \in Requests, HandleChat(r)
      PROVE  ChatInv'
  <2>1. cons = "start" /\ req' = r /\ UNCHANGED <<models, engines, draws, ch, out>>
    BY Zenon, <1>1 DEF HandleChat
  <2>2. /\ prod.pc = "none" /\ ctx = "live"
        /\ ch = [buf |-> <<>>, closed |-> FALSE]
        /\ out = [hand |-> <<>>, tokens |-> <<>>, done |-> FALSE]
    BY ZenonT(60), <2>1 DEF ChatInv
  <2>3. CASE cons' \in {"400", "chat"} /\ prod' = prod
    BY <2>1, <2>2, <2>3 DEF ChatInv
  <2>4. CASE cons' = "recv" /\ prod' = [pc |-> "check", sent |-> 0] /\ ctx' = ctx /\ r.messages # <<>>
    <3>1. IsServed(r) /\ DrawsType(draws')
      BY Zenon, <2>1, <2>4 DEF IsServed, ChatInv
    <3> DEFINE Q == UpToStop(draws'[StreamPrompt(r.messages)], MaxTokens(r.max))
    <3>2. Q \in Seq(Words) /\ Len(Q) \in Nat \ {0}
      BY Zenon, <3>1, StreamedFacts
    <3>3. Streamed' = Q
      BY Zenon, <2>1 DEF Streamed, Tokens
    <3>4. Streamed' \in Seq(Words) /\ Len(Streamed') \in Nat \ {0}
      BY ZenonT(60), <3>2, <3>3
    <3> HIDE DEF Q
    <3>5. Flow(Streamed)'
      BY <2>1, <2>2, <2>4, <3>4 DEF Flow
    <3> QED
      BY Zenon, <2>1, <2>4, <3>1, <3>5 DEF ChatInv
  <2> QED
    BY Zenon, <1>1, <2>3, <2>4 DEF HandleChat
<1>2. ASSUME UNCHANGED <<draws, req, prod, ch, cons, out, ctx>>
      PROVE  ChatInv'
  <2>1. Streamed' = Streamed
    BY Zenon, <1>2, StreamedStays
  <2> QED
    BY Zenon, <1>2, <2>1 DEF ChatInv, Flow
<1>3. CASE Cancel
  <2>1. ctx = "live" /\ ctx' = "gone" /\ cons' # "start" /\ UNCHANGED <<draws, req, prod, ch, cons, out>>
    BY Zenon, <1>3 DEF Cancel
  <2>2. Streamed' = Streamed
    BY Zenon, <2>1, StreamedStays
  <2>3. prod.pc # "none" => Flow(Streamed)'
    BY Zenon, <1>0, <2>1, <2>2 DEF Flow
  <2> QED
    BY Zenon, <2>1, <2>3, ChatKeeps
<1>4. ASSUME Exit, prod.pc \in {"check", "send"}, ctx # "live", cons # "start",
             UNCHANGED <<draws, req, ctx, cons, out>>
      PROVE  ChatInv'
  <2>1. Streamed' = Streamed
    BY Zenon, <1>4, StreamedStays
  <2>2. Len(S) \in Nat /\ Flow(S)
    BY ZenonT(60), <1>0, <1>4
  <2>3. ctx = "gone"
    BY <1>4, <2>2 DEF Flow
  <2>4. prod'.pc = "exited" /\ prod'.sent = prod.sent /\ prod' = [pc |-> prod'.pc, sent |-> prod'.sent]
        /\ ch'.buf = ch.buf /\ ch'.closed = TRUE /\ ch' = [buf |-> ch'.buf, closed |-> ch'.closed]
    BY Zenon, <1>4, <2>2 DEF Exit, Flow
  <2>5. Flow(Streamed)'
    BY ZenonT(60), <1>4, <2>1, <2>2, <2>3, <2>4 DEF Flow
  <2> QED
    BY <1>4, <2>4, <2>5, ChatKeeps
<1>5. ASSUME prod.pc \in {"check", "send"}
      PROVE  cons # "start"
  BY <1>5 DEF ChatInv
<1>6. CASE Check
  <2>1. prod.pc = "check" /\ UNCHANGED <<draws, req, ctx, cons, out>>
    BY Zenon, <1>6 DEF Check
  <2>2. CASE ctx # "live" /\ Exit
    BY <1>4, <1>5, <2>1, <2>2
  <2>3. CASE prod' = [prod EXCEPT !.pc = "send"] /\ UNCHANGED ch
    <3>1. Streamed' = Streamed
      BY Zenon, <2>1, StreamedStays
    <3>2. Len(S) \in Nat /\ Flow(S)
      BY <1>0, <2>1
    <3>3. prod'.pc = "send" /\ prod'.sent = prod.sent /\ prod' = [pc |-> prod'.pc, sent |-> prod'.sent]
      BY <2>3, <3>2 DEF Flow
    <3>4. Flow(Streamed)'
      BY <2>1, <2>3, <3>1, <3>2, <3>3 DEF Flow
    <3> QED
      BY <1>5, <2>1, <3>3, <3>4, ChatKeeps
  <2> QED
    BY Zenon, <1>6, <2>2, <2>3 DEF Check
<1>7. CASE Send
  <2>1. prod.pc = "send" /\ UNCHANGED <<draws, req, ctx, cons, out>>
    BY Zenon, <1>7 DEF Send
  <2>2. CASE ctx # "live" /\ Exit
    BY SMTT(60), <1>4, <1>5, <2>1, <2>2
  <2> DEFINE n == prod.sent + 1
  <2>3. CASE /\ prod' = [pc |-> IF n = Len(S) THEN "exited" ELSE "check", sent |-> n]
             /\ ch' = [buf |-> Append(ch.buf, S[n]), closed |-> n = Len(S)]
    <3>1. Streamed' = S
      BY Zenon, <2>1, StreamedStays
    <3>2. S \in Seq(Words) /\ Len(S) \in Nat /\ Flow(S)
      BY SMTT(60), <1>0, <2>1
    <3> HIDE DEF S
    <3>3. n \in 1..Len(S) /\ S[n] \in Words /\ ch.buf \in Seq(Words)
      BY <2>1, <3>2 DEF Flow
    <3>4. prod'.pc \in {"exited", "check"} /\ prod'.sent = n /\ prod' = [pc |-> prod'.pc, sent |-> prod'.sent]
          /\ (prod'.pc = "exited" <=> n = Len(S))
          /\ ch'.buf = Append(ch.buf, S[n]) /\ ch'.closed = (n = Len(S))
          /\ ch' = [buf |-> ch'.buf, closed |-> ch'.closed]
      BY <2>3
    <3>5. ch'.buf \in Seq(Words) /\ Len(ch'.buf) = Len(ch.buf) + 1 /\ ch'.buf[Len(ch.buf) + 1] = S[n]
          /\ \A i \in 1..Len(ch.buf) : ch'.buf[i] = ch.buf[i]
      BY SMTT(60), <3>3, <3>4
    <3>6. Len(out.tokens) \in Nat /\ Len(out.hand) \in Nat /\ Len(ch.buf) \in Nat
          /\ Len(out.tokens) + Len(out.hand) + Len(ch.buf) = prod.sent
          /\ \A i \in 1..Len(ch.buf) : ch.buf[i] = S[Len(out.tokens) + Len(out.hand) + i]
      BY <3>2 DEF Flow
    <3> DEFINE a == Len(out.tokens) + Len(out.hand)
               b == Len(ch.buf)
    <3>6a. a \in Nat /\ b \in Nat /\ n = a + (b + 1)
      <4>0. \A p, q \in Nat : p + q \in Nat
        OBVIOUS
      <4>1. a \in Nat /\ b \in Nat
        BY Zenon, <3>6, <4>0
      <4>2. prod.sent = a + b
        BY Zenon, <3>6
      <4> HIDE DEF a, b
      <4>3. n = a + b + 1
        BY Zenon, <4>2
      <4> QED
        BY <4>1, <4>3
    <3> HIDE DEF n
    <3>7. ASSUME NEW i \in 1..Len(ch'.buf)
          PROVE  ch'.buf[i] = S[a + i]
      <4>1. i \in 1..b \/ i = b + 1
        BY <3>5, <3>6a
      <4>2. CASE i \in 1..b
        BY Zenon, <3>5, <3>6, <4>2
      <4>3. CASE i = b + 1
        BY Zenon, <3>5, <3>6a, <4>3
      <4> QED
        BY Zenon, <4>1, <4>2, <4>3
    <3>8. a + Len(ch'.buf) = prod'.sent
      BY Zenon, <3>4, <3>5, <3>6a
    <3>9. prod'.sent \in 0..Len(S) /\ (prod'.pc # "exited" => prod'.sent < Len(S))
      BY SMTT(60), <3>2, <3>3, <3>4
    <3>10. ~out.done /\ ctx # "done" /\ ctx \in {"live", "gone", "done"} /\ cons \in {"recv", "test", "200", "gone"}
      BY <2>1, <3>2 DEF Flow
    <3>11. /\ out = [hand |-> out.hand, tokens |-> out.tokens, done |-> out.done]
           /\ out.hand \in Seq(Words) /\ out.tokens \in Seq(Words) /\ out.done \in BOOLEAN
           /\ cons \in {"recv", "200"} => out.hand = <<>>
           /\ \A i \in 1..Len(out.tokens) : out.tokens[i] = S[i]
           /\ \A i \in 1..Len(out.hand) : out.hand[i] = S[Len(out.tokens) + i]
      BY ZenonT(60), <3>2 DEF Flow
    <3>12. Flow(Streamed)'
      BY Zenon, <2>1, <3>1, <3>4, <3>5, <3>7, <3>8, <3>9, <3>10, <3>11 DEF Flow
    <3> QED
      BY <1>5, <2>1, <3>4, <3>12, ChatKeeps
  <2> QED
    BY Zenon, <1>7, <2>2, <2>3 DEF Send
<1>8. CASE Receive
  <2>1. cons = "recv" /\ ch.buf # <<>> /\ cons' = "test" /\ UNCHANGED <<draws, req, ctx, prod>>
        /\ out' = [out EXCEPT !.hand = <<Head(ch.buf)>>] /\ ch' = [ch EXCEPT !.buf = Tail(@)]
    BY Zenon, <1>8 DEF Receive
  <2>2. ASSUME prod.pc # "none"
        PROVE  Flow(Streamed)'
    <3>1. Streamed' = S
      BY Zenon, <2>1, StreamedStays
    <3>2. S \in Seq(Words) /\ Len(S) \in Nat /\ Flow(S)
      BY Zenon, <1>0, <2>2
    <3> HIDE DEF S
    <3>3. /\ out'.hand = <<Head(ch.buf)>> /\ out'.tokens = out.tokens /\ out'.done = out.done
          /\ out' = [hand |-> out'.hand, tokens |-> out'.tokens, done |-> out'.done]
          /\ ch'.buf = Tail(ch.buf) /\ ch'.closed = ch.closed /\ ch' = [buf |-> ch'.buf, closed |-> ch'.closed]
      BY Zenon, <2>1, <3>2 DEF Flow
    <3>4. ch.buf \in Seq(Words) /\ Len(ch.buf) \in Nat \ {0} /\ out.hand = <<>> /\ Len(out.hand) = 0
          /\ out.tokens \in Seq(Words) /\ Len(out.tokens) \in Nat
      BY <2>1, <3>2 DEF Flow
    <3>5. out'.hand \in Seq(Words) /\ Len(out'.hand) = 1 /\ out'.hand[1] = ch.buf[1]
      BY <3>3, <3>4
    <3>6. ch'.buf \in Seq(Words) /\ Len(ch'.buf) = Len(ch.buf) - 1
          /\ \A i \in 1..Len(ch'.buf) : ch'.buf[i] = ch.buf[i + 1]
      BY SMTT(60), <3>3, <3>4
    <3>7. \A i \in 1..Len(ch.buf) : ch.buf[i] = S[Len(out.tokens) + i]
      BY <3>2, <3>4 DEF Flow
    <3>8. \A i \in 1..Len(out'.hand) : out'.hand[i] = S[Len(out'.tokens) + i]
      BY <3>3, <3>4, <3>5, <3>7
    <3>9. \A i \in 1..Len(ch'.buf) : ch'.buf[i] = S[Len(out'.tokens) + Len(out'.hand) + i]
      <4>1. ASSUME NEW i \in 1..Len(ch'.buf)
            PROVE  ch'.buf[i] = S[Len(out'.tokens) + Len(out'.hand) + i]
        <5>1. i + 1 \in 1..Len(ch.buf) /\ Len(out'.tokens) + Len(out'.hand) + i = Len(out.tokens) + (i + 1)
          <6> DEFINE a == Len(out.tokens)
                     b == Len(ch.buf)
          <6>1. Len(ch'.buf) = b - 1 /\ Len(out'.tokens) = a /\ Len(out'.hand) = 1 /\ a \in Nat /\ b \in Nat
            BY Zenon, <3>3, <3>4, <3>5, <3>6
          <6> HIDE DEF a, b
          <6>2. i \in 1..(b - 1)
            BY Zenon, <6>1
          <6>3. i + 1 \in 1..b /\ a + 1 + i = a + (i + 1)
            BY <6>1, <6>2
          <6> QED
            BY Zenon, <6>1, <6>3 DEF a, b
        <5> QED
          BY Zenon, <3>6, <3>7, <5>1
      <4> QED
        BY Zenon, <4>1
    <3>10. Len(out'.tokens) + Len(out'.hand) + Len(ch'.buf) = prod'.sent
      BY <2>1, <3>2, <3>3, <3>4, <3>5, <3>6 DEF Flow
    <3>11. ~out.done
      BY <2>1, <3>2 DEF Flow
    <3> QED
      BY SMTT(60), <2>1, <3>1, <3>2, <3>3, <3>5, <3>6, <3>8, <3>9, <3>10, <3>11 DEF Flow
  <2> QED
    BY <2>1, <2>2, ChatKeeps
<1>9. CASE Forward
  <2>1. cons = "test" /\ cons' \in {"recv", "gone"} /\ UNCHANGED <<draws, req, ctx, prod, ch>>
    BY <1>9 DEF Forward
  <2>2. ASSUME prod.pc # "none"
        PROVE  Flow(Streamed)'
    <3>1. Streamed' = S
      BY ZenonT(60), <2>1, StreamedStays
    <3>2. S \in Seq(Words) /\ Len(S) \in Nat /\ Flow(S)
      BY Zenon, <1>0, <2>2
    <3> HIDE DEF S
    <3>3. CASE cons' = "gone" /\ UNCHANGED out
      BY <2>1, <3>1, <3>2, <3>3 DEF Flow
    <3>4. CASE cons' = "recv" /\ out' = [out EXCEPT !.hand = <<>>, !.tokens = @ \o out.hand]
      <4>1. /\ out'.hand = <<>> /\ out'.tokens = out.tokens \o out.hand /\ out'.done = out.done
            /\ out' = [hand |-> out'.hand, tokens |-> out'.tokens, done |-> out'.done]
        BY ZenonT(60), <3>2, <3>4 DEF Flow
      <4> DEFINE t == Len(out.tokens)
                 h == Len(out.hand)
      <4>2. /\ out.tokens \in Seq(Words) /\ out.hand \in Seq(Words) /\ t \in Nat /\ h \in Nat
            /\ \A i \in 1..t : out.tokens[i] = S[i]
            /\ \A i \in 1..h : out.hand[i] = S[t + i]
        BY <3>2 DEF Flow
      <4>3. /\ out'.tokens \in Seq(Words) /\ Len(out'.tokens) = t + h /\ Len(out'.hand) = 0
            /\ \A i \in 1..t : out'.tokens[i] = out.tokens[i]
            /\ \A i \in (t + 1)..(t + h) : out'.tokens[i] = out.hand[i - t]
        <5>1. Len(<<>>) = 0
          OBVIOUS
        <5> DEFINE w == out.tokens \o out.hand
        <5>2. /\ w \in Seq(Words) /\ Len(w) = t + h
              /\ \A i \in 1..t : w[i] = out.tokens[i]
              /\ \A i \in (t + 1)..(t + h) : w[i] = out.hand[i - t]
          <6>1. out.tokens \in Seq(Words) /\ out.hand \in Seq(Words)
            BY Zenon, <4>2
          <6> QED
            BY ZenonT(60), <6>1, Joined DEF w, t, h
        <5> HIDE DEF w, t, h
        <5>3. out'.tokens = w /\ Len(out'.hand) = 0
          BY Zenon, <4>1, <5>1 DEF w
        <5> QED
          BY Zenon, <5>2, <5>3
      <4>4. \A i \in 1..Len(ch.buf) : ch.buf[i] = S[t + h + i]
        BY Zenon, <3>2 DEF Flow
      <4>5. t + h + Len(ch.buf) = prod.sent /\ Len(ch.buf) \in Nat
        BY <3>2 DEF Flow
      <4> HIDE DEF t, h
      <4>6. ASSUME NEW i \in 1..(t + h)
            PROVE  out'.tokens[i] = S[i]
        <5>1. CASE i <= t
          BY <4>2, <4>3, <5>1
        <5>2. CASE i > t
          <6>1. i \in (t + 1)..(t + h) /\ i - t \in 1..h /\ t + (i - t) = i
            BY <4>2, <5>2
          <6> QED
            BY Zenon, <4>2, <4>3, <6>1
        <5> QED
          BY <4>2, <5>1, <5>2
      <4>7. t + h + 0 = t + h
        BY <4>2
      <4>8. \A i \in 1..Len(ch.buf) : ch.buf[i] = S[Len(out'.tokens) + Len(out'.hand) + i]
        <5>1. ASSUME NEW i \in 1..Len(ch.buf)
              PROVE  ch.buf[i] = S[t + h + 0 + i]
          BY Zenon, <4>4, <4>7
        <5> QED
          BY Zenon, <4>3, <5>1
      <4>9. Len(out'.tokens) + Len(out'.hand) + Len(ch.buf) = prod.sent
        BY Zenon, <4>3, <4>5, <4>7
      <4> QED
        BY SMTT(60), <2>1, <3>1, <3>2, <3>4, <4>1, <4>3, <4>6, <4>8, <4>9 DEF Flow
    <3> QED
      BY Zenon, <1>9, <3>3, <3>4 DEF Forward
  <2> QED
    BY <2>1, <2>2, ChatKeeps
<1>10. CASE Finish
  <2>1. cons = "recv" /\ ch.buf = <<>> /\ ch.closed /\ cons' = "200" /\ UNCHANGED <<draws, req, prod, ch>>
        /\ out' = [out EXCEPT !.done = TRUE] /\ ctx' = IF ctx = "live" THEN "done" ELSE ctx
    BY Zenon, <1>10 DEF Finish
  <2>2. ASSUME prod.pc # "none"
        PROVE  Flow(Streamed)'
    <3>1. Streamed' = S
      BY Zenon, <2>1, StreamedStays
    <3>2. S \in Seq(Words) /\ Len(S) \in Nat /\ Flow(S)
      BY Zenon, <1>0, <2>2
    <3> HIDE DEF S
    <3>3. /\ out'.hand = out.hand /\ out'.tokens = out.tokens /\ out'.done = TRUE
          /\ out' = [hand |-> out'.hand, tokens |-> out'.tokens, done |-> out'.done]
      BY ZenonT(60), <2>1, <3>2 DEF Flow
    <3> QED
      BY Zenon, <2>1, <3>1, <3>2, <3>3 DEF Flow
  <2> QED
    BY <2>1, <2>2, ChatKeeps
<1>11. CASE ChatReply
  <2>1. cons = "chat" /\ cons' # "start" /\ UNCHANGED <<draws, req, prod, ch>>
    BY <1>11 DEF ChatReply
  <2>2. prod.pc # "none" => cons \in {"recv", "test", "200", "gone"}
    BY Zenon, <1>0 DEF Flow
  <2> HIDE DEF S
  <2>3. prod.pc = "none"
    BY <2>1, <2>2
  <2> QED
    BY Zenon, <2>1, <2>3, ChatKeeps
<1>12. CASE \E name \in Names, withEngine \in BOOLEAN : Register(name, withEngine)
  BY Zenon, <1>2, <1>12 DEF Register
<1>13. CASE UNCHANGED chatVars
  BY Zenon, <1>2, <1>13 DEF chatVars
<1> QED
  BY ZenonT(60), <1>1, <1>3, <1>6, <1>7, <1>8, <1>9, <1>10, <1>11, <1>12, <1>13 DEF ChatNext, Producer, Handler

\* For any vocabulary, any generator, any channel capacity and any
\* interleaving of goroutine, handler and client: what streamChat writes is a
\* prefix of what the engine generates, and all of it when [DONE] follows to a
\* client that stayed.
THEOREM ChatStreamIsChat == ChatSpec => []StreamIsChat
<1>1. ChatInv => StreamIsChat
  <2> SUFFICES ASSUME ChatInv, prod.pc # "none"
               PROVE  StreamIsChat
    BY Zenon DEF StreamIsChat
  <2> DEFINE S == Streamed
  <2>1. S \in Seq(Words) /\ Len(S) \in Nat \ {0} /\ Flow(S) /\ IsServed(req)
    BY Zenon, StreamedFacts, StreamedIs DEF ChatInv
  <2>2. ASSUME Len(req.messages) = 1
        PROVE  Chat(req.messages, req.max).tokens = S
    <3>1. req.messages \in Seq(Prompts)
      BY <2>1, ChatAssumption DEF IsServed
    <3>2. req.messages = <<req.messages[Len(req.messages)]>>
      BY <2>2, <3>1
    <3>3. ChatPrompt(req.messages) = StreamPrompt(req.messages)
      BY Zenon, <3>2 DEF ChatPrompt, StreamPrompt
    <3>4. Chat(req.messages, req.max).tokens = Tokens(ChatPrompt(req.messages), MaxTokens(req.max))
      BY DEF Chat
    <3> QED
      BY Zenon, <3>3, <3>4 DEF Streamed
  <2> HIDE DEF S
  <2>3. Len(out.tokens) <= Len(S) /\ DOMAIN out.tokens = 1..Len(out.tokens)
    BY <2>1 DEF Flow
  <2>4. \A i \in DOMAIN out.tokens : out.tokens[i] = S[i]
    BY Zenon, <2>1, <2>3 DEF Flow
  <2>5. ASSUME out.done, ctx = "done"
        PROVE  out.tokens = S
    <3>1. Len(out.tokens) = Len(S)
      BY SMTT(60), <2>1, <2>5 DEF Flow
    <3>2. out.tokens \in Seq(Words)
      BY Zenon, <2>1 DEF Flow
    <3> QED
      BY SMTT(60), <2>1, <2>3, <2>4, <3>1, <3>2
  <2> QED
    BY Zenon, <2>2, <2>3, <2>4, <2>5 DEF StreamIsChat, S
<1>2. ChatInv /\ [ChatNext]_chatVars => ChatInv'
  BY ChatStep
<1> QED
  BY <1>1, <1>2, ChatInvInit, PTL DEF ChatSpec
==============================================================================
