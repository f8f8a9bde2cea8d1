------------------------------ MODULE Election ------------------------------
(***************************************************************************)
(* Leader election of internal/util/leader: every node runs tick() once    *)
(* per heartbeat and keeps its belief in state.  The candidates share a    *)
(* db.KV, the store of internal/primitives/db, whose Put and               *)
(* CompareAndSwap are not atomic: they read or test the version of the     *)
(* key, let the lock go, take an index of the log, and write the map       *)
(* later, or not at all if a call with a later index was faster.  Both     *)
(* return no error then (KV has all the sections of a call; those that     *)
(* matter here are the actions of "The store").                            *)
(*                                                                         *)
(* Time is counted in heartbeats.  A ticker fires at most once per period, *)
(* at any moment of it; a slow node may miss periods.                      *)
(***************************************************************************)
EXTENDS Naturals

CONSTANTS
  Nodes,
  Nil,         \* no record under the leader key
  TTL,         \* cfg.TTL in heartbeats (5s / 1.5s)
  Start,       \* how the group starts: "empty" store, lease "held"
  MaxTime,     \* bound: heartbeat periods
  MaxTerm,     \* bound: terms
  MaxOthers    \* bound: calls of the store that are about other keys

ASSUME ElectionAssumption ==
  /\ TTL \in Nat \ {0} /\ MaxTime \in Nat /\ MaxTerm \in Nat /\ MaxOthers \in Nat
  /\ Start \subseteq {"empty", "held"}

\* LeaderRecord
Record == [node : Nodes, term : Nat, expiry : Nat]

ASSUME NoRecord == Nil \notin Record

VARIABLES
  now,         \* the clock
  due,         \* due[n]: n's ticker has fired and tick() has not begun
  running,     \* Stop was not called
  state, term, \* e.state and e.term
  pc,          \* tick()'s next step: "idle", "get", "put", "cas", "append", "check", "store", "won"
  at, cur,     \* tick()'s locals: the time it read and the record it proposes
  ver,         \* ent.Version, then the version the call gives its entry
  index,       \* the index of the call's log entry
  record, version,  \* what the store holds under leaderKey(group)
  logged, lastApplied, \* the length of r.log, and r.lastApplied
  others,      \* the calls about other keys
  claimed,     \* history: the version n has written last
  clashed      \* history: two claims overlapped in the store, one was overtaken there,
               \* or Put found a record that Get had not found

tick   == <<due, state, term, at, cur>>
store  == <<record, version, logged, lastApplied, others>>
vars   == <<now, running, tick, pc, ver, index, store, claimed, clashed>>

Init ==
  /\ now = 1
  /\ due = [n \in Nodes |-> FALSE]
  /\ running = [n \in Nodes |-> TRUE]
  /\ state = [n \in Nodes |-> "Follower"]
  /\ term = [n \in Nodes |-> 0]
  /\ pc = [n \in Nodes |-> "idle"]
  /\ at = [n \in Nodes |-> 0]
  /\ cur = [n \in Nodes |-> Nil]
  /\ ver = [n \in Nodes |-> 0] /\ index = [n \in Nodes |-> 0]
  /\ \/ "empty" \in Start /\ record = Nil /\ version = 0
     \/ /\ "held" \in Start /\ version = 1
        /\ \E n \in Nodes : record = [node |-> n, term |-> 1, expiry |-> now + TTL]
  /\ logged = version /\ lastApplied = version /\ others = 0
  /\ claimed = [n \in Nodes |-> 0] /\ clashed = FALSE
-----------------------------------------------------------------------------
Goto(n, l) == pc' = [pc EXCEPT ![n] = l]

\* A heartbeat period passes.
Pass ==
  /\ now < MaxTime
  /\ now' = now + 1
  /\ due' = [n \in Nodes |-> TRUE]
  /\ UNCHANGED <<running, state, term, at, cur, pc, ver, index, store, claimed, clashed>>

\* tick() up to its first call of the store.
TickStart(n) ==
  /\ running[n] /\ due[n] /\ pc[n] = "idle"
  /\ term[n] < MaxTerm
  /\ due' = [due EXCEPT ![n] = FALSE]
  /\ state' = [state EXCEPT ![n] = "Candidate"]
  /\ at' = [at EXCEPT ![n] = now]
  /\ term' = [term EXCEPT ![n] = term[n] + 1]
  /\ cur' = [cur EXCEPT ![n] = [node |-> n, term |-> term[n] + 1, expiry |-> now + TTL]]
  /\ Goto(n, "get")
  /\ UNCHANGED <<now, running, ver, index, store, claimed, clashed>>

\* prev.Expiry.After(now) && prev.Term >= cur.Term, prev being somebody's record
Leased(n) == record # Nil /\ record.expiry > at[n] /\ record.term >= cur[n].term

\* KV.Get finds a lease to respect.
Follow(n) ==
  /\ pc[n] = "get"
  /\ Leased(n)
  /\ state' = [state EXCEPT ![n] = "Follower"]
  /\ term' = [term EXCEPT ![n] = record.term]
  /\ Goto(n, "idle")
  /\ UNCHANGED <<now, running, due, at, cur, ver, index, store, claimed, clashed>>

\* KV.Get finds no record, an expired one or one of a lower term.
GoForClaim(n) ==
  /\ pc[n] = "get"
  /\ ~Leased(n)
  /\ ver' = [ver EXCEPT ![n] = version]
  /\ Goto(n, IF record = Nil THEN "put" ELSE "cas")
  /\ UNCHANGED <<now, running, tick, index, store, claimed, clashed>>

\* Bug variant: the error of the call is not looked at.
LeadAnyway(n) ==
  /\ pc[n] \in {"put", "cas", "append", "check"}
  /\ state' = [state EXCEPT ![n] = "Leader"]
  /\ Goto(n, "idle")
  /\ UNCHANGED <<now, running, due, term, at, cur, ver, index, store, claimed, clashed>>

\* A call of the store fails, or the version is not the expected one: n remains
\* a candidate until its next tick.
Lose(n) ==
  /\ pc[n] \in {"get", "put", "cas", "append", "check"}
  /\ Goto(n, "idle")
  /\ UNCHANGED <<now, running, tick, ver, index, store, claimed, clashed>>

\* tick() after a call that returned no error.
Lead(n) ==
  /\ pc[n] = "won"
  /\ state' = [state EXCEPT ![n] = "Leader"]
  /\ Goto(n, "idle")
  /\ UNCHANGED <<now, running, due, term, at, cur, ver, index, store, claimed, clashed>>

\* Stop, or the context ends: the loop returns and state keeps its value.
Stop(n) ==
  /\ running[n] /\ pc[n] = "idle"
  /\ running' = [running EXCEPT ![n] = FALSE]
  /\ UNCHANGED <<now, tick, pc, ver, index, store, claimed, clashed>>

\* NewElection for a node whose loop has returned.
Restart(n) ==
  /\ ~running[n]
  /\ running' = [running EXCEPT ![n] = TRUE]
  /\ due' = [due EXCEPT ![n] = FALSE]
  /\ state' = [state EXCEPT ![n] = "Follower"]
  /\ term' = [term EXCEPT ![n] = 0]
  /\ UNCHANGED <<now, at, cur, pc, ver, index, store, claimed, clashed>>
-----------------------------------------------------------------------------
(* The store.                                                               *)

\* The nodes between the test of their call and its write.
Writing == {n \in Nodes : pc[n] \in {"append", "check", "store"}}

\* The call has read or tested the version and lets the lock go.
Tested(n, clash) ==
  /\ ver' = [ver EXCEPT ![n] = version + 1]
  /\ clashed' = (clashed \/ clash \/ Writing # {})
  /\ Goto(n, "append")
  /\ UNCHANGED <<now, running, tick, index, store, claimed>>

\* KV.Put: the initial claim, with the next version of whatever is there by now.
ClaimPut(n) == pc[n] = "put" /\ Tested(n, record # Nil)

\* Bug variant: the claim is not conditional on the version read.
ClaimUnconditional(n) == pc[n] = "cas" /\ Tested(n, FALSE)

\* KV.CompareAndSwap: the version is the expected one.
ClaimCAS(n) == pc[n] = "cas" /\ ver[n] = version /\ Tested(n, FALSE)

\* append.
LogClaim(n) ==
  /\ pc[n] = "append"
  /\ logged' = logged + 1
  /\ index' = [index EXCEPT ![n] = logged + 1]
  /\ Goto(n, "check")
  /\ UNCHANGED <<now, running, tick, ver, record, version, lastApplied, others, claimed, clashed>>

\* applyLocked, under r.mu: claim the index.
ApplyClaim(n) ==
  /\ pc[n] = "check"
  /\ index[n] > lastApplied
  /\ lastApplied' = index[n]
  /\ Goto(n, "store")
  /\ UNCHANGED <<now, running, tick, ver, index, record, version, logged, others, claimed, clashed>>

\* applyLocked returns early; the call returns no error.
ApplySkip(n) ==
  /\ pc[n] = "check"
  /\ index[n] <= lastApplied
  /\ clashed' = TRUE
  /\ Goto(n, "won")
  /\ UNCHANGED <<now, running, tick, ver, index, store, claimed>>

\* applyLocked, under st.mu: the map changes.
ApplyStore(n) ==
  /\ pc[n] = "store"
  /\ record' = cur[n]
  /\ version' = ver[n]
  /\ claimed' = [claimed EXCEPT ![n] = ver[n]]
  /\ Goto(n, "won")
  /\ UNCHANGED <<now, running, tick, ver, index, logged, lastApplied, others, clashed>>

\* A call about another key takes an index and claims it.
OtherCall ==
  /\ others < MaxOthers
  /\ others' = others + 1
  /\ logged' = logged + 1
  /\ lastApplied' = logged + 1
  /\ UNCHANGED <<now, running, tick, pc, ver, index, record, version, claimed, clashed>>

Call(n) == ClaimPut(n) \/ ClaimCAS(n) \/ LogClaim(n) \/ ApplyClaim(n) \/ ApplySkip(n) \/ ApplyStore(n)

Next ==
  \/ Pass \/ OtherCall
  \/ \E n \in Nodes :
       \/ TickStart(n) \/ Follow(n) \/ GoForClaim(n) \/ Call(n)
       \/ Lose(n) \/ Lead(n) \/ Stop(n) \/ Restart(n)

Spec == Init /\ [][Next]_vars
-----------------------------------------------------------------------------
\* Every variable has its type; a tick that has read the clock has a record.
TypeOK ==
  /\ now \in Nat /\ due \in [Nodes -> BOOLEAN] /\ running \in [Nodes -> BOOLEAN]
  /\ state \in [Nodes -> {"Follower", "Candidate", "Leader"}]
  /\ term \in [Nodes -> Nat]
  /\ pc \in [Nodes -> {"idle", "get", "put", "cas", "append", "check", "store", "won"}]
  /\ at \in [Nodes -> Nat]
  /\ cur \in [Nodes -> Record \cup {Nil}]
  /\ \A n \in Nodes : pc[n] # "idle" => cur[n] \in Record
  /\ ver \in [Nodes -> Nat] /\ index \in [Nodes -> Nat]
  /\ record \in Record \cup {Nil} /\ version \in Nat
  /\ logged \in Nat /\ lastApplied \in Nat /\ others \in Nat
  /\ claimed \in [Nodes -> Nat] /\ clashed \in BOOLEAN

IsLeader(n) == state[n] = "Leader"

\* As long as no two claims race (overlap in the store, overtake each other, or
\* are both initial ones), the version of the leader record works as a fencing
\* token: a node that believes it leads, or is about to, holds the current
\* record exactly if the version it wrote is the current one.  A leader that was
\* replaced and has not noticed has an older version.
VersionFences ==
  ~clashed =>
    \A n \in Nodes : IsLeader(n) \/ pc[n] = "won" =>
      /\ 0 < claimed[n] /\ claimed[n] <= version
      /\ claimed[n] = version <=> record.node = n

\* As long as no two claims race, a claim takes a lease only if it has expired,
\* or with a higher term: what tick() read is still true when the record is
\* replaced, although the clock moves and others write between reading the
\* lease, testing its version and writing.
SwapsRespectLease ==
  [][\A n \in Nodes : ~clashed /\ ApplyStore(n) /\ record # Nil
        => record.expiry <= now \/ record'.term > record.term]_vars
=============================================================================
