------------------------------ MODULE NodeAgent ------------------------------
(***************************************************************************)
(* The agent of one node (internal/nodeagent) over the in-memory runtime   *)
(* it is started with (internal/primitives/runtime/fake).  The controllers *)
(* change what is placed on the node, and containers come, stop and exit,  *)
(* while the agent reads the placements workload by workload and removes   *)
(* containers one by one.                                                  *)
(*                                                                         *)
(* A container is named after its workload: the id of a placement is made  *)
(* of the workload and the node, so two replicas on one node are one id.   *)
(* The fields Apply and Delete of the agent are nil (cmd/cloudnode), so a  *)
(* pass of the agent creates nothing: the containers are made by other     *)
(* users of the runtime, as in the tests.  The heartbeat that precedes a   *)
(* pass, and the drain flag, which only the heartbeat reads, are actions   *)
(* of Cluster.                                                             *)
(***************************************************************************)
EXTENDS Naturals

CONSTANTS
  Workloads,
  MaxFaults    \* failing calls and crashes

AgentAssumption == MaxFaults \in Nat

VARIABLES
  created,     \* store: the workloads that ListWorkloads returns
  placed,      \* store: the workloads with a placement on this node
  pc,          \* agent: "down", "rest", "scan" or "sweep"
  todo,        \* agent: the workloads whose placements are still to be read
  want,        \* agent: the local variable of reconcileOnce
  extra,       \* agent: the containers listed that are still to be removed
  conts,       \* runtime: the status of each container, "none" when absent
  stop,        \* runtime: the containers whose stop channel is closed
  faults,
  \* What happened since the pass began.
  steady,      \* placed here all the time
  away,        \* not placed here at any time
  clean,       \* no call has failed
  made         \* created in the runtime after the pass listed it

store == <<created, placed>>
loop == <<pc, todo, want, extra>>
runtime == <<conts, stop>>
past == <<steady, away, clean, made>>
vars == <<store, loop, runtime, faults, past>>

Present == {w \in Workloads : conts[w] # "none"}

NewAgent ==
  /\ created = {} /\ placed = {}
  /\ todo = {} /\ want = {} /\ extra = {}
  /\ conts = [w \in Workloads |-> "none"] /\ stop = {}
  /\ faults = 0
  /\ steady = {} /\ away = {} /\ clean = TRUE /\ made = {}

Init == NewAgent /\ pc = "rest"

Fault ==
  /\ faults < MaxFaults
  /\ faults' = faults + 1
  /\ clean' = FALSE
  /\ UNCHANGED <<steady, away, made>>

-----------------------------------------------------------------------------
(* The store, changed by the API server and the controllers.               *)

CreateWorkload(w) ==
  /\ w \notin created
  /\ created' = created \cup {w}
  /\ UNCHANGED <<placed, loop, runtime, faults, past>>

SetPlacements(w) ==
  /\ w \in created
  /\ placed' = IF w \in placed THEN placed \ {w} ELSE placed \cup {w}
  /\ steady' = steady \cap placed'
  /\ away' = away \ placed'
  /\ UNCHANGED <<created, loop, runtime, faults, clean, made>>

-----------------------------------------------------------------------------
(* The runtime.                                                            *)

\* Create replaces a container that has the id.
Create(w) ==
  /\ pc # "down"
  /\ conts' = [conts EXCEPT ![w] = "creating"]
  /\ stop' = stop \ {w}
  /\ made' = IF pc = "sweep" THEN made \cup {w} ELSE made
  /\ UNCHANGED <<store, loop, faults, steady, away, clean>>

\* A container is started once: the goroutine of a second Start panics.
Start(w) ==
  /\ conts[w] = "creating"
  /\ conts' = [conts EXCEPT ![w] = "running"]
  /\ UNCHANGED <<store, loop, stop, faults, past>>

Stop(w) ==
  /\ w \in Present \ stop
  /\ stop' = stop \cup {w}
  /\ UNCHANGED <<store, loop, conts, faults, past>>

\* The goroutine of Start that waits for the stop channel.
Exit(w) ==
  /\ conts[w] = "running" /\ w \in stop
  /\ conts' = [conts EXCEPT ![w] = "exited"]
  /\ UNCHANGED <<store, loop, stop, faults, past>>

-----------------------------------------------------------------------------
(* The agent.                                                              *)

\* reconcileOnce: the workloads are listed, ...
List ==
  /\ pc = "rest"
  /\ pc' = "scan" /\ todo' = created /\ want' = {}
  /\ steady' = placed /\ away' = Workloads \ placed /\ clean' = TRUE
  /\ UNCHANGED <<store, extra, runtime, faults, made>>

\* ... (no projects: the pass is over; no workloads: nothing is wanted) ...
ListFails ==
  /\ pc = "rest" /\ Fault
  /\ pc' \in {"rest", "scan"} /\ todo' = {} /\ want' = {}
  /\ UNCHANGED <<store, extra, runtime>>

\* Mutant of GetPlacements: the map of what is wanted is made for each workload.
GetPlacementsAnew(w) ==
  /\ pc = "scan" /\ w \in todo
  /\ todo' = todo \ {w}
  /\ want' = {w} \cap placed
  /\ UNCHANGED <<store, pc, extra, runtime, faults, past>>

\* ... the placements of each are read and those for this node wanted, ...
GetPlacements(w) ==
  /\ pc = "scan" /\ w \in todo
  /\ todo' = todo \ {w}
  /\ want' = want \cup ({w} \cap placed)
  /\ UNCHANGED <<store, pc, extra, runtime, faults, past>>

\* ... (no placements: not wanted) ...
GetPlacementsFails(w) ==
  /\ pc = "scan" /\ w \in todo /\ Fault
  /\ todo' = todo \ {w}
  /\ UNCHANGED <<store, pc, want, extra, runtime>>

\* Mutant of ListContainers: only those that run are listed.
ListRunning ==
  /\ pc = "scan" /\ todo = {}
  /\ pc' = "sweep" /\ extra' = {w \in Present \ want : conts[w] = "running"}
  /\ UNCHANGED <<store, todo, want, runtime, faults, past>>

\* ... the containers of the runtime are listed, whatever their status ...
ListContainers ==
  /\ pc = "scan" /\ todo = {}
  /\ pc' = "sweep" /\ extra' = Present \ want
  /\ UNCHANGED <<store, todo, want, runtime, faults, past>>

\* ... and those that nobody wants removed, with force, one after the other.
Remove(w) ==
  /\ pc = "sweep" /\ w \in extra
  /\ extra' = extra \ {w}
  /\ conts' = [conts EXCEPT ![w] = "none"]
  /\ stop' = stop \ {w}
  /\ UNCHANGED <<store, pc, todo, want, faults, past>>

EndPass ==
  /\ pc = "sweep" /\ extra = {}
  /\ pc' = "rest" /\ want' = {}
  /\ steady' = {} /\ away' = {} /\ clean' = TRUE /\ made' = {}
  /\ UNCHANGED <<store, todo, extra, runtime, faults>>

\* The process dies, and the runtime with it; it may be started again.
Crash ==
  /\ pc # "down" /\ Fault
  /\ pc' = "down" /\ todo' = {} /\ want' = {} /\ extra' = {}
  /\ conts' = [w \in Workloads |-> "none"] /\ stop' = {}
  /\ UNCHANGED store

Restart ==
  /\ pc = "down"
  /\ pc' = "rest"
  /\ steady' = {} /\ away' = {} /\ clean' = TRUE /\ made' = {}
  /\ UNCHANGED <<store, todo, want, extra, runtime, faults>>

Run ==
  \/ List \/ ListContainers \/ EndPass
  \/ \E w \in Workloads : GetPlacements(w) \/ Remove(w)

Next ==
  \/ \E w \in Workloads : CreateWorkload(w) \/ SetPlacements(w)
  \/ \E w \in Workloads : Create(w) \/ Start(w) \/ Stop(w) \/ Exit(w)
  \/ Run \/ ListFails \/ (\E w \in Workloads : GetPlacementsFails(w))
  \/ Crash \/ Restart

\* The ticker of Run keeps firing and a pass goes on.  Nothing obliges anybody
\* else, nor a dead agent to be started.
Fairness == WF_vars(Run)

Spec == Init /\ [][Next]_vars /\ Fairness

-----------------------------------------------------------------------------
(* Properties.                                                             *)

\* A pass of reconcileOnce in which no call failed takes away no container of
\* a workload that was placed on the node all through it, and when it ends it
\* has left none of a workload that was never placed on it meanwhile, except
\* what was created after it listed the containers; though the placements and
\* the containers change between the calls of the pass.
SweepIsExact ==
  [][clean => /\ \A w \in steady : ~Remove(w)
              /\ EndPass => away \cap Present \subseteq made]_vars

\* When the agent stays up, and placements are no longer changed nor containers
\* created, then no container is left in the end of a workload that is not
\* placed on the node, whatever errors the passes met before.
AgentCleansUp ==
  (<>[](pc # "down") /\ <>[][placed' = placed /\ \A w \in Workloads : ~Create(w)]_vars)
    => <>[](Present \subseteq placed)
==============================================================================
