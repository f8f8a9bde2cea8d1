------------------------------- MODULE Cluster -------------------------------
(***************************************************************************)
(* The control loops that share the store: the controllers                 *)
(* (internal/controller, with internal/scheduler), the autoscaler          *)
(* (internal/autoscale) and the heartbeats of the nodes.  Each call of a   *)
(* loop on the store is one step, so the loops interleave between a read   *)
(* and the write it decides.                                               *)
(*                                                                         *)
(* internal/state is external: its calls are atomic, UpdateWorkload is a   *)
(* compare-and-swap on the version the workload was read with, and         *)
(* SetPlacements overwrites.  Versions are compared for equality only, so  *)
(* current holds the <<process, workload>> pairs whose copy has the stored *)
(* version: a read adds the pair, a successful write of the workload       *)
(* leaves none.                                                            *)
(***************************************************************************)
EXTENDS Scheduler

CONSTANTS
  Workloads, Controllers, Nodes,
  NodeOrder,    \* the order in which ListNodes returns the nodes
  NodeCPU,      \* CPU of a node, in units
  Usage,        \* Usage[n]: what the collector of node n reports
  WorkloadCPU,  \* CPU of a replica
  MaxReplicas,  \* the most replicas a workload is created with
  MostReplicas, \* the most it can be scaled to
  Policies,     \* autoscaling policies: min, max, up, down
  MaxFaults     \* calls that fail, and processes that crash

\* The autoscaler as a process that holds copies.
Scaler == "autoscaler"

ASSUME ClusterAssumption ==
  /\ Scaler \notin Controllers
  /\ MaxReplicas \in Nat /\ MaxFaults \in Nat /\ NodeCPU \in Nat /\ WorkloadCPU \in Nat
  /\ Usage \in [Nodes -> Nat]
  /\ Policies \subseteq [min : Nat, max : 0..MostReplicas, up : Nat, down : Nat]
  /\ MostReplicas \in Nat /\ MaxReplicas <= MostReplicas
  /\ NodeOrder \in Seq(Nodes) /\ {NodeOrder[i] : i \in DOMAIN NodeOrder} = Nodes
  /\ \A i, j \in DOMAIN NodeOrder : NodeOrder[i] = NodeOrder[j] => i = j

VARIABLES
  stored,     \* the workloads in the store
  placements, \* the placements in the store: the node of each replica
  node,       \* the nodes in the store
  current,    \* the copies that have the stored version
  ctl,        \* the reconcile pass of each controller
  policy,     \* autoscaler: specs, {} or {p} for each workload
  scaler,     \* autoscaler: the evaluation under way
  faults      \* faults so far

store == <<stored, placements, node, current>>
scaling == <<policy, scaler>>
vars == <<store, ctl, scaling, faults>>

Listed == {w \in Workloads : stored[w].exists}

NodeRecord == [registered : BOOLEAN, drain : BOOLEAN]

\* The report of a node's collector, of which the scheduler reads the CPU.
Collect(n) == Usage[n]

\* A node as the scheduler sees it.  Nothing writes a node but its agent, which
\* sets Status to Ready, and Drain and Unschedulable together.
AsNode(n, drain) ==
  [id |-> n, ready |-> TRUE, unschedulable |-> drain, drain |-> drain,
   cordoned |-> FALSE, cpu |-> NodeCPU, mem |-> 0, cpuUsed |-> Collect(n), memUsed |-> 0,
   gpus |-> 0, labels |-> <<>>, taints |-> {}]

\* The registered nodes, in the order of the index.
ListNodes(ns) ==
  LET listed == {i \in DOMAIN NodeOrder : ns[NodeOrder[i]].registered}
      reg == Arrange(NodeOrder, listed, InOrder(listed))
  IN [i \in DOMAIN reg |-> AsNode(reg[i], ns[reg[i]].drain)]

AsSpec(r) ==
  [replicas |-> r, cpu |-> WorkloadCPU, mem |-> 0, gpus |-> 0, selector |-> <<>>,
   tolerations |-> {}, anti |-> FALSE]

\* Plan for r replicas when the store holds the nodes ns, as a table.
Plans == {[nodes |-> ns, replicas |-> r, decision |-> Plan(ListNodes(ns), AsSpec(r))] :
            ns \in [Nodes -> NodeRecord], r \in 0..MostReplicas}

PlanFor(ns, r) == (CHOOSE t \in Plans : t.nodes = ns /\ t.replicas = r).decision

\* The replicas a workload asks for; the status is written and never read.
NoWorkload == [exists |-> FALSE, replicas |-> 0]

\* A pass of reconcileAll: about to take a workload of todo, or over.
Reconciling(todo, copy) ==
  [pc |-> "plan", todo |-> todo, w |-> {}, copy |-> copy, plan |-> <<>>]

Idle == [pc |-> "idle", todo |-> {}, w |-> {}, copy |-> <<>>, plan |-> <<>>]

\* A pass of evaluate, likewise.
Evaluating(todo, rule) ==
  [pc |-> "next", todo |-> todo, w |-> {}, rule |-> rule, copy |-> NoWorkload]

Waiting == [pc |-> "wait", todo |-> {}, w |-> {}, rule |-> <<>>, copy |-> NoWorkload]

Init ==
  /\ stored = [w \in Workloads |-> NoWorkload]
  /\ placements = [w \in Workloads |-> <<>>]
  /\ node = [n \in Nodes |-> [registered |-> FALSE, drain |-> FALSE]]
  /\ current = {}
  /\ ctl = [c \in Controllers |-> Idle]
  /\ policy = [w \in Workloads |-> {}]
  /\ scaler = Waiting
  /\ faults = 0

-----------------------------------------------------------------------------
(* The store and the election, as the loops use them.                      *)

\* UpdateWorkload by process p: a compare-and-swap on the version of its copy.
UpdateWorkload(p, w, r) ==
  IF <<p, w>> \in current
    THEN /\ stored' = [stored EXCEPT ![w] = r]
         /\ current' = {k \in current : k[2] # w}
    ELSE UNCHANGED <<stored, current>>

CreateWorkload(w) ==
  /\ w \notin Listed
  /\ \E r \in 0..MaxReplicas :
       stored' = [stored EXCEPT ![w] = [exists |-> TRUE, replicas |-> r]]
  /\ UNCHANGED <<placements, node, current, ctl, scaling, faults>>

Fault == faults < MaxFaults /\ faults' = faults + 1

-----------------------------------------------------------------------------
(* Controller.                                                             *)

\* The end of one iteration of reconcileAll's loop, whatever its outcome.
Continue(c, w) ==
  LET rest == ctl[c].todo \ {w}
  IN ctl' = [ctl EXCEPT ![c] = IF rest = {} THEN Idle ELSE Reconciling(rest, @.copy)]

\* The workloads ws are read and will be reconciled.
Begin(c, ws) ==
  /\ ctl[c].pc = "idle" /\ ws # {}
  /\ ctl' = [ctl EXCEPT ![c] = Reconciling(ws, [w \in ws |-> stored[w]])]
  /\ current' = current \cup {<<c, w>> : w \in ws}
  /\ UNCHANGED <<stored, placements, node, scaling, faults>>

\* A tick of Run at which IsLeader holds: reconcileAll lists the workloads.  Two
\* controllers may both believe that they lead, and one that has lost the lead
\* goes on with its pass.
Tick(c) == Begin(c, Listed)

\* ReconcileOne, which does not ask who leads.
ReconcileOne(c, w) == w \in Listed /\ Begin(c, {w})

\* reconcileWorkload up to the decision: Plan reads the nodes.
Reconcile(c) ==
  /\ ctl[c].pc = "plan"
  /\ \E w \in ctl[c].todo :
       LET d == PlanFor(node, ctl[c].copy[w].replicas)
           pc == IF d.unscheduled /\ d.placements = <<>> THEN "giveup" ELSE "set"
       IN ctl' = [ctl EXCEPT ![c] = [pc |-> pc, todo |-> @.todo, w |-> {w}, copy |-> @.copy,
                                     plan |-> d.placements]]
  /\ UNCHANGED <<store, scaling, faults>>

\* Mutant of SetPlacements: it creates the key and never replaces it.
SetPlacementsOnce(c) ==
  /\ ctl[c].pc = "set"
  /\ \E w \in ctl[c].w :
       placements' = IF placements[w] = <<>> THEN [placements EXCEPT ![w] = ctl[c].plan]
                     ELSE placements
  /\ ctl' = [ctl EXCEPT ![c].pc = "update"]
  /\ UNCHANGED <<stored, node, current, scaling, faults>>

SetPlacements(c) ==
  /\ ctl[c].pc = "set"
  /\ \E w \in ctl[c].w : placements' = [placements EXCEPT ![w] = ctl[c].plan]
  /\ ctl' = [ctl EXCEPT ![c].pc = "update"]
  /\ UNCHANGED <<stored, node, current, scaling, faults>>

\* Mutant of UpdateStatus: after a conflict the copy is written again with the
\* version that is stored.
UpdateStatusAgain(c) ==
  /\ ctl[c].pc \in {"update", "giveup"}
  /\ \E w \in ctl[c].w :
       /\ stored' = [stored EXCEPT ![w] = ctl[c].copy[w]]
       /\ current' = {k \in current : k[2] # w}
       /\ Continue(c, w)
  /\ UNCHANGED <<placements, node, scaling, faults>>

\* The end of reconcileWorkload on both of its paths: the copy, with a new
\* status, is written back, and an error ends the iteration just the same.  When
\* no node takes a replica ("giveup") the old placements stay.
UpdateStatus(c) ==
  /\ ctl[c].pc \in {"update", "giveup"}
  /\ \E w \in ctl[c].w : UpdateWorkload(c, w, ctl[c].copy[w]) /\ Continue(c, w)
  /\ UNCHANGED <<placements, node, scaling, faults>>

\* A call of reconcileWorkload on the store fails: on to the next workload.
ReconcileFails(c) ==
  /\ Fault
  /\ \E w \in IF ctl[c].pc = "plan" THEN ctl[c].todo ELSE ctl[c].w : Continue(c, w)
  /\ UNCHANGED <<store, scaling>>

\* The process dies and starts again with nothing in memory.
ControllerCrash(c) ==
  /\ Fault
  /\ ctl[c].pc # "idle"
  /\ ctl' = [ctl EXCEPT ![c] = Idle]
  /\ UNCHANGED <<store, scaling>>

Pass(c) == Reconcile(c) \/ SetPlacements(c) \/ UpdateStatus(c)

-----------------------------------------------------------------------------
(* Autoscaler.                                                             *)

SetPolicy(w, p) ==
  /\ policy' = [policy EXCEPT ![w] = {p}]
  /\ UNCHANGED <<store, ctl, scaler, faults>>

RemovePolicy(w) ==
  /\ policy[w] # {}
  /\ policy' = [policy EXCEPT ![w] = {}]
  /\ UNCHANGED <<store, ctl, scaler, faults>>

\* Where the average CPU is: above the target, below half of it, or between.
Averages == {"high", "low", "between"}

\* Mutant of Want: a step may go below the minimum.
WantNoFloor(p, avg, r) ==
  CASE avg = "high" /\ r < p.max -> IF r + p.up > p.max THEN p.max ELSE r + p.up
    [] avg = "low" /\ r > p.min  -> r - p.down
    [] OTHER -> r

\* The replicas a policy asks for.
Want(p, avg, r) ==
  CASE avg = "high" /\ r < p.max -> IF r + p.up > p.max THEN p.max ELSE r + p.up
    [] avg = "low" /\ r > p.min  -> IF r - p.down < p.min THEN p.min ELSE r - p.down
    [] OTHER -> r

\* The rest of a pass once workload w is done.
NextSpec(w) ==
  scaler' = IF scaler.todo = {w} THEN Waiting
            ELSE Evaluating(scaler.todo \ {w}, scaler.rule)

\* evaluate: a tick of Run copies the specs under the mutex.
Evaluate ==
  LET ws == {w \in Workloads : policy[w] # {}}
  IN /\ scaler.pc = "wait" /\ ws # {}
     /\ scaler' = Evaluating(ws, [w \in ws |-> policy[w]])
     /\ UNCHANGED <<store, ctl, policy, faults>>

\* evaluateOne up to the write: the workload is read, and when it is missing,
\* in its cooldown (the clock decides) or has the replicas wanted, it is left
\* alone.
EvaluateOne ==
  /\ scaler.pc = "next"
  /\ \E w \in scaler.todo, avg \in Averages, cooling \in BOOLEAN : \E p \in scaler.rule[w] :
       LET want == Want(p, avg, stored[w].replicas)
       IN IF w \notin Listed \/ cooling \/ want = stored[w].replicas
            THEN NextSpec(w) /\ UNCHANGED current
            ELSE /\ scaler' = [pc |-> "write", todo |-> scaler.todo, w |-> {w}, rule |-> scaler.rule,
                               copy |-> [exists |-> TRUE, replicas |-> want]]
                 /\ current' = current \cup {<<Scaler, w>>}
  /\ UNCHANGED <<stored, placements, node, ctl, policy, faults>>

Scale ==
  /\ scaler.pc = "write"
  /\ \E w \in scaler.w : UpdateWorkload(Scaler, w, scaler.copy) /\ NextSpec(w)
  /\ UNCHANGED <<placements, node, ctl, policy, faults>>

-----------------------------------------------------------------------------
(* The heartbeats of the node agents (NodeAgent models what else they do). *)

\* What SetDrain has left in the flag of an agent.
DrainFlag == BOOLEAN

\* heartbeatOnce with the agent's drain flag d: drain is only ever added.
Heartbeat(n, d) ==
  /\ node' = [node EXCEPT ![n] = [registered |-> TRUE, drain |-> @.drain \/ d]]
  /\ UNCHANGED <<stored, placements, current, ctl, scaling, faults>>

\* When GetNode fails the node is registered anew, without the flags it had.
HeartbeatForgets(n, d) ==
  /\ Fault
  /\ node' = [node EXCEPT ![n] = [registered |-> TRUE, drain |-> d]]
  /\ UNCHANGED <<stored, placements, current, ctl, scaling>>

-----------------------------------------------------------------------------
Next ==
  \/ \E w \in Workloads : CreateWorkload(w) \/ RemovePolicy(w)
  \/ \E w \in Workloads, p \in Policies : SetPolicy(w, p)
  \/ \E c \in Controllers : Tick(c) \/ Pass(c) \/ ReconcileFails(c) \/ ControllerCrash(c)
  \/ \E c \in Controllers, w \in Workloads : ReconcileOne(c, w)
  \/ Evaluate \/ EvaluateOne \/ Scale
  \/ \E n \in Nodes, d \in DrainFlag : Heartbeat(n, d) \/ HeartbeatForgets(n, d)

\* A pass that has started goes on.  Nothing obliges an operator, the election,
\* the autoscaler or an agent.
Fairness == \A c \in Controllers : WF_vars(Pass(c))

Spec == Init /\ [][Next]_vars /\ Fairness

-----------------------------------------------------------------------------
(* Properties.                                                             *)

Record == [exists : BOOLEAN, replicas : Nat]

TypeOK ==
  /\ stored \in [Workloads -> Record]
  /\ \A w \in Workloads : placements[w] \in Seq(Nodes)
  /\ node \in [Nodes -> NodeRecord]
  /\ current \subseteq (Controllers \cup {Scaler}) \X Workloads
  /\ \A c \in Controllers :
       /\ ctl[c].pc \in {"idle", "plan", "set", "update", "giveup"}
       /\ ctl[c].todo \subseteq DOMAIN ctl[c].copy /\ ctl[c].w \subseteq ctl[c].todo
       /\ ctl[c].plan \in Seq(Nodes)
  /\ policy \in [Workloads -> SUBSET Policies]
  /\ scaler.pc \in {"wait", "next", "write"} /\ scaler.w \subseteq scaler.todo
  /\ scaler.copy \in Record
  /\ faults \in 0..MaxFaults

\* A controller writes back the whole workload it read at the start of its
\* pass, and still never undoes what the autoscaler decided meanwhile: only
\* the autoscaler changes the replicas of a workload, and it starts from the
\* replicas that are stored when its write takes effect.
ScaleKept ==
  [][\A w \in Workloads : (stored[w].exists /\ stored'[w].replicas # stored[w].replicas) =>
        /\ scaler.pc = "write" /\ scaler.w = {w} /\ scaler' # scaler
        /\ \E p \in scaler.rule[w], avg \in Averages :
             stored'[w].replicas = Want(p, avg, stored[w].replicas)]_vars

\* When some controller ticks as the leader again and again, and the nodes and
\* the replicas stop changing, the stored placements become those that Plan
\* gives for them and stay so, whatever the controllers that were deposed in
\* mid-pass had still to write.  A workload that no node can take keeps what it
\* had.
Converges ==
  \A c \in Controllers, w \in Workloads :
    ([]<><<Tick(c)>>_vars
     /\ <>[][node' = node /\ stored'[w].replicas = stored[w].replicas]_vars)
    => <>[](stored[w].exists =>
             LET d == PlanFor(node, stored[w].replicas)
             IN placements[w] = d.placements \/ (d.unscheduled /\ d.placements = <<>>))
==============================================================================
