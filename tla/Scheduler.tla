------------------------------ MODULE Scheduler ------------------------------
(***************************************************************************)
(* internal/scheduler: what Plan decides for one workload on a list of     *)
(* nodes.  The scheduler keeps no state, so it is a set of operators; the  *)
(* controller (Cluster) calls Plan, and PlanPart states what a plan is.    *)
(*                                                                         *)
(* A node is a record: id, ready (Status = "Ready"), the flags             *)
(* unschedulable, drain and cordoned, cpu and mem (allocatable), cpuUsed   *)
(* and memUsed (CPUAllocated, MemAllocated), gpus, labels, and taints: the *)
(* <<key, value>> of its NoSchedule taints.  A workload: replicas, cpu,    *)
(* mem, gpus, selector, tolerations (the well-formed "key=value" ones, as  *)
(* pairs) and anti: an anti-affinity rule contains its name.  Labels are a *)
(* function on every key, "" where the map has no entry, because that is   *)
(* what Go's lookup in matchSelector gives.                                *)
(***************************************************************************)
EXTENDS Integers, Sequences, FiniteSets

\* The constant of maxPerNode.
PerNodeCap == 4

\* The second half of a toleration that tolerates every value.
AnyValue == "*"

FreeCPU(n) == n.cpu - n.cpuUsed
FreeMem(n) == n.mem - n.memUsed

HasToleration(tol, t) == \E u \in tol : u[1] = t[1] /\ u[2] \in {AnyValue, t[2]}

Tolerates(tol, taints) == \A t \in taints : HasToleration(tol, t)

MatchSelector(sel, labels) == \A k \in DOMAIN sel : labels[k] = sel[k]

\* filter's conditions, for one node.
Fits(n, w) ==
  /\ ~n.unschedulable /\ ~n.drain /\ ~n.cordoned
  /\ n.ready
  /\ FreeCPU(n) >= w.cpu
  /\ FreeMem(n) >= w.mem
  /\ n.gpus >= w.gpus
  /\ MatchSelector(w.selector, n.labels)
  /\ Tolerates(w.tolerations, n.taints)

\* The elements of s at the indices D, in an order of these: the k-th is the one
\* that k - 1 others are before.
Arrange(s, D, before) ==
  [k \in 1..Cardinality(D) |->
     s[CHOOSE i \in D : Cardinality({j \in D : <<j, i>> \in before}) = k - 1]]

InOrder(D) == {e \in D \X D : e[1] < e[2]}

Filter(nodes, w) ==
  LET fitting == {i \in DOMAIN nodes : Fits(nodes[i], w)}
  IN Arrange(nodes, fitting, InOrder(fitting))

\* score: avail / total as a fraction; a node without resources scores 0.
Avail(n) == IF n.cpu + n.mem = 0 THEN 0 ELSE FreeCPU(n) + FreeMem(n)
Total(n) == IF n.cpu + n.mem = 0 THEN 1 ELSE n.cpu + n.mem

Better(m, n) == Avail(m) * Total(n) > Avail(n) * Total(m)

\* sort.SliceStable: j comes before i.
Before(s, j, i) == Better(s[j], s[i]) \/ (~Better(s[i], s[j]) /\ j < i)

\* Mutant of Score: the list is left as ListNodes returned it.
ScoreUnsorted(s) == s

Score(s) == Arrange(s, DOMAIN s, {e \in (DOMAIN s) \X (DOMAIN s) : Before(s, e[1], e[2])})

\* Mutant of MaxPerNode: one replica more than the free CPU carries.
MaxPerNodeOffByOne(w, n) ==
  IF w.anti THEN 1
  ELSE IF w.cpu = 0 \/ FreeCPU(n) \div w.cpu >= PerNodeCap THEN PerNodeCap
  ELSE FreeCPU(n) \div w.cpu + 1

MaxPerNode(w, n) ==
  LET c == FreeCPU(n) \div w.cpu
  IN IF w.anti THEN 1
     ELSE IF w.cpu = 0 \/ c > PerNodeCap THEN PerNodeCap
     ELSE IF c <= 0 THEN 0
     ELSE c

OnNode(ps, id) == {i \in DOMAIN ps : ps[i] = id}

\* Mutant of Place: a full node ends the search instead of being skipped.
PlaceStopsAtFull(scored, w) ==
  LET cap == IF scored = <<>> THEN 0 ELSE MaxPerNode(w, scored[1])
  IN [i \in 1..(IF w.replicas < cap THEN w.replicas ELSE cap) |-> scored[1].id]

\* The inner loop of Plan: one replica goes to the first node with room, if any.
PlaceOne(scored, w, ps) ==
  LET room == {k \in DOMAIN scored : Cardinality(OnNode(ps, scored[k].id)) < MaxPerNode(w, scored[k])}
  IN IF room = {} THEN ps ELSE Append(ps, scored[CHOOSE k \in room : \A l \in room : k <= l].id)

\* The outer loop, which ends when there is no room.  The i-th element is the
\* node of replica i - 1.
Place(scored, w) ==
  LET placed[i \in 0..w.replicas] == IF i = 0 THEN <<>> ELSE PlaceOne(scored, w, placed[i - 1])
  IN placed[w.replicas]

\* Decision: the placements, and whether Unscheduled is set.
Plan(nodes, w) ==
  LET scored == Score(Filter(nodes, w))
      ps     == Place(scored, w)
  IN [placements  |-> ps,
      unscheduled |-> scored = <<>> \/ Len(ps) < w.replicas]
==============================================================================
