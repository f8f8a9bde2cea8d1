----------------------------- MODULE MCScheduler -----------------------------
(***************************************************************************)
(* One call of Plan for every list of up to MaxNodes nodes and every       *)
(* workload of a small family.                                             *)
(***************************************************************************)
EXTENDS PlanPart

CONSTANTS
  MaxNodes,     \* length of the node list
  MaxReplicas,  \* replicas of a workload
  MaxUnits      \* CPU or memory of a node, in units

Key == "zone"
Label == {"", "a"}

Blank(id) ==
  [id |-> id, ready |-> TRUE, unschedulable |-> FALSE, drain |-> FALSE,
   cordoned |-> FALSE, cpu |-> MaxUnits, mem |-> MaxUnits, cpuUsed |-> 0,
   memUsed |-> 0, gpus |-> 0, labels |-> [k \in {Key} |-> "a"], taints |-> {}]

\* Nodes that differ in what filter looks at, and nodes that differ in room; of
\* three or more nodes all differ in room only, and the third in CPU only.
Shapes(id, of) ==
  LET b == Blank(id)
  IN UNION {
       IF of > 2 THEN {} ELSE
       {[b EXCEPT !.ready = FALSE], [b EXCEPT !.drain = TRUE],
        [b EXCEPT !.cordoned = TRUE], [b EXCEPT !.unschedulable = TRUE],
        [b EXCEPT !.labels = [k \in {Key} |-> ""]], [b EXCEPT !.gpus = 1],
        [b EXCEPT !.taints = {<<"pool", "x">>}], [b EXCEPT !.cpu = 0, !.mem = 0]},
       {[b EXCEPT !.cpuUsed = u, !.memUsed = m] : u \in {0, MaxUnits - 2, MaxUnits + 1}, m \in IF id > 2 THEN {0} ELSE {0, MaxUnits}}}

MCAsked ==
  LET plain == [replicas : 0..MaxReplicas, cpu : 0..2, mem : {0, 1}, gpus : {0},
                selector : {<<>>}, tolerations : {{}}, anti : BOOLEAN]
      picky == [replicas : {MaxReplicas}, cpu : {1}, mem : {0}, gpus : {0, 1},
                selector : {<<>>} \cup [{Key} -> Label],
                tolerations : SUBSET {<<"pool", AnyValue>>, <<"pool", "y">>}, anti : {FALSE}]
  IN plain \cup picky

MCNodeLists ==
  UNION {{s \in [1..k -> UNION {Shapes(i, k) : i \in 1..k}] : \A i \in 1..k : s[i].id = i} : k \in 0..MaxNodes}
==============================================================================
