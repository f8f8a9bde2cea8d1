------------------------------ MODULE PlanPart ------------------------------
(***************************************************************************)
(* One call of Plan (Scheduler) on a list of nodes and a workload, and     *)
(* what the decision has to be: stated on the list that the call was given *)
(* and not on the order in which Plan went through it.                     *)
(***************************************************************************)
EXTENDS Scheduler

CONSTANTS
  NodeLists,    \* what ListNodes may return
  Asked         \* the workloads that Plan may be called for

\* The nodes of a list have different IDs, and amounts are not negative; what is
\* allocated may exceed what is allocatable.
ASSUME PlanAssumption ==
  /\ \A s \in NodeLists :
       /\ Len(s) \in Nat /\ DOMAIN s = 1..Len(s)
       /\ \A i \in DOMAIN s : /\ {s[i].cpu, s[i].mem, s[i].cpuUsed, s[i].memUsed} \subseteq Nat
                              /\ \A j \in DOMAIN s : s[i].id = s[j].id => i = j
  /\ \A w \in Asked : {w.replicas, w.cpu, w.mem} \subseteq Nat /\ w.anti \in BOOLEAN

VARIABLES
  nodes,        \* what ListNodes returned
  workload,     \* the argument
  decision      \* the set of decisions returned: empty before the call

planVars == <<nodes, workload, decision>>

PlanInit ==
  /\ nodes \in NodeLists
  /\ workload \in Asked
  /\ decision = {}

CallPlan ==
  /\ decision = {}
  /\ decision' = {Plan(nodes, workload)}
  /\ UNCHANGED <<nodes, workload>>

PlanSpec == PlanInit /\ [][CallPlan]_planVars

-----------------------------------------------------------------------------
Load(d, n) == Cardinality(OnNode(d.placements, n.id))
Fitting == {n \in {nodes[i] : i \in DOMAIN nodes} : Fits(n, workload)}

\* The most replicas of the workload that a node may carry.
Room(n) ==
  LET carried == {k \in 0..(IF workload.anti THEN 1 ELSE PerNodeCap) : k * workload.cpu <= FreeCPU(n)}
  IN CHOOSE k \in carried : \A l \in carried : l <= k

\* Plan puts replicas only on nodes of the list that pass the filter.  The
\* replicas on a node never need more CPU than the node has free, are at most
\* four, and are alone on it when the workload asks for anti-affinity: the loop
\* of Plan counts per node, and the count and maxPerNode agree.
PerNodeFits ==
  \A d \in decision :
     /\ \A i \in DOMAIN d.placements : \E n \in Fitting : d.placements[i] = n.id
     /\ \A n \in Fitting : Load(d, n) <= Room(n)

\* Plan leaves a replica out only when no node has room for it: it places no
\* more than the replicas, and fewer only when every node that passes the filter
\* is full; and Unscheduled is set exactly when a replica is left out or no node
\* passes the filter.
PlacesAllItCan ==
  \A d \in decision :
     /\ Len(d.placements) <= workload.replicas
     /\ Len(d.placements) < workload.replicas => \A n \in Fitting : Load(d, n) = Room(n)
     /\ d.unscheduled <=> (Fitting = {} \/ Len(d.placements) < workload.replicas)

\* Least allocated wins: a node gets a replica only when every node with a
\* larger share of free resources, and among equals every earlier one in the
\* list (sort.SliceStable), has got one too or has room for none.
BestNodesFirst ==
  \A d \in decision : \A i, j \in DOMAIN nodes :
     (/\ {nodes[i], nodes[j]} \subseteq Fitting
      /\ Load(d, nodes[j]) > 0
      /\ Better(nodes[i], nodes[j]) \/ (i < j /\ ~Better(nodes[j], nodes[i])))
     => (Room(nodes[i]) > 0 => Load(d, nodes[i]) > 0)
==============================================================================
