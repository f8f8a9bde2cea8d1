SPECIFICATION Spec
CONSTANTS
  n1 = n1
  n2 = n2
  Workloads = {w1}
  Controllers = {c1, c2}
  Nodes = {n1, n2}
  NodeOrder <- MCNodeOrder
  NodeCPU = 1
  Usage <- MCUsage
  WorkloadCPU = 1
  MaxReplicas = 1
  MostReplicas = 2
  Policies <- MCPolicies
  MaxFaults = 1
INVARIANTS
  TypeOK
PROPERTIES
  Converges
  ScaleKept
