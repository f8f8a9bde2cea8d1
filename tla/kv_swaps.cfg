CONSTANTS
  Clients = {c1, c2}
  Keys = {k1}
  Values = {v1, v2}
  Nil = Nil
  Self = n1
  CfgPeers = {}
  PeerIDs = {}
  Bootstrap = TRUE
  Ops = {"cas"}
  SnapEvery = 256
  MaxOps = 3
  MaxTerm = 1
  MaxCrashes = 0
  MaxFaults = 0
  MaxCloses = 0
SPECIFICATION Spec
PROPERTY SwapsAtomic
\* Clients may stop calling.
CHECK_DEADLOCK FALSE
