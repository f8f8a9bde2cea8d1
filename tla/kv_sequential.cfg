CONSTANTS
  Clients = {c1}
  Keys = {k1, k2}
  Values = {v1, v2}
  Nil = Nil
  Self = n1
  CfgPeers = {}
  PeerIDs = {}
  Bootstrap = FALSE
  Ops = {"put", "del", "cas"}
  SnapEvery = 100
  MaxOps = 3
  MaxTerm = 2
  MaxCrashes = 2
  MaxFaults = 0
  MaxCloses = 0
SPECIFICATION Spec
INVARIANT AckedSurvive
PROPERTY ImplementsAtomicKV
\* Clients may stop calling and a crashed node may stay down.
CHECK_DEADLOCK FALSE
