CONSTANTS
  Clients = {c1}
  Keys = {k1}
  Values = {v1}
  Nil = Nil
  Self = n1
  CfgPeers = {}
  PeerIDs = {}
  Bootstrap = TRUE
  Ops = {"put"}
  SnapEvery = 2
  MaxOps = 3
  MaxTerm = 1
  MaxCrashes = 1
  MaxFaults = 0
  MaxCloses = 0
SPECIFICATION Spec
INVARIANT AckedSurvive
\* Clients may stop calling and a crashed node may stay down.
CHECK_DEADLOCK FALSE
