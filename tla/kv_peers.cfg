CONSTANTS
  Clients = {c1, c2}
  Keys = {k1}
  Values = {v1}
  Nil = Nil
  Self = n1
  CfgPeers = {n2}
  PeerIDs = {n1, n2, n3}
  Bootstrap = TRUE
  Ops = {"put"}
  SnapEvery = 2
  MaxOps = 2
  MaxTerm = 1
  MaxCrashes = 1
  MaxFaults = 0
  MaxCloses = 0
SPECIFICATION FairSpec
INVARIANT OwnAckFits
PROPERTY CallsReturn
\* Clients may stop calling and a crashed node may stay down.
CHECK_DEADLOCK FALSE
