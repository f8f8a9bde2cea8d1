CONSTANTS
  Clients = {c1, c2}
  Keys = {k1}
  Values = {v1}
  Nil = Nil
  Self = n1
  CfgPeers = {}
  PeerIDs = {}
  Bootstrap = TRUE
  Ops = {"put", "del", "cas"}
  SnapEvery = 2
  MaxOps = 3
  MaxTerm = 1
  MaxCrashes = 1
  MaxFaults = 1
  MaxCloses = 1
SPECIFICATION Spec
SYMMETRY Symmetry
INVARIANT WriteAhead
INVARIANT RevisionBound
INVARIANT RepliesCovered
\* Clients may stop calling and a crashed node may stay down.
CHECK_DEADLOCK FALSE
