CONSTANTS
  Nodes = {a, b}
  Nil = Nil
  TTL = 3
  Start = {"empty", "held"}
  MaxTime = 4
  MaxTerm = 4
  MaxOthers = 1
SPECIFICATION Spec
SYMMETRY Symmetry
INVARIANT VersionFences
PROPERTY SwapsRespectLease
