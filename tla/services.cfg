SPECIFICATION Spec
\* Callers and clients may stop calling.
CHECK_DEADLOCK FALSE
SYMMETRY Symmetry
CONSTANTS
  None = None
  MaxCalls = 4
  Procs = {p1, p2}
  MaxStops = 1
  Buckets = {"b"}
  Keys = {"k", "l"}
  Contents <- Payloads
  Ids = {"v", "w"}
  Nodes = {"n1", "n2"}
  Sizes = {1, 2}
  MaxWrites = 1
  Callers = {p1, p2}
  Images = {"i"}
  Torn = Torn
  MaxCreates = 2
  MaxExecs = 3
  Projects = {"p", "q"}
  Networks = {"n1", "n2"}
  Containers = {"hello-n1", "hello-n2", "web-0", "a-b-c-d"}
  ShortID <- Short
  Panics = Panics
  MaxLinkFaults = 1
  Clients = {p1, p2}
  Names = {"x"}
  TokenLife = 1
  MaxTime = 2
  MaxRequests = 2
INVARIANTS
  DigestMatches
  VolumeHasFile
  SnapshotIsCopy
  
  LinksFollowCalls
  ExecLogged
PROPERTIES
  OnlyAdminsWrite
