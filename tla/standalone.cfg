SPECIFICATION Spec
\* Calls return, and nothing has to follow them.
CHECK_DEADLOCK FALSE
CONSTANTS
  NodeLists <- MCNodeLists
  Asked <- MCAsked
  MaxNodes = 3
  MaxReplicas = 6
  MaxUnits = 5
  DefaultAttempts = 3
  DefaultBase = 8
  DefaultCap = 20
  MaxDuration = 63
  Arguments <- MCArguments
  RingSizes = {0, 1, 3}
  DefaultRing = 2
  MaxRecords = 7
  Buckets <- MCBuckets
  Values = {0, 1, 2, 4}
  Adders = {1, 2}
  Names = {"echo"}
  Prompts = {"p"}
  Requests <- MCRequests
  Words <- MCWords
  DefaultTokens = 3
  MostTokens = 3
  ChanCap = 1
  MaxTime = 2
  MaxEvals = 3
  NotJSON = NotJSON
  MaxSamples = 3
  Workloads = {w1, w2}
  MaxNodeFaults = 1
INVARIANTS
  PerNodeFits
  PlacesAllItCan
  BestNodesFirst
  RetryBacksOff
  TailIsNewest
  AlertsExact
  
  EnvLastWins
  ZoneAnswers
  StreamIsChat
PROPERTIES
  StreamEnds
  ServerStops
  SweepIsExact
  AgentCleansUp
