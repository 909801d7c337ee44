SPECIFICATION Spec
CONSTANTS
  Names = {a, b, c}
  Cores = {0}
  NoTask = NoTask
  Deadline <- OneTick
  InterArrival <- OneTick
  Goals = {"FAIRNESS", "UTILIZATION"}
  Finite = {}
  Residents <- NoResident
  ExecTimes = {0}
  WildArrival = 0
  StackWords = {2}
  Lag = 0
  SetupTime = 0
  MaxTime = 3
  MaxJobs = 4
  MaxKills = 0
  MaxDrops = 0
INVARIANTS
  RelatedPartition
  MaxValueExact
  SomeoneMayRun
PROPERTY
  ImplementsGroups
SYMMETRY NameSymmetry
CHECK_DEADLOCK FALSE
