SPECIFICATION Spec
CONSTANTS
  Names = {a, b}
  Cores = {0, 1}
  NoTask = NoTask
  Deadline <- OneTick
  InterArrival <- TwoTicks
  Goals = {"FAIRNESS", "UTILIZATION"}
  Finite = {}
  Residents <- OneResident
  ExecTimes = {4}
  WildArrival = 0
  StackWords = {}
  Lag = 1
  SetupTime = 0
  MaxTime = 4
  MaxJobs = 2
  MaxKills = 1
  MaxDrops = 1
INVARIANTS
  SomeoneMayRun
  NewestJobIsOwn
PROPERTIES
  JobsForward
  EndedRemembered
SYMMETRY NameSymmetry
CHECK_DEADLOCK FALSE
