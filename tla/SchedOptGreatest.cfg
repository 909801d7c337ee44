SPECIFICATION Spec
CONSTANTS
  Names = {a, b}
  Cores = {0}
  NoTask = NoTask
  Deadline <- OneTick
  InterArrival <- OneTick
  Goals = {"FAIRNESS"}
  Finite = {a, b}
  Residents <- NoResident
  ExecTimes = {0}
  WildArrival = 0
  StackWords = {}
  Lag = 0
  SetupTime = 0
  MaxTime = 4
  MaxJobs = 3
  MaxKills = 1
  MaxDrops = 0
INVARIANT
  GreatestAllowed
SYMMETRY NameSymmetry
CHECK_DEADLOCK FALSE
