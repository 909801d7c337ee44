SPECIFICATION Spec
CONSTANTS
  Names = {a, b}
  Cores = {0}
  NoTask = NoTask
  Deadline <- OneTick
  InterArrival <- OneTick
  Goals = {"FAIRNESS"}
  Finite = {a, b}
  Residents <- NoResident
  ExecTimes = {0}
  WildArrival = 0
  StackWords = {}
  Lag = 0
  SetupTime = 0
  MaxTime = 4
  MaxJobs = 2
  MaxKills = 0
  MaxDrops = 0
INVARIANT
  DeniedForAReason
SYMMETRY NameSymmetry
CHECK_DEADLOCK FALSE
