SPECIFICATION Spec
CONSTANTS
  Names = {a, b}
  Cores = {0}
  NoTask = NoTask
  Deadline <- OneTick
  InterArrival <- OneTick
  Goals = {}
  Finite = {a, b}
  Residents <- NoResident
  ExecTimes = {0}
  WildArrival = 0
  StackWords = {}
  Lag = 0
  SetupTime = 0
  MaxTime = 4
  MaxJobs = 4
  MaxKills = 0
  MaxDrops = 0
INVARIANTS
  TypeOK
  RelatedPartition
  CompetitorsRelated
  MaxValueExact
  NewestJobIsOwn
PROPERTIES
  ImplementsGroups
  EndedRemembered
SYMMETRY NameSymmetry
CHECK_DEADLOCK FALSE
