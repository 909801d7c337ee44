SPECIFICATION AllocSpec
CONSTANTS
  a = a
  Tasks <- OneTask
  Lists = {}
  Cores = {0, 1}
  NumRings = 2
  MonCores = 2
  BufSize = 5
  Mapped = 2
  Blank = Blank
  Hyper = 8
  NumRqs = 3
  WildQueues <- Garbage
  Deadlined <- ByDeadline
  Interval = 2
  MaxSleep = 4
  Clients = {c1, c2}
INVARIANTS
  AllocTypeOK
  IdlePreferred
  WordsInStep
SYMMETRY ClientSymmetry
VIEW AllSeen
CHECK_DEADLOCK FALSE
