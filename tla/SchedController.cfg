SPECIFICATION Spec
CONSTANTS
  a = a
  b = b
  Tasks <- ThreeKinds
  Lists <- ShortLists
  Cores = {0, 2}
  NumRings = 2
  MonCores = 1
  BufSize = 3
  Mapped = 2
  Blank = Blank
  Hyper = 8
INVARIANT
  TypeOK
  QueuedListed
  AcceptanceMeetsDeadlines
  RefusalJustified
  LowestExact
  WalkSafe
  CycleFresh
VIEW Seen
CHECK_DEADLOCK FALSE
