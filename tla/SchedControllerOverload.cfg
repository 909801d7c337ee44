SPECIFICATION Spec
CONSTANTS
  a = a
  b = b
  Tasks <- LateKinds
  Lists <- ShortLists
  Cores = {0, 1}
  NumRings = 1
  MonCores = 1
  BufSize = 3
  Mapped = 2
  Blank = Blank
  Hyper = 8
INVARIANT
  SufficientSound
VIEW Seen
CHECK_DEADLOCK FALSE
