SPECIFICATION Spec
CONSTANTS
  a = a
  b = b
  Tasks <- ThreeKinds
  Lists <- ShortLists
  Cores = {0, 1, 2}
  NumRings = 1
  MonCores = 2
  BufSize = 3
  Mapped = 2
  Blank = Blank
  Hyper = 8
INVARIANT
  WindowInRange
VIEW Seen
CHECK_DEADLOCK FALSE
