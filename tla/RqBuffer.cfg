SPECIFICATION FairSpec
CONSTANTS
  Producers = {ctrl}
  Consumers = {c1, c2}
  Elements = {t1, t2}
  None = None
  BufSize = 2
INVARIANTS
  TypeOK
  MutualExclusion
  WindowAgrees
PROPERTIES
  QueuedKept
  ImplementsFifo
  LockReleased
