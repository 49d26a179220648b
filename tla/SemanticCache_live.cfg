SPECIFICATION FairSpec

CONSTANTS
  i1 = i1
  i2 = i2
  t1 = t1
  t2 = t2
  Configs = {c1}
  Inputs = {i1, i2}
  Texts = {t1, t2}
  Text <- OwnText
  Similar <- SomeSimilar
  MaxRequests = 3
  MaxEntries = 2
  MaxRestarts = 2
  None = None
  OnDisk = TRUE
  MayFail = TRUE
  DiskMayFail = TRUE
  MayClear = TRUE

INVARIANT SizeBounded
INVARIANT DiskMirrorsMemory
PROPERTY EveryRequestEnds
CHECK_DEADLOCK FALSE
