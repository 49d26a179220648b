SPECIFICATION Spec

CONSTANTS
  i1 = i1
  i2 = i2
  t1 = t1
  t2 = t2
  Configs = {c1, c2}
  Inputs = {i1, i2}
  Texts = {t1, t2}
  Text <- OwnText
  Similar <- SomeSimilar
  MaxRequests = 4
  MaxEntries = 2
  MaxRestarts = 1
  None = None
  OnDisk = TRUE
  MayFail = TRUE
  DiskMayFail = FALSE
  MayClear = FALSE

INVARIANT TypeOK
INVARIANT IndexMatchesEntries
INVARIANT RightAnswer
INVARIANT CallsAreShared
CHECK_DEADLOCK FALSE
