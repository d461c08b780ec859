CONSTANTS
  t1 = t1
  t2 = t2
  Threads = {t1, t2}
  Word = 4
  Unit = 8
  MaxId = 6
  MaxRow = 3
  NoThreadJob = NoThreadJob
SPECIFICATION Spec
INVARIANTS NextIsAvailable UsedIsMarked NextIsLowest
