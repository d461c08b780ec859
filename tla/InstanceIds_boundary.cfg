CONSTANTS
  t1 = t1
  t2 = t2
  Threads = {t1}
  Word = 2
  Unit = 4
  MaxId = 6
  MaxRow = 0
  NoThreadJob = NoThreadJob
SPECIFICATION Spec
INVARIANT NextIsAvailable
