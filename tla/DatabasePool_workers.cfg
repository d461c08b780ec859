CONSTANTS
  c1 = c1
  c2 = c2
  c3 = c3
  None = None
  Clients = {c1, c2, c3}
  Workers = 2
  Synch = 2
  Calls = 1
  HighWater = 2
  Wrap = 4
SPECIFICATION FairSpec
INVARIANTS OnePlace ConnectionExclusive NoUseAfterClose OvertakesRunningOnly
PROPERTY Shutdown
