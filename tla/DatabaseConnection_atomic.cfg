CONSTANTS
  t1 = t1
  t2 = t2
  empty = empty
  single = single
  Operations <- MCOperations
  Autocommit <- MCAutocommit
  NumStatements <- MCNumStatements
  Faults = {"idle_lost", "refused", "dropped", "deadlock", "duplicate", "schema"}
  MaxFaults = 3
CHECK_DEADLOCK FALSE
SPECIFICATION FairSpec
INVARIANTS TypeOK Atomic
PROPERTY ImplementsAtomicStore
