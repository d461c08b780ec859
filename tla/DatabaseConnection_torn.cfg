CONSTANTS
  t1 = t1
  t2 = t2
  empty = empty
  single = single
  Operations <- MCOperations
  Autocommit <- MCAutocommit
  NumStatements <- MCNumStatements
  Faults = {"lost"}
  MaxFaults = 1
CHECK_DEADLOCK FALSE
SPECIFICATION FairSpec
INVARIANT TransactionsAtomic
