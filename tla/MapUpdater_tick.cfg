CONSTANTS
  continent = continent
  dungeon = dungeon
  i1 = i1
  i2 = i2
  Null = Null
  BaseMaps <- MCBaseMaps
  Instanced <- MCInstanced
  Instances <- MCInstances
  InstanceOf <- MCInstanceOf
  Workers = {w1, w2}
  Criteria = {p1}
  MaxTicks = 2
CHECK_DEADLOCK FALSE
SPECIFICATION FairSpec
INVARIANTS PendingExact Barrier Exclusive NoDeletedMap
PROPERTY WaitsEnd
