CONSTANTS
  p1 = p1
  p2 = p2
  p3 = p3
  gm = gm
  s1 = s1
  s1b = s1b
  s2 = s2
  s3 = s3
  g = g
  NoSession = NoSession
  Accounts = {p1, p2, p3, gm}
  Sessions = {s1, s1b, s2, s3, g}
  AccountOf <- MCAccountOf
  Staff = {g}
  Premium = {s2}
  RateOnline = 1
  Settings <- MCSettings
SPECIFICATION FairSpec
INVARIANTS NoDangling FlagMeansQueued PlayersWithinLimit NoIdleSlot
PROPERTIES AdmittedInOrder ClosedIsRemoved
