SPECIFICATION StartupSpec
CONSTANTS
  p1 = p1
  p2 = p2
  p3 = p3
  i1 = i1
  Players = {p1, p2, p3}
  Items = {i1}
  Nobody = Nobody
  Nothing = Nothing
  StartMoney <- MCMoney
  StartOwner <- MCOwner
  MaxMoney = 4
  LongWord = 1000
  Word = 100
  GameMasters = {p2}
  Workers = 1
  MaxCrashes = 1
  Amounts = {0, 1}
  Postage = 1
  Prices = {0, 1, 3}
  Deposit = 1
  CutPercent = 50
  LogTrade = TRUE
  DueAtStart = TRUE
  Offers = {0, 1}
  Bounds <- MCBounds
  MaxAuctions = 1
INVARIANTS
  ItemsAccounted
