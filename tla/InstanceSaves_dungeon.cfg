CONSTANTS
  p1 = p1
  p2 = p2
  Players = {p1, p2}
  Normal = Normal
  Heroic = Heroic
  IdWidth = 2
  MaxId = 2
  MaxEvents = 2
  MaxQueue = 1
  MaxResets = 2
  NoId = NoId
  NoBind = NoBind
SYMMETRY Symmetry
SPECIFICATION Spec
INVARIANTS BindsMatch SoloIsSolo RowsMatch
