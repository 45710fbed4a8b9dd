SPECIFICATION FairSpec
CONSTANTS
  c1 = c1
  c2 = c2
  c3 = c3
  SecPerMin = 2
  MinPerDay = 2
  StartDay = 6
  Commands = {c1, c2, c3}
  Documents <- SmallDocuments
  Missing = Missing
  Broken = Broken
  Editors = {"replace"}
  Horizon = 3
  MaxEdits = 2
  MaxUpsets = 1
CHECK_DEADLOCK FALSE
PROPERTIES
  StableFileIsInForce
