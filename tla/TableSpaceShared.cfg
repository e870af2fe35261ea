SPECIFICATION FairSpec
CONSTANTS
  narrow = narrow
  broad = broad
  wide = wide
  Session = {s1, s2}
  Val <- MCVal
  Width <- MCWidth
  PageCapacity = 4
  PageSlots = 4
  Statement <- MCShared
  MaxPages = 2
  MaxTag = 2
INVARIANTS
  NoHoles
  NoRowReturnedTwice
PROPERTIES
  ScanEnds
