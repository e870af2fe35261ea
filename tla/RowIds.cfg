SPECIFICATION Spec
CONSTANTS
  IdSpace = 32
  Flag = 16
  PageSlots = 4
  MaxPages = 4
  MaxRows = 3
INVARIANTS
  LiveRowsFound
  DeletedStaysDeleted
CHECK_DEADLOCK FALSE
