SPECIFICATION Spec
CONSTANTS
  narrow = narrow
  broad = broad
  wide = wide
  Session = {s1}
  Val <- MCVal
  Width <- MCWidth
  PageCapacity = 4
  PageSlots = 4
  Statement <- MCStatement
  MaxPages = 3
  MaxTag = 4
INVARIANTS
  SelectExact
  StatementEffect
  BystandersSafe
PROPERTIES
  ImplementsHeap
