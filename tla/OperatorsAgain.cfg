SPECIFICATION Spec
CONSTANTS
  Row <- MCRow
  Buckets = 2
  RowHash <- MCRowHash
  KeyHash <- MCKeyHash
  Plan <- MCPlan
INVARIANTS
  RowsAgain
CHECK_DEADLOCK FALSE
