SPECIFICATION Spec
CONSTANTS
  Row <- MCRow
  Buckets = 2
  RowHash <- MCRowHash
  KeyHash <- MCKeyHash
  Plan <- MCPlan
INVARIANTS
  JoinsExact
  SetsExact
  GroupsExact
  PassesExact
CHECK_DEADLOCK FALSE
