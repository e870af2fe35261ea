SPECIFICATION Spec
CONSTANTS
  Columns <- MCColumns
  Types <- MCTypes
  Times <- MCTimes
  GlobalDatabase = "db"
  Statements <- MCStatements
  Databases <- MCDatabases
INVARIANTS
  RowsExact
  SubqueriesExact
  OrderedAnswers
  RefusedRight
  ColumnsSupplied
  ParsesBack
PROPERTY ChangesExact
\* a statement that is answered or refused is done
CHECK_DEADLOCK FALSE
