SPECIFICATION Spec
CONSTANTS
  DbName = {d1, d2}
  TableName = {t1, t2}
  Refused = {t2}
  Lists <- MCLists
  MaxSerial = 4
INVARIANTS
  NamesAndIdsUnique
  NothingInherited
  AnswersKept
