SPECIFICATION MCSpec
CONSTANTS
  Capacity = 5
  Block = 3
  PacketSize = {1, 2, 3}
  MaxWritten = 12
  CacheSize = 13
  ReadBlock = 5
  CommandSize = {1, 3, 5}
  MaxSent = 3
  SeqLimit = 4
  Answers <- MCAnswers
INVARIANTS
  FifoInOrder
  CommandsWhole
  AnswersRead
PROPERTIES
  ImplementsFifo
  AllSent
CHECK_DEADLOCK FALSE
