SPECIFICATION FairSpec
CONSTANTS
  Client = {c1, c2, c3}
  Worker = {w1}
  MaxClients = 2
  CacheSize = 2
  PacketBytes = {1}
  Answers = {1}
  MaxCommands = 1
INVARIANTS
  ClientsCounted
PROPERTIES
  AllAnswered
  LeaverFreed
CHECK_DEADLOCK FALSE
