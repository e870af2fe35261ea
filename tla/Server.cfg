SPECIFICATION Spec
CONSTANTS
  Client = {c1, c2}
  Worker = {w1, w2}
  MaxClients = 2
  CacheSize = 2
  PacketBytes = {1, 2}
  Answers = {3}
  MaxCommands = 2
SYMMETRY Symmetry
INVARIANTS
  AnswerIntact
  PlanKeepsHandle
  FreedForLeaversOnly
CHECK_DEADLOCK FALSE
