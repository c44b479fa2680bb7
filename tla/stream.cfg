SPECIFICATION Spec
CONSTANTS
  Loads <- MCLoads
  Scripts <- MCScripts
  Statuses = {401, 404, 429, 500}
  Chunks = {1, 4, 11}
  MaxQueue = 1
  MaxTurns = 2
INVARIANTS ChunkingInvisible EventsWellFormed AnswerKept
CHECK_DEADLOCK FALSE
