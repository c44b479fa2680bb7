SPECIFICATION Spec
CONSTANTS
  m1 = m1
  m2 = m2
  Models = {m1, m2}
  Prompts <- MCTwoPrompts
  Tools <- MCTools
  Definitions <- MCDefinitions
  UserSizes <- MCUsers
  ReplySizes <- MCReplies
  Envelope = 4
  Env = 7
  Default = 7
  Restored <- MCRestored
  Usage = TRUE
  Accurate = FALSE
  Forks = TRUE
  BusyCommands = TRUE
  RewindBelow = TRUE
  MaxMessages = 4
  MaxMarks = 1
INVARIANTS WindowWhole TotalIsSum
PROPERTIES CacheSound
CHECK_DEADLOCK FALSE
