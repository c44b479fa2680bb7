SPECIFICATION FairSpec
CONSTANTS
  m1 = m1
  m2 = m2
  Models = {m1, m2}
  Prompts <- MCSmallPrompt
  Tools <- MCTools
  Definitions <- MCDefinitions
  UserSizes <- MCUsers
  ReplySizes <- MCReplies
  Envelope = 4
  Env = 9
  Default = 7
  Restored <- MCRestored
  Usage = FALSE
  Accurate = TRUE
  Forks = FALSE
  BusyCommands = FALSE
  RewindBelow = FALSE
  MaxMessages = 6
  MaxMarks = 2
INVARIANTS TypeOK CostsSound
PROPERTIES PruneExact PruneTerminates
