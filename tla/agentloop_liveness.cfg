SPECIFICATION FairSpec
CONSTANTS
    a1 = a1
    a2 = a2
    Agents = {a1, a2}
    Root = a1
    MaxToolTurns = 2
    Replies <- PlainReplies
    BusyInput = {"line"}
    UseWait = FALSE
PROPERTY InterruptEndsTurn
PROPERTY QuitCompletes
PROPERTY TurnEnds
