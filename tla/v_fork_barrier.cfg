SPECIFICATION FairSpec
CONSTANTS
    a1 = a1
    a2 = a2
    Agents = {a1, a2}
    Root = a1
    MaxToolTurns = 1
    Replies <- PlainReplies
    BusyInput = {"fork"}
    UseWait = FALSE
PROPERTY ForkBarrierReturns
