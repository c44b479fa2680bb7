SPECIFICATION Spec
CONSTANTS
    a1 = a1
    a2 = a2
    Agents = {a1, a2}
    Root = a1
    MaxToolTurns = 2
    Replies <- ForkReplies
    BusyInput = {"line", "fork"}
    UseWait = TRUE
INVARIANT TypeOK
PROPERTY NoAssertFails
PROPERTY TurnCoherent
INVARIANT NothingLeftOver
INVARIANT IdleColumnTruthful
PROPERTY InterruptStopsWork
PROPERTY TurnPromise
