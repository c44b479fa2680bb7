SPECIFICATION Spec
CONSTANTS
    a0 = a0
    a1 = a1
    a2 = a2
    a3 = a3
    a4 = a4
    NoAgent = NoAgent
    Agents = {a0, a1, a2}
    Root = a0
    Calls = {"fork", "kill"}
    Interrupts = TRUE
    DbFails = TRUE
    ForkDead = TRUE
SYMMETRY Symmetry
INVARIANTS TypeOK ListSound RowsAgree
PROPERTY StatusForward
