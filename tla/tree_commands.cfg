SPECIFICATION Spec
CONSTANTS
    a0 = a0
    a1 = a1
    a2 = a2
    a3 = a3
    a4 = a4
    NoAgent = NoAgent
    Agents = {a0, a1, a2, a3, a4}
    Root = a0
    Calls = {}
    Interrupts = FALSE
    DbFails = FALSE
    ForkDead = FALSE
SYMMETRY Symmetry
INVARIANT CommandsExact
