SPECIFICATION Spec
SYMMETRY Symmetry
CONSTANTS
    Agents = {a1, a2}
    a1 = a1
    a2 = a2
    Lines <- MCLines
    Texts <- MCTexts
    Sizes <- MCSizes
    MaxMenu = 2
    Sessions <- MCSessions
    MaxLines = 2
INVARIANTS
    LayoutCoherent
    FrameIsWindow
    CursorOnInput
CHECK_DEADLOCK FALSE
