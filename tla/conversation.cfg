CONSTANTS
    NULL = NULL
    MaxAgents = 3
    MaxBoots = 2
    Wires <- MCWires
    Efforts <- MCEfforts
    Arguments = {"json", ""}
    Documents = {"prompt.md", "a.md"}
    Prompt = "prompt.md"
    Registry <- MCRegistry
    Toolsets <- MCToolsets
    Scenarios <- MCScenarios
SPECIFICATION Spec
INVARIANTS
    RestoreMatches
    SettingsRestored
    WireCarriesConversation
    RequestWellFormed
CHECK_DEADLOCK FALSE
