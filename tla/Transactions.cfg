\* Timeouts with late answers, actions that throw in every phase, and a throwing
\* action and a request outside.
SPECIFICATION SceneSpec
CONSTANTS
    Tx = {"a", "b", "c"}
    Config <- MixedConfigs
    Event = {"e"}
    Actions <- OutsideMixed
    Slow = {"a"}
    Cell <- AllCells
INVARIANTS InTurn Settled OutcomeIsOwn
PROPERTIES MixedEnd
CHECK_DEADLOCK FALSE
