\* Two inputs, two derived values and one data source, two requests in flight at most.
SPECIFICATION FairSpec
CONSTANTS
    Input <- TwoInputs
    Datum = {"x"}
    Derives <- TwoDerives
    DepChoices <- Exact
    Sort <- TopologicalSort
    Sources <- OnlyRows
    Config <- OneSource
INVARIANTS DerivedFresh SettledAnswer
PROPERTIES RuntimeSettles
CHECK_DEADLOCK FALSE
