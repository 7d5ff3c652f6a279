\* Two tabs, one account, two calls, one fault of the server or the network.
SPECIFICATION FairSpec
CONSTANTS
    Engine = {"tab1", "tab2"}
    Account = {"ann"}
    MaxIssued = 3
    MaxCalls = 2
    MaxFaults = 1
INVARIANTS SessionConsistent LoneSessionLasts
PROPERTIES CallsSettle
CHECK_DEADLOCK FALSE
