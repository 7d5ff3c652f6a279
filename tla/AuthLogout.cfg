\* A logout while a refresh is in flight.
SPECIFICATION FairSpec
CONSTANTS
    Engine = {"tab1", "tab2"}
    Account = {"ann"}
    MaxIssued = 3
    MaxCalls = 2
    MaxFaults = 1

PROPERTIES LogoutLasts
CHECK_DEADLOCK FALSE
