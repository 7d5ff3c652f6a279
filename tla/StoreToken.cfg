\* The shell alone: a login, then a refresh of the access token.
SPECIFICATION ScreenSpec
CONSTANTS
    Elements <- TreeElements
    Root = "root"
    Leaf <- TreeLeaf
    Values <- TreeValues
    Written <- TreeWritten
    DeviceLeaf = {}
    SpecEdits = 1
    Parts = {"shell"}
    Screen = {"login", "home", "form"}
    InitialScreen = "home"
    LoginScreen = "login"
    Menu <- ShellMenu
    Protected <- AllScreens
    RoleAccess <- ShellRoles
    ScreenRoles <- OpenScreens
    Policy <- ShellPolicy
    Parent <- ShellParent
    User <- ShellUsers
    BreadcrumbMode = "history"
    MaxHistory = 4
    MaxLoads = 2
    MaxTokens = 2
    Patient = TRUE
    File = {"a", "b", "big"}
    MaxSize = 9
    GlobalMax = 2
    MaxRuns = 3
    Unit = 10
    Grain = 1
    Step = 10
    ScaleStep = 1
    MaxEdits = 2
    MaxRequests = 1
    MaxEngines = 2
    MaxAnswers = 1
    MaxWrites = 4
    EveryExpression = FALSE
    MaxPresses = 2
    MaxToasts = 2
    MaxVisible = 2
    PerWindow = 2
INVARIANTS StoreTokenFollows
CHECK_DEADLOCK FALSE
