\* The parts of the screen, each a behaviour of its own: the tree of three levels, the shell with three
\* screens, three files, one item and zone, a form of two fields, tables, values, animations and actions.
SPECIFICATION ScreenSpec
CONSTANTS
    Elements <- TreeElements
    Root = "root"
    Leaf <- TreeLeaf
    Values <- TreeValues
    Written <- TreeWritten
    DeviceLeaf = {}
    SpecEdits = 1
    Parts = {"tree", "shell", "upload", "editor", "gesture", "form", "table", "value", "motion", "actions"}
    Screen = {"login", "home", "form"}
    InitialScreen = "home"
    LoginScreen = "login"
    Menu <- ShellMenu
    Protected <- AllScreens
    RoleAccess <- ShellRoles
    ScreenRoles <- OpenScreens
    Policy <- ShellPolicy
    Parent <- ShellParent
    User <- ShellUsers
    BreadcrumbMode = "history"
    MaxHistory = 4
    MaxLoads = 2
    MaxTokens = 2
    Patient = TRUE
    File = {"a", "b", "big"}
    MaxSize = 9
    GlobalMax = 2
    MaxRuns = 3
    Unit = 10
    Grain = 1
    Step = 10
    ScaleStep = 1
    MaxEdits = 2
    MaxRequests = 1
    MaxEngines = 2
    MaxAnswers = 1
    MaxWrites = 4
    EveryExpression = FALSE
    MaxPresses = 2
    MaxToasts = 2
    MaxVisible = 2
    PerWindow = 2
INVARIANTS TreeCurrent AppShown InputsTrue GeometrySound ValuesTrue MotionSound ActionsSound
PROPERTIES EveryUploadEnds StepsSound
CHECK_DEADLOCK FALSE
