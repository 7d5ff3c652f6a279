\* Three calls of the store on one document, two clients of an endpoint, two specs, a few columns, a few documents, three saves of a spec.
SPECIFICATION PieceSpec
CONSTANTS
    Caller = {c1, c2, c3}
    Id = {a}
    Conn = {k1, k2}
    Dialects <- AllDialects
    SqliteShared = FALSE
    Faults = {"statement", "commit", "answer"}
    None = None
    Closed = Closed
    Untouched = Untouched
    Client = {"alice", "root"}
    MaxId = 2
    Plant = {"north", "south"}
    Note = {"x"}
    User <- TwoUsers
    Guarded = TRUE
    Scoped = TRUE
    BypassRoles = {"admin"}
    PolicyRoles = {"admin", "clerk"}
    Insertable = {"id", "plant"}
    Updatable = {"plant", "note"}
    PageSizes = {1, 5}
    MaxPageSize = 2
    Totals = {TRUE}
    Databases = {"postgres", "mysql"}
    Null = Null
    NoUser = NoUser
    ScreenId = {home, login}
    Absent = Absent
    Pieces = {"store", "api", "serving", "built", "checks", "versions", "contract"}
    Saver = {1, 2, 3}
    Overlapping = {"supabase"}
    Losses = 1
    Interval = 4
    NoDoc = NoDoc
    Shown = {"7"}
    MaxAnswers = 1
INVARIANTS ConnectionsReturned AnswersTrue StatementsBindRight VersionsSound VerdictsSound
PROPERTIES WritesWhole StoreCallsEnd
CHECK_DEADLOCK FALSE
