\* One client alone, two that name an author and die, two of which one names none.
SPECIFICATION SettingSpec
CONSTANTS
    c1 = c1  c2 = c2  p1 = p1  p2 = p2  v1 = v1  v2 = v2
    Place = {p1, p2}
    Value = {v1, v2}
    NoDoc = NoDoc
    Client = {c1, c2}
    Unversioned = {c2}
    Crashing = {c1}
    SnapshotInterval = 3
    PushedDoc <- MCTwoPushed
    Edit <- MCOneEdit
    FirstSpec = NoDoc
    MaxCommands = 3
INVARIANTS LatestServed NothingUnrecorded
PROPERTIES CommandsEnd
CHECK_DEADLOCK FALSE
