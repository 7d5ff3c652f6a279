\* Two processes, one of which may write without --author, either of which may die at any point; saves, patches, rollbacks
\* and loads interleave statement by statement.
SPECIFICATION Spec
CONSTANTS
    c1 = c1  c2 = c2  p1 = p1  p2 = p2  v1 = v1  v2 = v2
    Place = {p1, p2}
    Value = {v1, v2}
    NoDoc = NoDoc
    Client = {c1, c2}
    Unversioned = {c2}
    Crashing = {c1, c2}
    SnapshotInterval = 4
    PushedDoc <- MCTwoPushed
    Edit <- MCOneEdit
    FirstSpec <- MCInitial
    MaxCommands = 3
INVARIANTS TypeOK HistorySound ReadsFaithful
PROPERTIES SavedHistory
CHECK_DEADLOCK FALSE
