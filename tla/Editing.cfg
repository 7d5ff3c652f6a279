\* Two sessions edited and saved at any time; one of two sessions guarded, two concurrent calls.
SPECIFICATION SettingSpec
CONSTANTS
    Session = {"itemSession", "zoneSession"}
    Path = {"items", "zones", "labels", "stamp"}
    Value = {"x", "y"}
    First = "first"
    Tracked <- Layout
    Target <- AnswerInStamp
    Stamped = "stamped"
    Changes <- LayoutChanges
    GuardedChanges <- OneChange
    MaxHistory = 2
    Unsavable = {}
    Marking = {"zoneSession"}
    Lossy = {"zoneSession"}
    MaxRevision <- Revisions
    MaxSaves <- Saves
    Screen = {"list"}
    Home = "editor"
    Guarded <- Items
    SessionList <- Both
    Caller = {"c1", "c2"}
    MaxHops = 3
INVARIANTS UndoSound SavedMeansStored
PROPERTIES EditsOutliveSaves GuardKeepsEdits GuardedEnd
CHECK_DEADLOCK FALSE
