--------------------------- MODULE MCSqlCommands ---------------------------
(***************************************************************************)
(* Commands in three settings: in "lone" one process works alone, always   *)
(* names an author and may die; in "authored" two processes that always    *)
(* name one work at once and may die; in "crowd" one of two processes dies *)
(* and the other may also write without --author.                          *)
(***************************************************************************)
EXTENDS MCSqlVersionedStore

VARIABLE setting

Crowd == INSTANCE SqlVersionedStore

Lone == INSTANCE SqlVersionedStoreProofs
          WITH Client <- {c1}, Unversioned <- {}, Crashing <- {c1}, SnapshotInterval <- 3, PushedDoc <- MCPushed,
               Edit <- MCOneEdit, FirstSpec <- MCInitial, MaxCommands <- 3

Authored == INSTANCE SqlVersionedStoreProofs
          WITH Unversioned <- {}, Crashing <- {c1, c2}, SnapshotInterval <- 4,
               FirstSpec <- MCInitial

settingVars == <<vars, setting>>

SettingInit ==
    \/ setting = "lone" /\ Lone!Init
    \/ setting = "authored" /\ Authored!Init
    \/ setting = "crowd" /\ Crowd!Init

SettingNext ==
    /\ \/ setting = "lone" /\ Lone!Next
       \/ setting = "authored" /\ Authored!Next
       \/ setting = "crowd" /\ Crowd!Next
    /\ UNCHANGED setting

\* A database that answers.
SettingSpec ==
    /\ SettingInit /\ [][SettingNext]_settingVars
    /\ WF_settingVars(setting = "lone" /\ Lone!Step(c1) /\ UNCHANGED setting)
    /\ \A c \in Client : WF_settingVars(setting = "crowd" /\ Step(c) /\ UNCHANGED setting)

\* With every writer naming an author, at every moment: the current spec is the newest
\* version whose save has come to writing it, unless that version came in while another
\* save was between its version and the current spec (SqlVersionedStore!CurrentSpecIsLatest);
\* and for one process at a time, dying and going on, a patch creates a version that is what
\* was served with the user's patches applied (PatchBuildsOnLatest), across the interval at
\* which a snapshot is stored instead of patches.
LatestServed ==
    /\ setting = "lone" => Lone!CurrentSpecIsLatest /\ Lone!PatchBuildsOnLatest
    /\ setting = "authored" => Authored!CurrentSpecIsLatest

\* Processes that all name an author, in any interleaving and wherever one dies: the
\* current spec is the initial one or a version, and the initial one is version 1 unless
\* the call that made version 1 had failed to read it (SqlVersionedStore!CurrentSpecBacked).
NothingUnrecorded == setting = "authored" => Authored!CurrentSpecBacked

\* A command that has started ends, in the settings with a database that answers.
Busy(c) == c \in DOMAIN call /\ ~At(c, "idle")
CommandsEnd == setting # "authored" => \A c \in Client : Busy(c) ~> ~Busy(c)
=============================================================================
