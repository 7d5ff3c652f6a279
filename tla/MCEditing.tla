----------------------------- MODULE MCEditing -----------------------------
(***************************************************************************)
(* Editing in two settings.  In "sessions" two editor sessions of a floor  *)
(* layout are on a screen that is not left by navigation: one tracks the   *)
(* items and zones, the other the labels, and answers are written to a     *)
(* stamp.  In "guarded" the app engine navigates away from them; the first *)
(* session is guarded, and the second cannot be saved.                     *)
(***************************************************************************)
EXTENDS NavigationGuard, TLC

CONSTANT GuardedChanges   \* the lists of changes that commits are given on the guarded screen
VARIABLE setting

Change(path, value) == [path |-> path, value |-> value]
Layout == [s \in Session |-> IF s = "itemSession" THEN {"items", "zones"} ELSE {"labels"}]
AnswerInStamp == [s \in Session |-> "stamp"]
AnswerInItems == [s \in Session |-> "items"]
NoAnswer == [s \in Session |-> NoTarget]

\* Two paths at once, one path twice, and an edit of the other session.
LayoutChanges ==
    {<<Change("items", "y"), Change("zones", "x")>>, <<Change("items", "x"), Change("items", "y")>>,
     <<Change("labels", "x")>>}
OneChange == {<<Change("items", "x")>>, <<Change("items", "y")>>}
TwoChanges == {<<Change("items", "x")>>, <<Change("labels", "x")>>}

Items == <<"itemSession">>
Both == <<"itemSession", "zoneSession">>
Revisions == [s \in Session |-> IF s = "itemSession" THEN 3 ELSE 1]
Saves == [s \in Session |-> IF s = "itemSession" THEN 2 ELSE 1]

Edited(s) == \E changes \in GuardedChanges : changes[1].path \in Tracked[s]
Left == INSTANCE NavigationGuard
          WITH Target <- NoAnswer, Changes <- GuardedChanges, Unsavable <- {"zoneSession"}, Marking <- {},
               Lossy <- {}, MaxRevision <- [s \in Session |-> IF Edited(s) THEN 2 ELSE 0],
               MaxSaves <- [s \in Session |-> 2]

settingVars == <<allVars, setting>>

SettingInit ==
    /\ setting \in {"sessions", "guarded"}
    /\ GuardInit

SettingNext ==
    /\ \/ setting = "sessions" /\ Next /\ UNCHANGED guardVars
       \/ setting = "guarded" /\ Left!GuardNext
    /\ UNCHANGED setting

\* NavigationGuard!FairGuardSpec in its setting.
SettingSpec ==
    /\ SettingInit /\ [][SettingNext]_settingVars
    /\ \A c \in Caller : WF_settingVars(setting = "guarded" /\ Left!SaveAndProceed(c) /\ UNCHANGED setting)
    /\ \A s \in Session :
         WF_settingVars(setting = "guarded" /\ (Left!Saved(s) \/ Left!SaveFailed(s)) /\ UNCHANGED <<guardVars, setting>>)

\* Every save is answered and every call of save and proceed ends.
GuardedEnd ==
    /\ \A s \in Session : setting = "guarded" /\ sending[s] # NoSave ~> sending[s] = NoSave
    /\ \A c \in Caller : setting = "guarded" /\ call[c].pc = "next" ~> call[c].pc = "ended"
=============================================================================
