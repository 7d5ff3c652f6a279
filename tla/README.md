# TLA+ models of Mythik

Mythik (`src/`) interprets JSON specs as applications.  This directory holds TLA+ modules for the
parts of it that carry its logic, the TLC configurations that check them, and TLAPS proofs about them.
`PROJECT.json` lists every component with what is modelled of it, maps every definition to the lines
it translates, and lists the hazards of the code, each with its line and the properties about it.

## 1. The system

| component | state it keeps | operations | hard because |
|---|---|---|---|
| versioned spec stores (`core/src/spec-stores`, `core/src/versioning`) | `screens` (current spec), `screen_versions` (snapshots and patches) | saveVersion, loadVersion, save, delete | every SQL statement commits alone; CLI processes share the database; a process dies between two statements |
| plain spec stores and SQL drivers (`spec-stores/sql.ts`, `sql/`) | pool, row per document | save, load, delete; upsert, transactions | any statement may fail; connections must come back |
| environments and promotion (`promote-gate.ts`, `promote`, `envs`) | spec and environment -> version | runPromoteGate, setEnvironment | the gate reads what others change; a batch moves pointer by pointer |
| spec checks and contract (`core/src/security`, `core/src/contract`) | none of their own | validate, fix, extract, match | a verdict is about documents that change meanwhile; two programs read the same spec |
| API server (`packages/server`) | public screens, refresh tokens | list, CRUD, specs, login | the statements of a request share no transaction |
| client auth (`core/src/auth`) | tokens in closures, persisted refresh token, timers, events between tabs | login, logout, refresh, mount | tabs share one rotating refresh token |
| state store, derived state, data sources (`core/src/state`, `derive`, `data`) | one JSON tree, listeners, timers, requests in flight | set, subscribe, mount, refresh | listeners set state inside a notification; answers come in any order |
| actions and transactions (`core/src/actions`) | chains under way, queue, rate window, snapshot | dispatch, execute | timeouts do not cancel what they stop waiting for; one error cell is shared |
| forms (`core/src/forms`) | flags of fields and forms | validate, reset, submit | flags must describe values that anybody writes |
| editor sessions (`core/src/editor-session`) | undo and redo stacks, saved snapshot | commit, undo, redo, save, discard | edits while a save is in flight |
| app engine and shell (`core/src/app`, `MythikApp`, screen outlet) | current screen, history, breadcrumb, pending navigation, spec cache | navigate, goBack, guard decisions, load | loads and saves await while the user goes on |
| renderer (`core/src/renderer`, `MythikRenderer`) | cache of resolved props, changed paths, tree | render all, render what changed | what is not drawn again must not have changed |
| expressions (`core/src/expressions`) | none | resolve, scan for dependencies | the scanner must find every path that the handlers read |
| primitives (table, spatial map, upload, animations) | component state, timers, drags | events, frames | handlers see the page as it was last rendered |

How they interact: the CLI commands call the store and the gate; the gate reads pointers and versions
and the command writes pointers.  The renderers wire one state store to the dispatcher, the transaction
engine, data sources, derived state, forms, editor sessions and the app engine, which communicate only
by setting and watching paths of that store.  The page follows the store a frame later.  Client auth
calls server auth by HTTP and its other tabs by BroadcastChannel.

What makes each correct: a version gives back what was saved under its number; a promoted environment
points at what the gate checked; whatever is accepted by the checks can be mounted and is served;
statements of different requests do not show through in an answer; a tab shows the session it holds;
transactions take turns and undo exactly what they did; edits are lost only when the user says so; what
the page shows is what the store holds.

## 2. The modules

| module | what it is |
|---|---|
| `SpecDocument` | documents as partial functions from places to values; `ComputePatches`, `ApplyPatches` |
| `VersionHistory` | the abstract store: an append-only log, and answers that are entries of it |
| `SqlVersionedStore` | the SQL store and the commands that drive it, statement by statement; implements `VersionHistory` |
| `VersionedStores` | the in-memory and the Supabase store, their environments, the structural diff |
| `EnvironmentPromotion` | the gate, the pointer moves and `envs --set`, over an append-only history |
| `SqlSpecStore`, `SqlStatements` | the plain store on the four drivers; the statements the drivers build |
| `SpecChecks`, `ContractCheck` | the checks before a store, with the fixes they print; the contract of an app with its APIs |
| `ApiServer`, `SpecServing` | the list and CRUD routes of an endpoint; the routes that serve specs |
| `AuthServer`, `AuthSession` | the login provider; the auth engines of the tabs of one browser against it |
| `StateStore`, `TransactionEngine` | the JSON tree and its path listeners; the transaction queue and its phases |
| `DeriveOrder`, `SpecRuntime` | the order of derives; derived state and data sources inside the store's notification |
| `EditorSession`, `NavigationGuard` | the editor sessions of one screen; navigation composed with them |
| `ActionDispatch`, `FormEngine` | chains of actions, middleware, notifications; fields, forms and their submits |
| `Expressions`, `RenderTree` | resolver against dependency scanner; the render engine with its cache, frame by frame |
| `AppScreens` | MythikApp, the app engine and the screen outlet |
| `SpatialMap`, `SpatialEditing`, `DataTable`, `FileUploads`, `ElementAnimations` | the primitives with state of their own |
| `MCSql...`, `MCPromotions`, `MCTransactions`, `MCEditing`, `MCSpecRuntime` | small instances of one module for TLC |
| `MCServer`, `MCScreen` | small instances of several modules, of which each behaviour is about one (`piece`, `part`) |
| `...Proofs` | the theorems of section 5 |

### SqlVersionedStore

One spec id: every statement of the store is keyed by `screen_id`.  `rows` is the table
`screen_versions`, a partial function from version numbers, so UNIQUE(screen_id, version) is its
being a function and a second insert of a number fails.  `screens` is the row of the current spec or
`NoDoc`.  `call[c]` holds the local variables of the command that process `c` runs; its `pc` names
the next SQL statement.  Two history variables stand beside the state: `saved[v]` is the document that was
given to the saveVersion call that created version `v`, and `lapses` has the versions whose save died before it
wrote the current spec (`cut`), whose save had failed to read it (`unread`), and those that came in while another
save was between its version and the current spec (`raced`).

    saveVersion      ReadMax -> ReadScreens -> InsertBootstrap      (only without history)
                     -> InsertSnapshot -> SaveScreens               (version 1, or every Nth)
                     -> (loadVersion of the previous) InsertPatch -> SaveScreens
    loadVersion      CheckRange -> FindSnapshot -> FetchPatches -> Replay ... -> Loaded
    commands         Push, Patch, Rollback, View, PlainSave, Delete;  Crash at any point

A `Patch` reads the current spec when the command starts and hands the patched copy to saveVersion, as
`mythik patch` does.  `PlainSave` is a write without `--author`.  An insert that meets the unique
constraint ends the command, as the exception does.  saveVersion swallows a load of the current spec that fails
(sql-versioned.ts:62-66) and goes on as if there were none, and so does `ReadScreens` for a process that may fail
(`blind`).  Authors, timestamps and descriptions are left out,
as is `listVersions`, which only reads.  A patch list is a pair: places removed, places put.
computePatches names each place at most once and treats arrays as one value, so for the patches the
store writes the order does not matter.

### VersionedStores

The in-memory store works on an array of records that it found before an await; so `arrays` holds every
array a call may still hold, and `holder` the one that is the history.  The Supabase store is a request
at a time (`AskNewest`, `Load`, `PostFirst`, `Post`, `Save`), any of which may be lost before (`Lose`)
or after (`LoseAnswer`) it took effect.  `Changes` is structuralDiff with its type-specific sections.

### EnvironmentPromotion

`log[id]` is the log of one spec, as VersionHistory promises it; `pointer` is
`screen_environments`; `job[p]` is a promotion.  The gate's reads are separate steps (`ReadSource`
per spec, `CrossScreen`, `ReadApi` per api), the writes too (`Move` per spec).  A document is reduced to
what the gate looks at: whether it is an api, the screens it navigates to, the endpoints it fetches or
serves.  The read of a pointer and the load of its version are one step, because a version, once there,
never changes.  Of the contract layer the rule that endpoints exist is taken; the others are in
`ContractCheck`.

### SqlSpecStore, SqlStatements

`call[c]` stands at one awaited statement (BEGIN, the statements, COMMIT, ROLLBACK) and `work[k]` is what
the open transaction of connection `k` wrote; a statement waits for the row while another transaction
holds it.  With `SqliteShared` overlapping calls share the one sqlite connection, as in a server they would;
with `FALSE` they follow each other, as those of the command line do (section 3).  `Faults` says what may fail: a
statement, COMMIT, the answer, BEGIN and ROLLBACK, of which the last two leave something behind in postgres and
mysql (`Begin`, `Rollback`).
`SqlStatements` keeps a built statement as the columns it sets and compares, each with its parameter, and
reads it back after compileNamedParams, so that a parameter taken for another one shows.

### SpecChecks, ContractCheck

A document is what the checks look at.  `Push`, `Validate`, `Patch` and `AutoFix` are the commands; the
report of one is what the next works on.  A name is near another one where the constant `Near` says so.
`ContractCheck` reads the app, its screens and the APIs one after the other (`LoadApp`, `LoadNext`) while
authors save (`SaveDocument`) and servers start (`StartServer`), compares (`RunContract`), and lets the
users of a screen send its requests (`Send`) to the routes that are registered (`Respond`); so what is
accepted can be compared with what is served.

### ApiServer, SpecServing

`request[c]` is a request, how far its handler is and what it read; each SQL statement is a step
(`QueryData`, `QueryCount`, `QueryTotals`, `LoadCrudRecord`, `ExecCreate`, `ExecUpdate`, `ExecDelete`) and
any may fail, before it took effect (`StatementFails`) or with its answer lost afterwards (`Told`).  On
mysql the written row is read again by a statement of its own.  Roles, scopes, audit fields and insertable
or updatable fields decide as in the handlers. `SpecServing` has the table of specs and the set of screens
that need no token.

### AuthServer, AuthSession

A token is the number of its issue.  The provider checks a token, awaits the database and then replaces it;
`Continue(e)` is the second half of a request, `Answer(e)` its answer.  `engine[e]` is the closure of an
engine and the auth part of its store, `pending[e]` what it waits for, `inbox[e]` the events of the
BroadcastChannel it has not handled, `stored` the refresh token in localStorage.  `ServerFault` restarts the
server (its map is in memory), expires a token or deactivates a user; a request may also fail on the way.

### StateStore, TransactionEngine

The state is a tree of *cells*: the paths that the actions at hand use.  Setting a path sets the cells
below it, and setting the root replaces all of them.  Every dispatch awaits, so between two actions of any list
anything else may run.  Each list is a thread: `Main(t)` runs the before, optimistic, onSuccess and onError
lists of transaction `t`, `Confirming(t)` its confirm list, which goes on when the engine has stopped
waiting for it, and `<<"event", e>>` a list dispatched outside any transaction.

    execute          Execute (starts at once or queues)
    runTransaction   TakeSnapshot -> StartConfirm -> Settle | Rejected | Timeout -> Finish
    throws           ThrowBeforeTry (before, optimistic), ThrowInConfirm, ThrowInOnSuccess, ThrowInOnError
    actions          RunSetState, SendFetch, AnswerOk | AnswerError, ThrowInEvent

A fetch that fails does not throw: it writes `/ui/lastError` and the engine looks there (`Settle`).  The
history variables are `order` (of execute), `outcome`, `failed` (the transactions of which something threw or
whose last request was answered with an error), `stray` (what lists outside or cut short have written) and
`crossed` (whether others have set or cleared lastError while a transaction awaited its confirm).

### DeriveOrder, SpecRuntime

A write calls the listeners in the order they subscribed, the derive engine and then the data sources, and
each may write in turn before the first write returns: `frames` is that call stack and `Cascade` its next
step.  A value is the set of inputs it was computed from.  Debounce timers (`TimerFires`) and requests
(`flight`, answered in any order or failing) go on outside.

    mount     Mount -> Evaluate ... (phase "mounting": the derived cells in order, nobody listens)
              -> MountSource -> Fetch -> Send ... ("starting": only the derive engine listens)
              -> Return from the last of them ("mounted": the sources listen too)

`Mount` may come again after `Unmount`, on the same store and with requests of the earlier mount still in
flight, as when a renderer mounts the screen anew.  `Sort` is a constant: `SpecRuntime` assumes of it what a
topological sort promises (`SortSorts`), and in `MCSpecRuntime` it is `TopologicalSort` of `DeriveOrder`, a fold
that follows the code, of which TLC evaluates the assumption for every choice of dependencies.

### EditorSession, NavigationGuard

Operations of the engine other than save contain no await and are one step each.  A save is three:
`StartSave` captures and sends the tracked paths, `ServerStores` is the server (external), `Saved` or
`SaveFailed` is the answer; a second save while one is in flight joins it.  A fingerprint is the value it
identifies.  An entry of a stack lists its changes with the values before and after; undo and redo are written
as what they come to, for each path the earliest value before and the latest after (`Earliest`, `Latest`), not as
a loop.  `docAt[s]` is a history variable: the tracked paths at each revision.  In `NavigationGuard`
`pending` is the recorded attempt and `call[c]` a navigationGuardSaveAndProceed, which awaits one save after
the other (`left` are those it has still to come to) and works on the attempt it captured at its beginning.
After the screen has been left the host unmounts the sessions (`Leave`), possibly while calls go on.

### ActionDispatch, FormEngine

A chain is an async function; what is settled goes on before anything from outside (`Micro`), and time goes
by in ticks (timers of notifications, the rate window).  `held` is the store, `toasts` `/ui/notifications`,
`boxes` the containers and their timers, `page` the spec and what was last rendered.  `FormEngine` keeps the
flags beside the values: `Enter` writes a value through whatever way, `Leave` is a blur, `Validate`, `Reset`
and `Submit` are the operations, `Replace` makes a second engine that listens until the first is destroyed.

### Expressions, RenderTree

`Eval` is the resolver and `Scanned` the dependency scanner, handler by handler; the state machine writes
the store (`Write`, lists, `Redraw`) around an element that is drawn again only when a changed path touches
what was scanned.  `Unlisted` are the parts of an expression whose reads no scanner lists, `$platform` and
`$auth`; their values are those of the last drawing, which `seen` remembers.  An element in a repeated row
(`InRow`) is always drawn, so `$selection` cannot be out of date there.  `RenderTree` is renderTree with its
cache of resolved props: `AnimationFrame` renders what `changed` touches, everything else renders all.  The
value of an expression is the part of the store it reads. `steady` is a history variable: the elements on
the page whose props some rendering has computed since they came to it (`Renewed`).

### AppScreens and the primitives

`AppScreens` joins the engines: `Navigate`, `GoBack`, what the auth engine reports (`Login`, `Refreshed`,
`SignedOut`), loads of screens (`Answer`, `NoAnswer`) and the life of the component.  Users navigate whether
or not a screen is loading; `passed` is a history variable, the screens that were still loading when the
user came to the current one and were answered since.  `SpatialMap` is the editor's pointer handlers over
refs (`drag`, `suppressed`, `dropped`) that see the page of the last `Frame`; `SpatialEditing` its geometry
in integer units.  `DataTable` has the order, page, selection and folds of a table whose rows change under
it, with ids or known by their index on the page (table.tsx:360-366).  `FileUploads` has handlers that name
a row by its index in a list that other handlers replace.  `ElementAnimations` has the triggers, timers and
exits of one element on the web (a CSS list) and on a device (shared values); the two compose their triggers
in orders of their own (`WebLook`, `NativeLook`).

## 3. The runs

| run | module, configuration | question | bounds |
|---|---|---|---|
| `sql_concurrent` | MCSqlVersionedStore, SqlConcurrent | do interleaving and crashes ever corrupt or rewrite the history, and is the store an append-only log? | 2 mortal processes, one also writing without `--author`; 3 writing commands, interval 4 |
| `sql_commands` | MCSqlCommands, SqlCommands | what do commands guarantee, and do they end? | `lone`: 1 mortal process, 3 commands, interval 3; `authored`: 2 mortal processes, 3 commands, interval 4; `crowd`: 2 processes, one of them mortal, 3 commands, interval 3 |
| `promotions` | MCPromotions, Promotions | is what a promoted environment points at what the gate checked? | `serial`: 3 promotions of 1 promoter, 2 versions; `concurrent`: 2 mortal promoters, pushes and `envs --set` at any time |
| `transactions` | MCTransactions, Transactions | do queued transactions leave what a serial run would, and end? | 3 transactions; `calm`: a confirm list of two requests, one that throws, a before list that throws; `mixed`: timeouts, late answers, an optimistic list that throws after its write, throws in onSuccess and onError, a request outside |
| `editing` | MCEditing, Editing | do undo, redo, saves and dirty flags describe the right documents; is a guarded screen ever left dirty? | `sessions`: 2 sessions, 4 revisions, history of 2; `guarded`: a guarded and an unsavable session, 2 concurrent calls |
| `auth` | AuthSession, Auth | does a tab show the session it holds, whatever other tabs and the server do? | 2 tabs, 1 account, 3 tokens, 2 calls, 1 fault |
| `runtime` | MCSpecRuntime, Runtime | are derived values current and is the data what is asked now? | 2 inputs, 2 derives with one of 4 dependencies each, 1 source; any number of requests, mounts and cascades |
| `server` | MCServer, Server | stores, routes, statements, checks, histories and contracts: see below | see below |
| `screen` | MCScreen, Screen | what a page shows: see below | see below |
| `promote_partial` | MCPromotions, PromotePartial | all pointers or none? **No.** | 1 mortal promoter, 2 specs |
| `logout_lasts` | AuthSession, AuthLogout | does a logout in one tab last in all? **No.** | as `auth` |
| `store_token` | MCScreen, StoreToken | does the spec store send the current token? **No.** | the shell alone |

`server` and `screen` are each a disjoint union of small systems: `piece` and `part` are chosen at first and
never change, and every other variable rests.  Their properties are conjunctions:

| property | of | instances |
|---|---|---|
| ConnectionsReturned, WritesWhole, StoreCallsEnd | `SqlSpecStore`: connections come back; the table changes by one whole call at a time; what is acknowledged is stored; every call ends | 3 calls on 1 document, 2 connections, 4 dialects, statements, commits and answers that fail |
| AnswersTrue, WritesWhole | `ApiServer`: a list is one state of the table, and the answer to a write says what became of its row (`WriteTold`); a request changes one row, in its scope | 2 clients, 2 rows, 2 plants, postgres and mysql, any statement may fail or its answer be lost |
| StatementsBindRight | `SqlStatements`: every value reaches its column | 3 columns whose names collide when sanitized, 4 dialects |
| VersionsSound | `VersionedStores`: `VersionsRebuild`, `NumbersAreOwn`, `EnvironmentsStay`, `DiffExact` | 3 saves, interval 4, 1 lost request; overlapping saves in Supabase |
| VerdictsSound | `SpecChecks`: `FixesSound`, `AcceptedMounts`; `ContractCheck`: `AcceptedServed`, `VerdictCurrent` | 8 documents, 4 commands; 3 screens, 2 APIs, 2 or 3 versions of each |
| TreeCurrent | `RenderTree`: the page has the elements it should have, and what is not drawn again has not changed, but for the elements `SteadyFresh` names | 3 levels, a repeated template, a container that hides its children, a modal, a replaced spec |
| AppShown | `AppScreens`: shell and outlet are about the current user and screen, or for the outlet one the user has just passed | users who navigate at any time, 3 screens, 2 users, 2 loads, 2 tokens |
| EveryUploadEnds, InputsTrue | `FileUploads`, `FormEngine`: rows and target tell what was stored; flags are about the values | 3 files, 3 handlers; 2 fields with rules about each other, 2 engines |
| GeometrySound, StepsSound | `SpatialEditing`, `SpatialMap`: the handle opposite stays, a zone stays on the map; every edit builds on the one before, a drag presses nothing | a grid of measures, rotations and scales; 2 edits of a desk or a room |
| ValuesTrue, StepsSound | `Expressions`, `DataTable`: an element shows what its expression is worth, the unlisted parts of it when it was drawn; pages, groups and selection are about the rows, and only data that become fewer take the page away | an expression of every kind, `$platform` on a device that changes and rows included, 4 writes; 3 tables, rows with and without ids, data that grow, shrink and are reordered |
| MotionSound, StepsSound | `ElementAnimations`: reduced motion is respected, pulses pass, each platform comes to the look that its own order of triggers says; pulses and exits are shown whole | 4 elements, one with triggers that share properties, web and native |
| ActionsSound | `ActionDispatch`: pace, verdicts, loading flag, skeleton, timers of notifications, what a chain was pressed for | 2 presses of 4 elements, with an action that is refused, one that is unknown and one that writes where it may not; 2 specs, 2 notifications |

`TypeOK` of `SqlVersionedStore` is a property of its own; the other type invariants are conjuncts of the
properties above.

**Why the bounds are enough.**  The history needs two processes, at most one crash in each and a snapshot
boundary: with interval 4 and a bootstrap row, three commands reach version 4, so there are loads that
replay several rows and the snapshot after them; with interval 3 one process has a patch row and a snapshot after
the bootstrap, and may die in each save.  Two places and two values give every kind of patch
entry.  Promotions need one api and one screen for the contract, two specs for partial and mixed batches.
Three transactions give a queue of two while a third runs; one or two actions per phase let the late half
of a confirm list fall into any phase of a later transaction.  A history of two with four revisions
overflows, and undo and redo then go to its end and back.  Two tabs and three tokens let one tab refresh
while the other refreshes, logs out or has just got the event, and let the rotated token come back.  Two
connections and three calls give a call that waits for a connection and one that waits for a row.  Bounds
on counters (`MaxHops`, `MaxSaves`, `MaxIssued`) keep room for what is under way, so nothing gets stuck at a
bound; the guards that say so are named (`RoomToNavigate`, `RoomToSave`, `Room`).  Section 5 removes the
bounds for twenty-three of the properties.

**Deadlock.**  `CHECK_DEADLOCK FALSE` is used everywhere: behaviours end when the bounds on commands, calls,
edits or answers are reached, and when everything is idle nothing has to happen.

**What the instances leave out on purpose.**  Where the code is known not to keep a promise, a constant
restricts the environment so that what does hold can be stated.  `Patient = TRUE` has users who let an
upload end and a drag finish before they go on (in `FileUploads`, `SpatialMap`, `FormEngine`,
`ElementAnimations`, `ActionDispatch`); `Overlapping = {"supabase"}` lets only Supabase saves overlap;
`SqliteShared = FALSE` has calls on sqlite follow each other; `Faults` lacks `"begin"` and `"rollback"`;
`EveryExpression = FALSE` omits three expressions; `MaxVisible = 2` shows as many notifications as there
are; `AfterThrows` is false.  Each is lifted in the table below.  Other properties name what they except:
`CurrentSpecIsLatest` the versions of saves that raced, `CurrentSpecBacked` a version 1 whose save could not
read the current spec, the outcomes of transactions those during whose confirm others wrote lastError,
`WriteTold` answers that were lost, `SteadyFresh` elements that came back with the page around them or
survive a replaced spec, `ShowsItsValue` the unlisted parts of an expression, `ShownIsCurrent` the screens
just passed, `PageKept` the answers that bring fewer rows, and `LooksAsOrdered` follows each platform's own
order.  The stronger property that excepts nothing is defined beside each and violated, and is in the table
too.

### What does not hold

Three runs end in a violation because the code does something else than a document promises.

* `promote_partial` (`NoPartialPromotion`): README.md:255-262 calls promotion atomic and says there is no
  partial promotion; the command moves the pointers one statement at a time outside any transaction, so a
  failure between two of them leaves half the batch.
* `logout_lasts` (`LogoutLasts`): the reference says that a logout in one tab is a logout in all; a refresh
  that was in flight answers after it, and applyAuthResult signs the tab in again.
* `store_token` (`StoreTokenFollows`): MythikApp's spec store goes on sending the token of the login after a
  refresh has replaced it, because a refresh does not reach `tokenRef`.

Others are reproduced by changing a configuration, or by checking a property that is defined in the module
but in no run.  (`Pieces` and `Parts` may be narrowed to the piece in question.)

| take | change or check | what it shows |
|---|---|---|
| PromotePartial.cfg | two promoters, none mortal, Serial = FALSE, MaxJobs = 2; INVARIANT NoMixedPromotion | two promotions that both succeed leave some pointers of each |
| | Document <- CrossDocs, Batch <- CrossBatches; INVARIANT DanglingReferenceRejected | cross-screen consistency is only a warning, against README.md:258-261 |
| Promotions.cfg | Settings = {"concurrent"}, one promoter, not mortal, MaxVersion = 2, MaxJobs = 1; INVARIANT ContractChecksBatchVersion | the gate reads the pointer of a batched api twice |
| Editing.cfg | Target <- AnswerInItems | an answer that is written to a tracked path overwrites what was edited meanwhile (SavedMeansStored; the hypothesis SeparatePaths of section 5) |
| | Guarded <- Both, GuardedChanges <- TwoChanges | save-and-proceed goes on although a session it did not find dirty has become so (GuardKeepsEdits; OneGuarded) |
| SqlConcurrent.cfg | Unversioned = {}; INVARIANT PreHistoryKept | when the load of the current spec fails, saveVersion swallows the error (sql-versioned.ts:62-66, whose comment says that the first save then becomes version 1), makes the new document version 1 and overwrites the one that was there, which no version holds |
| Transactions.cfg | INVARIANT ThrowUndone | an optimistic list that throws lies outside the try: its writes stay, against the comment at transaction-engine.ts:104 (and docs/consumer/reference-doc.md:967) |
| Runtime.cfg | DepChoices <- Nested | an expression that reads below a derived path is sorted as if it did not read it (DerivedFresh; WholeReads) |
| | Sources <- ReaderFirst, Config <- Reader | on a second mount a source asks for the rows that a later one is about to empty, and does not listen yet when it does (SettledAnswer; EmptiedFirst) |
| Server.cfg | Overlapping = {"memory", "supabase"} | overlapping saves in memory give two versions one number (VersionsSound) |
| | Faults with "begin" | a BEGIN that fails keeps its connection in postgres and mysql (ConnectionsReturned) |
| | Faults with "rollback" | a ROLLBACK that fails gives its connection back with the transaction open (postgres.ts:259-262, mysql.ts:257-260): ConnectionsReturned, and WritesWhole when the next call commits it |
| | SqliteShared = TRUE, Pieces = {"store"} | overlapping transactions mix on the shared sqlite handle (WritesWhole) |
| | INVARIANT EveryLoginServed | which screens are public is worked out once, at start |
| | INVARIANT EverythingServed | submitForm without a method is taken for GET by the contract and sent as POST |
| | INVARIANT SpecIsNewest, NoLaterVersion, FirstKept | a late save leaves the spec older than the newest version; Supabase answers a version that does not exist with the newest; a lost load drops the original spec |
| | INVARIANT CyclesFound, FixesFit, WarningsSettle | a derive cycle through `$template` is accepted; the printed fixes are for a document that was not stored; a fix for an unknown prop replaces its value |
| Screen.cfg | EveryExpression = TRUE | `$auth: "metadata.x"` is scanned as another path, `$cond` decides otherwise than `visible` (ValuesTrue) |
| | INVARIANT TruthShown | an element with `$platform` (platform.ts:21) or a nested `$auth` is not drawn again when those change, for no scanner lists them |
| | INVARIANT TableOnAPage; PROPERTY SelectionKept | the page is not clamped when the data shrinks; rows without an id are selected by their place on the page, so another page shows others selected |
| | INVARIANT TreeFresh | "so stale props are not reused" (engine.ts:328-329, 293-294) is true of the element that was hidden, not of those inside it, nor of a spec that replaces another while paths are collected |
| | INVARIANT ShowsTheActive | the answer of a screen that was still loading when the user went on is shown until the current one answers, and for good when that one was shown already (docs/wiki/compiled/concept-screen-outlet.md:10-12) |
| | INVARIANT LooksAlike | web composes ambient, mount, hover, focus, active, React Native mount, ambient, focus, hover, active, so that a property of two triggers differs (compose-rn-style.ts:6 says parity) |
| | Patient = FALSE | an overlapping retry mixes the rows of an upload (InputsTrue); a second state change does not restart a pulse (StepsSound); a chain reads `/ui/selectedRow` after its fetch (ActionsSound) |
| | Patient = FALSE, MaxRequests = 2, Parts = {"form"} | the first of two submissions to be answered clears `/ui/submitting` (InputsTrue) |
| | MaxVisible = 1 | on React Native only the last notifications are timed (ActionsSound) |
| | INVARIANT BreadcrumbEndsHere, ResetScreensCleared, ValidForms; NumbersFinite with EveryExpression = TRUE | the breadcrumb keeps a first occurrence, where the comment at app-engine.ts:269 says the last one wins; "reset" clears on entering; resetForm says valid; `mod` by 0 |
| | PROPERTY ZoneDropKept, ClicksSelect | a zone is resolved again when dropped; a click after a resize is swallowed |

Further observations made while modelling, without a counterexample of their own:

* Contract: requests in transaction bindings, in the actions of table columns, in `onRowClick` and spatial
  events and in an app's layout are never extracted; of two endpoints with one method and path the contract
  takes the last and express serves the first; screens that cannot be loaded are skipped and the verdict is
  valid; `/:userId` gives false errors.
* Dispatcher: the rate limiter and the guards throw outside the try, so neither `after` nor `onError` hears
  of a refused action; `MythikAppProps.middleware` is never used; shell and outlet each add a toast
  container; the first of two overlapping fetches clears `/ui/loading`.
* Animations: the primitive box passes no `store` to the hook and never calls triggerUnmount, so
  `stateChange` and `unmount` never play on an element.
* SQL store: with two processes a patch built from the current spec of before another's save overwrites that
  save (patch.ts:57); a save that dies between its two commits leaves the current spec one version behind,
  until the next.
* API server: when the answer of the database is lost, the client is told 500 although the row is written;
  on mysql an update that takes its row out of the user's scope is written and answered with 404.
* Transactions: one fetch that succeeds clears the error of the one before it (dispatcher.ts:294), so a
  confirm list of two requests commits when the last was answered well; a fetch outside or a late answer
  decides in the same way the outcome of whoever awaits its confirm; an action that throws in onSuccess
  rolls a confirmed transaction back; a late answer leaves `/tx/result`; a set of `/` notifies no path
  listener (state/store.ts:98).
* Navigation: the guard looks at the sessions when it is asked, so one that becomes dirty afterwards does
  not hold it back; save-and-proceed goes on after a cancel.  A save whose target is a tracked path
  overwrites a later edit of it.
* Rendering: children of a hidden container are stale when shown again; template children with `$prop` share
  a cache entry; a screen outlet has no order of requests and executes initial actions twice.
* Saves: fetchWithTimeout clears its timer before the body of the response is read
  (editor-session/engine.ts:408-413), so a body that stalls is not timed out; `GuardedEnd` is about answers
  that come whole.
* Left out of an instance: `maxVisible` below 1 (spec-validator.ts:725) among the checks, an offset of the
  snap grid and resizes by other than horizontal moves in the geometry, and roots among the places of which
  `DiffExact` speaks.
* Elsewhere: dangling references in a promoted batch are a warning (promote-gate.ts:137); two roots that are
  not both objects yield no patch (compute-patches.ts:21); the login limiter doubles its window one attempt
  late (auth/rate-limiter.ts:46).

## 4. Fairness

No run assumes fairness of users, crashes or failures.

* `sql_commands`: weak fairness of each process's next statement (in `lone` and `crowd`).  It stands for a
  database that answers or fails every statement; the code adds no waiting of its own (no lock, no retry, no
  queue).
* `transactions` (`mixed`): weak fairness of `GoesOn`: as long as something can go on, something does.  That
  is the event loop, which runs what can run (the running transaction, setState and the sending half of
  fetch in a confirm list), the timers, and the answers to requests of phases other than confirm, which the
  engine awaits without a timer. Requests of confirm phases and outside need never be answered.
* `editing` (`guarded`): a call of save-and-proceed goes on when its save has settled, and every request is
  answered or aborted, since `fetchWithTimeout` starts a timer with every save.
* `auth`, `logout_lasts`: requests are answered or fail, and the server goes on after its await.
* `runtime`: the call stack unwinds (weak); a debounce timer that is started again and again fires at last,
  and requests are answered although others are sent (strong).
* `server` (store): weak fairness of some call's next statement: as long as one of them can go on, the
  database answers or fails it.  Which one is open; the calls are finitely many.
* `screen` (upload): a handler that was started goes on.

## 5. What is proved

| module | theorem | what it says, for every value of the constants |
|---|---|---|
| `SqlVersionedStoreProofs` | `PatchRoundTrip` | applying `ComputePatches(a, b)` to `a` gives `b` |
| `SqlVersionedStoreProofs` | `TypeCorrect`, `HistoryCorrect`, `ReadsCorrect`, `AppendOnly`, `Refinement` | types; versions are 1..n and each row encodes the document saved under its number; loads and rollbacks give it back; rows never change; the store implements `VersionHistory` |
| | `AuthoredBacked`, `LatestIsServed` | with authors only (`Unversioned = {}`), any number of processes and any crashes: the current spec is the first one or a version, and the first is version 1 unless its save could not read it; the current spec is the newest version that was completed, unless that one raced |
| | `PatchesBuildOnServed` | with one process, also after it has died half-way: a patch creates what was served with its patches applied |
| `EditorSessionProofs` | `UndoIsSound`, `SavedIsStored`, `EditsOutlive` | undo and redo go through what was committed; a clean session is stored; an edit during a save stays dirty: if `SeparatePaths` |
| | `GuardHolds` | with one guarded session (`OneGuarded`) a screen is only left when it is clean, and the three above hold under the guard too |
| `SpecRuntimeProofs` | `DerivedStaysFresh` | derived cells are current between any two events: if `SeparateCells`, `WholeReads` |
| | `AnswersSettle` | a source whose newest request came last holds the answer to what it would ask now: if `SeparateCells`, `NoOwnReads`, `EmptiedFirst` |
| `AuthSessionProofs` | `SessionsConsistent` | a tab shows what it holds, has one refresh in flight, is persisted while signed in, and the server takes no refresh token twice |
| | `LoneSessionsLast` | a tab alone in its browser, without a fault, never loses its session |
| `EnvironmentPromotionProofs` | `PromotionCorrect` | types; what a promotion that succeeds has moved exists, and a batch with a missing source moves nothing |
| | `BatchConsistent` | if commands follow each other (`OneAtATime`), the destination of a promotion that succeeds holds the planned versions, and apis that serve its screens |
| `TransactionEngineProofs` | `TakeTurns` | transactions run one at a time in the order of their execute, whatever throws or comes late |
| | `OutcomesAreOwn` | a transaction is rolled back only if it failed, committed only if nothing threw and its last request was answered well, and its last phase reads its own result or error, unless others set or clear lastError while it awaits its confirm: for any lists, timeouts, late answers and requests outside |
| `ServerProofs` | `NoneLost` | every connection is given back, if BEGIN and ROLLBACK do not fail (`Faults` without `"begin"` and `"rollback"`) |
| | `WholeCalls` | the table changes by one whole call at a time and what is acknowledged is stored, if calls do not overlap on sqlite's one connection (`Apart`) and ROLLBACK does not fail (`RollsBack`) |
| | `AnswersAreTrue` | a list is one state of the table unless somebody wrote meanwhile, and the answer to a write says what became of its row unless the database's answer was lost: on every dialect |
| | `WritesAreWhole` | `WholeCalls`, and a request to the API changes at most one row, in its user's scope and with its user's name: if `Apart` and `RollsBack`, and no one may update the key (`KeyFixed`) |
| | `VersionsAreSound` | a version of a history in memory or in Supabase is what was saved under its number, for whoever saved it and for an environment that points to it; the diff of the newest from any other names what differs: if calls in memory follow each other (`OneByOne`) |
| `RunProofs` | `AppIsShown` | the menu is the user's, the breadcrumb has the screens of the history once each, and the outlet shows the current screen, or one the user has just passed, once nothing is loading, wherever users navigate and whatever order answers come in |
| | `DestinationsAreSound` | DestinationSound in both settings of its run, for any specs, environments and documents: if nobody but promote sets the destination (`PromotedOnly`) |
| | `OutcomesAreTheirOwn` | OutcomeIsOwn in both settings, for any transactions made from the templates |
| | `NewestServed`, `EverythingRecorded` | LatestServed and NothingUnrecorded in the settings of their run, with processes that die, for any number of them, of commands, places and values |

The assumptions are those named in the modules: `NoDoc` is not a document, the interval is an integer,
`NoTx` is not a transaction, `Nobody` not a user (`NobodyIsNone`), lists of actions are sequences, a closed
or empty transaction is no row (`ValuesApart`), bounds are natural numbers, inputs have their types
(`ConfigForm`, `PlaceForm`, `BoundForm`, `InstanceForm`, `ApiAssumption`), parameters of a statement bind
(`StatementsBind`), the screens that are saved are among those whose diffs are exact (`SavedScreens`, which
TLC evaluates for the three screens of the instance), and the sort of derived cells sorts (`SortSorts`; that
`TopologicalSort` does is induction over data, so TLC evaluates it on the instance). A hypothesis in a
theorem is a condition on the spec or on the people, satisfied by the instances of the runs; the table of
section 3 shows for `SeparatePaths`, `OneGuarded`, `WholeReads` and `EmptiedFirst` what happens without it,
for `Apart` the setting `SqliteShared`, for `OneByOne` the setting `Overlapping`, and for `RollsBack` and
`NoneLost` the setting `Faults`.  `KeyFixed` is what a spec with a generated key declares; `PromotedOnly` is
the way of working that the gate is for.

**SqlVersionedStore.**  The properties are not inductive: a step of `Replay` is right only if the fetched
batch is the chain of rows between the snapshot and the target.  The invariant therefore says what each
process holds at each `pc`: the target of a load exists; the document in hand is the one saved under the
version it stands at; the batch holds exactly the patch rows of the range and the range no snapshot; the
version whose document a save has read still exists; a rollback carries the document of its target.  These
are facts about rows that exist, and rows never change, so no step of one process falsifies what another
holds (`CallMonotone`); that reduces each action to its own process (`LocalStep`, `InsertStep`).
`Refinement` maps each insert to `Append`, each load's end to `Load`, each answer dropped to `Forget`.
`AuthoredInv` adds what bootstrapping relies on: without rows the current spec is the initial one, and whoever
is about to insert version 1 holds it or has failed to read it (`blind`).  `NewestInv` follows the versions whose
save has still to come to the current spec (`Pending`) and those it never came to (`lapses.cut`): of the others
(`Written`) the newest is served, or is noted in `lapses.raced`, as every version is that came in while a save was
pending (`LaterRaced`).  `LoneInv` adds, of the only client, that nothing raced and that a patch it is saving was made
from what is served now.

**EditorSession.**  The invariant is about one session at a time.  Each entry of its stacks turns the
document before it into the one after it and back (`EntrySound`), and the two stacks are chains of such
documents that begin at the present one (`Chain`).  The document at each revision is recorded in `docAt`,
the saved snapshot is that of the saved revision, a request carries the document of a revision already
reached, and the server has the saved document or the one that is being sent.  `SeparatePaths` makes every
step one of a single session: an edit, or an answer that is written to a target, leaves what the others
track alone.  For `GuardHolds` the invariant adds that every attempt on record names the one watched
session, and that each step of the guard is a step of the sessions or none. Lemmas about the earliest and
the latest change to a path (`EarliestPlace` and on) take the place of a loop.

**SpecRuntime.**  Neither property holds inside a cascade: while listeners run, cells are out of date.  What
is inductive is that whatever is out of date is *due*: some frame of the call stack has still to look at it,
for a change that touches what it reads (`DeriveDue`; `FetchDue`, or a timer, or a deferral).  A write that
changes a cell calls everybody (`Listened`), a step drops only the work it does (`Keeps`), so what it makes
out of date becomes due (`DerivedAfter`, `SourceAfter`); and when the stack is empty nothing is due.  While
mounting, cells are filled in in sorted order, so that none is written after another has read it
(`WholeReads`).  While the sources make their first fetches nobody would hear of a change: either no request
has been sent yet (`NothingAsked`), or none of the work left on the stack empties a target (`AllQuiet`);
this is where `EmptiedFirst` is needed.  The shape of the stack in that phase (`Started`) says that only
derives are above the mount's own frame.

**TransactionEngine.**  `InTurn` says where each position of the order stands.  A phase could be held by a
transaction that is not in the order, so the invariant adds that the order lists exactly the transactions
that are no longer new, each once.  Then whoever is in a phase is the running transaction (`InPhaseRuns`), a
step from phase to phase disturbs no other position (`PhaseStep`), an execute adds the last (`ExecuteStep`),
an ending one hands over to the next (`ReleaseStep`), and every other action moves nobody (`DispatchStep`).
For `OutcomesAreOwn` the invariant (`OwnInv`) follows the error cell through the confirm of the running
transaction: if nobody else has written it (`crossed`), it holds the transaction's error exactly when its last
request failed.  An error in the final phase is its own, an entry of `crossed`, or was written by a list that
`stray` records; and a result was fetched by its own confirm, is in `stray`, or was left by a transaction that threw
before it awaited anything.  No assumption on lists, timeouts or what runs outside is left.

**SqlSpecStore.**  `ConnectionsReturned` is about calls that have ended.  The invariant adds that a call
between BEGIN and its end owns exactly one connection, and that a connection with an open transaction is owned
by a call that will end it (`HoldType`, `CallHolds`, `OwnerHolds`, `OpenInside`).
`WholeCalls` needs what a transaction has written: its own row and nothing else, once it is past its write
(`WorkFits`), on a connection that no other call under way has (`OwnConnections`, `NoneOpen`), so a COMMIT
brings in one document and a ROLLBACK undoes none of another call.  With four calls a save may be acknowledged
although another document is stored: its update found the row deleted and wrote nothing, and before its COMMIT
a third call has inserted the row again.  `Acknowledges` names that case.  These proofs are in `ServerProofs`,
since they are about what the run `server` checks.

**ApiServer.**  What a list has gathered is compared with the table only as long as nobody has written since
it began, so each request carries what it may still claim (`ListFits`): as long as no write came in between,
the page and the counts it holds are those of the rows its user may see now.  A write ends the claims of the
lists under way (`quiet`).  `RequestWrites` says that a request that has not yet executed its statement has
changed nothing, and `ToldSo` that what its client is told is what became of its row: on mysql for as long
as no other write takes its `quiet` away, since the row is read again by a second statement.

**VersionedStores.**  A history is `Chained`: each record is a snapshot of what was to be saved, or has the patches
that lead there from the record before.  Then a version is rebuilt as it was meant, by going through the patches
from the nearest snapshot (`ReplayedMeant`; the least version at which the two would differ, `LeastOf`, takes the
place of induction).  `Fits` says what a call knows: its snapshot is the nearest one, the document it rebuilt is
that of the version before its own, the version it returned is its document's.  That is about records that exist,
and histories only grow (`FitsKept`), so the steps of others keep it; a late post is refused by the table.  In
memory nothing refuses it, and `MemoryFits` says that the array of a call under way is the history.

**AppScreens.**  `ShellInv` says of each part what the others need of it: the history ends with the current
screen and the breadcrumb is made from it (`PlaceTrue`; that `Firsts` leaves each screen once is
`FirstsOnce`, by well-founded induction on the length of the history), the menu follows the user until the
clean-up (`MenuTrue`), a load that will be shown is that of the current screen or of one this user was still
waiting for (`LoadsTrue`), what is shown is the answer to such a load (`ShowingTrue`), and without any under
way the outlet shows the current screen or what was passed (`OutletTrue`).

**EnvironmentPromotion.**  What a job has planned resolves when it is planned and goes on to do so because
histories only grow (`PlanStays`); as long as no source was missing, the plan and the ids still to read make
up the batch, so a promotion that begins to move has all of it.  For `BatchConsistent` the invariant
(`AloneInv`) says that what the gate has read is still what the environments hold: the planned versions are
those of the source, each api that was checked is the one that will be there, and the pointers moved so far
are as planned.

**RunProofs.**  The MC modules choose a setting at first and then run one module with the constants of that
setting.  A setting is an instance of the module with the theorems, so its invariant holds by the lemmas proved
there, once its assumptions are shown for the setting's constants; the invariant of the run is the invariant of
the setting chosen.

**AuthSession.**  An engine that is not live has nothing under way that could show; one that is signed in with
nothing persisted has an event in its inbox that will end its session (`Warned`); an answer names an issued
token.  Of the server the invariant says that live and spent tokens are issued and disjoint, and that the token
a refresh was checked for, across the await, is an issued one.  `LoneInv` follows the token of a tab alone: those
that its requests carry are different and the server still accepts them, and the one it holds is accepted or
is being replaced, with the answer on its way to the tab.

Only model-checked: liveness, which is out of the prover's reach, and what is computed by a fold or a
recursive function over data, that is by induction: what the settled state of transactions is (`Settled`),
the statements the drivers build (`StatementsBindRight`), the checks and the contract (`VerdictsSound`), the
sort of derives, the log that `StoredHistory` reads back from rows.  The other properties of `MCScreen`
(`TreeCurrent`, `InputsTrue`, `GeometrySound`, `ValuesTrue`, `MotionSound`, `ActionsSound`, `StepsSound`)
are left to TLC as well: rendering and expressions recurse over trees, and the hazards of the others are in
combinations of few values that TLC goes through one by one.

## 6. Plan

Left, in order of importance:

1. Proofs: the modules that make up the rest of the page (`MCScreen`), one module at a time, beginning with
   `FileUploads` and `FormEngine`; of transactions what the settled state is.
2. Abstract specifications: a serial transaction log that `TransactionEngine` implements when nothing runs
   outside; a document with a saved copy that `EditorSession` implements; one register per row for `ApiServer`.
3. `JsonPatch`: nested documents, pointers and arrays, in a module only TLC uses, against the algebra of
   `SpecDocument`.
4. The composition of `AuthSession` with `AppScreens`, whose token and events are a coarser copy now.
5. The remaining primitives with state (wizard, dropdown, chart), watchers, realtime bindings and the offline queue.

## 7. Not modelled

* The login rate limiter: a counter per name without a partner; its late doubling is described above.
* Watchers, framework fetch, offline queue, realtime bindings: a subscription, an interceptor or a small map
  each.  Nothing in the repository drains the offline queue or opens the channels.
* Interaction history and data operations: a bounded stack like that of editor sessions, and functions on arrays.
* Plugins, runtime, exports, the reference generator, the streaming compiler: registries, wiring, generated
  documentation, one pass over a stream.
* The CLI's argument parsing, configuration, scaffolding and reports; formatting, dates, colours, tokens, styles
  and markup; JWT encoding, hashing and the database engines, which are libraries.
* Primitives that only draw, and what charts and maps compute for display.

Where a component is *partly* modelled, its note in `PROJECT.json` says what is left out.  The coverage of
lines is low where files are mostly markup, styles or messages: those lines have no state to model.
