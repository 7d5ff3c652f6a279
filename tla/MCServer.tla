------------------------------ MODULE MCServer ------------------------------
(***************************************************************************)
(* What is behind the API server's and the command line's database calls,  *)
(* on small instances.  piece says which part of it a behaviour is about:  *)
(* the plain spec store on a driver, the routes of an endpoint, the spec   *)
(* routes, a statement the drivers build, for every choice of a few        *)
(* columns, the checks of a spec on its way to the store, the history of a *)
(* spec in memory or in Supabase, or the contract of an app with its APIs. *)
(***************************************************************************)
EXTENDS SqlSpecStore, Sequences, SequencesExt, FiniteSetsExt, TLC

CONSTANTS Client, MaxId, Plant, Note, User, Guarded, Scoped, BypassRoles, PolicyRoles,
          Insertable, Updatable, PageSizes, MaxPageSize, Totals, Databases, Null, NoUser,
          ScreenId, Absent, Pieces,
          Saver, Overlapping, Losses, Interval, NoDoc,
          Shown, MaxAnswers

VARIABLES table, request, screens, running, public, known, piece, built, spec, report, commands,
          store, base, arrays, holder, saver, losses, pointer, at, check, up, answer, answers

Api == INSTANCE ApiServer
Serving == INSTANCE SpecServing
Builders == INSTANCE SqlStatements

ASSUME ApiAssumption ==
    /\ MaxId \in Nat /\ MaxPageSize \in Nat \ {0} /\ PageSizes \subseteq Nat \ {0}
    /\ Api!StatementsBind
    /\ Null \notin Api!Row

checkVars == <<spec, report, commands>>
historyVars == <<store, base, arrays, holder, saver, losses, pointer>>
contractVars == <<at, check, up, answer, answers>>
pieceVars == <<vars, table, request, screens, running, public, known, piece, built, checkVars, historyVars, contractVars>>

TwoUsers == "alice" :> [scope |-> {"north"}, roles |-> {"clerk"}]
         @@ "root" :> [scope |-> {}, roles |-> {"admin"}]
AllDialects == {"sqlite", "postgres", "mysql", "sqlserver"}

\* Two columns that are sanitized to the same name, one that looks numbered already.
SafeName == [column \in {"a", "a.", "a_2"} |-> IF column = "a_2" THEN <<"a", 2>> ELSE <<"a">>]
BuiltColumn == {"a", "a.", "a_2"}
ValueGiven == [c \in BuiltColumn |-> c]
Where(column, name) == Builders!Use(column, name)
Statements ==
    [dialect : AllDialects, columns : UNION {SetToSeqs(S) : S \in SUBSET BuiltColumn \ {{}}},
     where : {<<>>, <<Where("id", <<"_pkValue">>)>>,
              <<Where("plant", <<"set", "a">>), Where("id", <<"_pkValue">>), Where("plant", <<"set", "a">>)>>}]
WhereParams == <<"_pkValue">> :> "key" @@ <<"set", "a">> :> "scope"

\* The upserts of the four dialects do the same to a row (SqlStatements!UpsertsAgree).
ASSUME \A d \in AllDialects, columns \in UNION {SetToSeqs(S) : S \in SUBSET {"a", "b", "c"}},
         keys \in {<<"a">>, <<"b", "a">>} :
    ToSet(keys) \subseteq ToSet(columns) =>
        Builders!UpsertsAgree(d, columns, keys, [c \in {"a", "b", "c"} |-> IF c = "c" THEN 1 ELSE 0],
                              [c \in {"a", "b", "c"} |-> 0])

-----------------------------------------------------------------------------
(* The documents authors push: screens with children and rules that are misspelt, with *)
(* props of wrong forms, with a cycle, an app and an API, and patches that lose a child or *)
(* mend what is wrong. *)

El(type, kids) ==
    [type |-> type, children |-> kids, props |-> [p \in {} |-> 0], reads |-> {}, on |-> <<>>, repeat |-> "none",
     hover |-> FALSE, variant |-> "", columns |-> {}, wrong |-> {}]
Val(form, exprs) == [form |-> form, exprs |-> exprs]
Act(name, params) ==
    [kind |-> "action", name |-> name, params |-> params, exprs |-> {}, session |-> "", target |-> "none"]
Derived(state, other) == [state |-> state, other |-> other, exprs |-> {}, under |-> "totals"]
CleanScreen ==
    [kind |-> "screen", keys |-> {"root"}, root |-> "top",
     elements |-> [top |-> El("box", <<"list", "text">>), list |-> El("box", <<>>), text |-> El("text", <<>>)],
     derive |-> [p \in {} |-> 0], starts |-> <<>>, sources |-> [p \in {} |-> 0], rules |-> <<>>,
     sessions |-> [p \in {} |-> 0], identity |-> {}]
OrphanScreen ==
    [CleanScreen EXCEPT !.elements["top"].children = <<"gone", "list", "lost", "text">>,
        !.elements["list"].children = <<"gone", "text">>, !.rules = <<"requierd">>, !.keys = {"root", "rot"}]
RichScreen ==
    [CleanScreen EXCEPT
        !.elements["text"].type = "toast-container",
        !.elements["text"].props = [position |-> Val("cornr", {}),
                                    maxVisible |-> Val("positive", {[key |-> "state", has |-> {"state"}]})],
        !.elements["list"].props = [tite |-> Val("row", {})], !.elements["list"].columns = {"labl"},
        !.elements["top"].on = <<Act("setState", {"statePath"}),
                                 [kind |-> "transaction", timeout |-> TRUE,
                                  phases |-> [confirm |-> <<Act("fetch", {"url"})>>]]>>,
        !.sessions = [map |-> [paths |-> {"plain"}, wrong |-> {}, persists |-> TRUE]],
        !.sources = [rows |-> [lacks |-> {}, target |-> "rows", under |-> "rows", url |-> "plain"]],
        !.derive = [a |-> Derived({"b"}, {}), b |-> Derived({}, {})]]
KnotScreen ==
    [CleanScreen EXCEPT !.elements["list"].children = <<"top">>,
        !.derive = [a |-> Derived({"b"}, {}), b |-> Derived({"a"}, {})]]
TemplateScreen == [CleanScreen EXCEPT !.derive = [a |-> Derived({"b"}, {}), b |-> Derived({}, {"a"})]]
OneApp ==
    [kind |-> "app", layout |-> OrphanScreen, screens |-> {"home", "login"}, initial |-> "home",
     login |-> <<"login">>, protected |-> <<"*">>, menu |-> <<"hom", "login">>, access |-> <<"home">>, guard |-> {}]
Endpoint(from, count) ==
    [sources |-> from, wrong |-> {}, audit |-> FALSE, count |-> count, scoped |-> TRUE, policy |-> "", path |-> "with id"]
OneApi ==
    [kind |-> "api", endpoints |-> [rows |-> Endpoint({"query"}, "scoped"), edit |-> Endpoint({"crud"}, "none")],
     scopes |-> TRUE, auth |-> TRUE, policies |-> {}, provider |-> {}, catalogs |-> {},
     domains |-> <<"plain", "with port">>]
Mended ==
    CleanScreen :> [CleanScreen EXCEPT !.elements["top"].children = <<"list", "gone", "text">>]
      @@ RichScreen :> CleanScreen @@ OrphanScreen :> CleanScreen
Checks == INSTANCE SpecChecks WITH
    TopKeys <- {"root"}, Primitives <- {"box", "text", "toast-container", "table"}, Customs <- {},
    ValidProps <- [t \in {"box", "text", "toast-container", "table"} |-> {"title", "position", "maxVisible"}],
    HoverTypes <- {"box", "text"}, ColumnKeys <- {"label"}, Validators <- {"required"},
    Required <- [state |-> {"state"}],
    RequiredParams <- [setState |-> {"statePath"}, fetch |-> {"url"}, editorSave |-> {"session"}],
    VariantsOf <- [t \in {"box", "text", "toast-container", "table"} |-> {}],
    Near <- {<<"requierd", "required">>, <<"rot", "root">>, <<"cornr", "corner">>, <<"tite", "title">>,
             <<"labl", "label">>, <<"hom", "home">>},
    Order <- <<"top", "list", "text">>,
    Documents <- {CleanScreen, OrphanScreen, RichScreen, KnotScreen, TemplateScreen,
                  OneApp, OneApi, [OneApi EXCEPT !.scopes = FALSE]},
    Edits <- {Mended}, MaxCommands <- 4
-----------------------------------------------------------------------------
(* The history: three screens, each of which changes, adds or drops an element of the other; *)
(* the diffs of two APIs and of two apps are compared as well. *)

InElement(id, kind, label) ==
    <<"elements", id, "type">> :> kind @@ <<"elements", id, "props", "label">> :> label
ScreenVersions == <<
    InElement("t", "text", "hi"),
    InElement("t", "box", "ho") @@ InElement("u", "text", "hi") @@ <<"elements", "u", "on", "press">> :> "save"
        @@ <<"forms", "f">> :> "g",
    InElement("u", "text", "hi") @@ <<"elements", "u", "on", "press">> :> "drop" @@ <<"elements", "u", "visible">> :> "no">>
ApiVersions == {
    <<"type">> :> "api" @@ <<"endpoints", "rows", "path">> :> "a" @@ <<"endpoints", "rows", "method">> :> "get",
    <<"type">> :> "api" @@ <<"endpoints", "rows", "path">> :> "b" @@ <<"catalogs", "areas", "path">> :> "a",
    <<"type">> :> "api" @@ <<"auth", "provider">> :> "db"}
AppVersions == {
    <<"type">> :> "app" @@ <<"layout", "elements", "m", "type">> :> "menu" @@ <<"screens", "home">> :> "s",
    <<"type">> :> "app" @@ <<"layout", "elements", "m", "type">> :> "bar" @@ <<"layout", "elements", "o", "type">> :> "box"}
Versions == INSTANCE VersionedStores WITH
    Place <- {}, Value <- {}, Saves <- [w \in Saver |-> ScreenVersions[w]], Existing <- {ScreenVersions[2]}, Env <- {"production"}

ASSUME SavedScreens ==
    Saver \subseteq DOMAIN ScreenVersions /\ \A b, a \in ToSet(ScreenVersions) : Versions!NamesAll(b, a)
ASSUME \A b, a \in ApiVersions : Versions!NamesAll(b, a)
ASSUME \A b, a \in AppVersions : Versions!NamesAll(b, a)
-----------------------------------------------------------------------------
(* The contract: a list whose rows can be changed and removed, a form and a login screen, two *)
(* APIs, and a version of each that does not fit the others. *)

Url(path) == [host |-> "relative", path |-> path, query |-> {}]
Fetch(method, url, body) == [action |-> "fetch", method |-> method, url |-> url, body |-> body]
Submit(method, url, body) == [action |-> "submitForm", method |-> method, url |-> url, body |-> body]
Items == <<"api", "items">>
ListScreen(fields) ==
    [starts |-> <<Fetch("none", [Url(Items) EXCEPT !.query = {"page", "plant"}], {})>>,
     sources |-> {[url |-> Url(<<"api", "catalogs", "areas">>), method |-> "none"]},
     handlers |-> [save |-> <<Submit("PUT", Url(Append(Items, "*")), fields)>>,
                   drop |-> <<[action |-> "transaction",
                               phases |-> [confirm |-> <<Fetch("DELETE", Url(Append(Items, "*")), {})>>]]>>]]
FormScreen(method) ==
    [starts |-> <<>>, sources |-> {},
     handlers |-> [send |-> <<Submit(method, [Url(<<"api", "users">>) EXCEPT !.host = "template"], {"name"})>>]]
LoginScreen ==
    [starts |-> <<>>, sources |-> {},
     handlers |-> [submit |-> <<Submit("POST", Url(<<"api", "auth", "login">>), {"username", "password"})>>]]
Fields(insertable, updatable) == <<[insertable |-> insertable, updatable |-> updatable]>>
Declared(path, serves, params, crud, policy) ==
    [path |-> path, method |-> "GET", serves |-> serves, params |-> params, crud |-> crud, policy |-> policy]
ItemsApi(path, roles) ==
    [endpoints |-> <<Declared(path, TRUE, {"plant"}, Fields({"name", "price"}, {"price"}), "editors"),
                     Declared(Append(Items, ":id"), TRUE, {}, <<>>, "none")>>,
     catalogs |-> {"areas"}, auth |-> TRUE, provider |-> TRUE, policies |-> [editors |-> roles]]
UsersApi ==
    [endpoints |-> <<Declared(<<"api", "users">>, FALSE, {}, Fields({"name"}, {}), "none")>>,
     catalogs |-> {}, auth |-> FALSE, provider |-> FALSE, policies |-> [p \in {} |-> {}]]
Contract == INSTANCE ContractCheck WITH
    App <- << [screens |-> <<"list">>, login |-> "login", access |-> [admin |-> {"*"}, clerk |-> {}]],
              [screens |-> <<"list", "form">>, login |-> "login", access |-> [admin |-> {"*"}, clerk |-> {"list"}]] >>,
    ScreenOf <- [list |-> <<ListScreen({"price"}), ListScreen({"price", "name"})>>,
                 form |-> <<FormScreen("POST"), FormScreen("none")>>, login |-> <<LoginScreen>>],
    ApiOf <- [items |-> <<ItemsApi(Items, {"admin"}), ItemsApi(Items, {"admin", "clerk"}), ItemsApi(<<"api", "things">>, {"admin"})>>,
              users |-> <<UsersApi>>],
    ApiIds <- <<"items", "users">>, Unreadable <- {"form"}, HasBaseUrl <- FALSE, Parameter <- {":id"}
-----------------------------------------------------------------------------
PieceInit ==
    /\ piece \in Pieces
    /\ IF piece = "store" THEN Init
       ELSE /\ piece # "api" => dialect = "sqlite"
            /\ stored = [i \in Id |-> None] /\ work = [k \in Conn |-> Closed]
            /\ owner = [k \in Conn |-> None] /\ call = [c \in Caller |-> Idle]
    /\ IF piece = "api" THEN Api!Init
       ELSE table = [i \in 1 .. MaxId |-> Null] /\ request = [c \in Client |-> Api!Free]
    /\ IF piece = "serving" THEN Serving!ServingInit
       ELSE screens = [i \in ScreenId |-> Serving!NoSpec] /\ running = FALSE /\ public = {} /\ known = screens
    /\ Checks!CheckInit
    /\ Versions!VersionsInit /\ (piece # "versions" => store = "memory" /\ base = NoDoc)
    /\ Contract!ContractInit
    /\ built \in IF piece = "built" THEN Statements ELSE {None}

PieceNext ==
    /\ \/ piece = "store" /\ Next /\ UNCHANGED <<table, request, screens, running, public, known, checkVars, historyVars, contractVars>>
       \/ piece = "api" /\ Api!Next /\ UNCHANGED <<vars, screens, running, public, known, checkVars, historyVars, contractVars>>
       \/ piece = "serving" /\ Serving!ServingNext /\ UNCHANGED <<vars, table, request, checkVars, historyVars, contractVars>>
       \/ piece = "checks" /\ Checks!CheckNext /\ UNCHANGED <<vars, table, request, screens, running, public, known, historyVars, contractVars>>
       \/ piece = "versions" /\ Versions!VersionsNext
             /\ UNCHANGED <<vars, table, request, screens, running, public, known, checkVars, contractVars>>
       \/ piece = "contract" /\ Contract!ContractNext
             /\ UNCHANGED <<vars, table, request, screens, running, public, known, checkVars, historyVars>>
    /\ UNCHANGED <<piece, built>>

\* The database answers: what can go on on a connection goes on.
PieceSpec ==
    /\ PieceInit /\ [][PieceNext]_pieceVars
    /\ WF_pieceVars(/\ piece = "store" /\ \E c \in Caller : Step(c)
                    /\ UNCHANGED <<table, request, screens, running, public, known, piece, built, checkVars, historyVars, contractVars>>)

\* Every call of the store ends, however the calls share connections and rows.
StoreCallsEnd == \A c \in Caller : (piece = "store" /\ call[c].pc # "idle") ~> Ended(c)

\* The answer to a list is one state of the table (ApiServer!ListAgrees) and the answer to a
\* write says whether its row was written (WriteTold), whichever statements of others run
\* between the request's own, in a dialect that returns the row it wrote and in one that has
\* to read it again.
AnswersTrue == piece = "api" => Api!ListAgrees /\ Api!WriteTold

\* Every login screen there is is served without a token (SpecServing!LoginReachable).
EveryLoginServed == piece = "serving" => Serving!LoginReachable

\* Every value reaches its column, in every dialect (SqlStatements!BindsRight).
StatementsBindRight ==
    piece = "built" =>
        Builders!BindsRight(built.dialect, built.columns, SafeName, ValueGiven, built.where, WhereParams)

\* A version is what was saved under its number, for whoever saved it and for an environment
\* that points to it, and a diff of two names what differs
\* (VersionedStores!VersionsRebuild, NumbersAreOwn, EnvironmentsStay, DiffExact).
VersionsSound ==
    piece = "versions" =>
        Versions!VersionsRebuild /\ Versions!NumbersAreOwn /\ Versions!EnvironmentsStay /\ Versions!DiffExact
\* Whatever calls overlap on a pool, the table changes by one whole save or delete at a
\* time, of a call under way (SqlSpecStore!OneCallAtATime), and a call that reports success
\* has been stored (AcknowledgedIsStored), although any statement may fail. A request of the
\* API changes at most one row, in its user's scope (ApiServer!OneRowAtATime).
WritesWhole ==
    [][/\ piece = "store" => OneCall /\ Acknowledges
       /\ piece = "api" => Api!OneRow]_pieceVars

\* What is printed as the fixes of a document mends that document, and one that is accepted
\* can be mounted (SpecChecks!FixesSound, AcceptedMounts). What the contract of an app
\* accepts is served, and its verdict is that of the documents that are stored
\* (ContractCheck!AcceptedServed, VerdictCurrent).
VerdictsSound ==
    /\ piece = "checks" => Checks!CheckTypeOK /\ Checks!FixesSound /\ Checks!AcceptedMounts
    /\ piece = "contract" => Contract!AcceptedServed /\ Contract!VerdictCurrent
-----------------------------------------------------------------------------
(* What the code does not keep *)

\* Every request of a screen that was accepted is served (ContractCheck!EverythingServed).
EverythingServed == piece = "contract" => Contract!EverythingServed

\* The spec is its newest version (VersionedStores!SpecIsNewest).
SpecIsNewest == piece = "versions" => Versions!SpecIsNewest

\* No version is loaded that was never saved (VersionedStores!NoLaterVersion).
NoLaterVersion == piece = "versions" => Versions!NoLaterVersion

\* The spec that was there before the first save is the first version
\* (VersionedStores!FirstKept).
FirstKept == piece = "versions" => Versions!FirstKept

\* Derives that wait for each other are found (SpecChecks!CyclesFound).
CyclesFound == piece = "checks" => Checks!CyclesFound

\* The printed patch belongs to the document that is stored (SpecChecks!FixesFit).
FixesFit == piece = "checks" => Checks!FixesFit

\* A fix for an unknown prop leaves none (SpecChecks!WarningsSettle).
WarningsSettle == piece = "checks" => Checks!WarningsSettle
=============================================================================
