--------------------------- MODULE ActionDispatch ---------------------------
(***************************************************************************)
(* The actions of a page: the chains a press, a timer or the mounting of a *)
(* spec starts in MythikRenderer, the dispatcher (core/src/actions) with   *)
(* its middleware, rate limiter and guards, the notifications and the      *)
(* containers that show and dismiss them, and the skeleton shown while the *)
(* first data is fetched.  A chain is an async function: between two of    *)
(* its awaits nothing else runs, and a promise that is settled goes on     *)
(* before anything from outside (Micro).  Time goes by in ticks.           *)
(***************************************************************************)
EXTENDS Integers, Sequences, SequencesExt, FiniteSetsExt

CONSTANTS
    Presses,      \* what can be pressed: [type, keeps, context, steps]; keeps: skeleton is false
    Specs,        \* a sequence: the initialActions of each spec the page is given
    Starting,     \* what the store holds at first
    Outcomes,     \* what a fetch comes to: data, "failed" or "lost"
    Protected,    \* the paths of the state guard
    Blocked,      \* the urls the url guard does not allow
    Registered,   \* the custom actions
    PerWindow,    \* maxActionsPerSecond
    Window,       \* a second, in ticks
    Stay,         \* the durations there are, that of the container among them, in ticks
    MaxVisible,   \* of a container
    BoxesOf,      \* the toast containers of each: of the layout, of the screen in its outlet
    MaxPresses, MaxToasts,   \* bounds
    AfterThrows,  \* whether an after-hook of the middleware may throw
    Impatient      \* whether users press on while a chain runs, and specs are replaced meanwhile

VARIABLES
    device,    \* "web" or "native"
    held,      \* the store, but for the notifications
    chains,    \* the chains that run, and the actions no chain waits for
    pace,      \* the rate limiter, and how many actions it admitted at each of the last ticks
    toasts,    \* /ui/notifications
    boxes,     \* the containers: what each shows, and the timers it has set
    page,      \* the spec, and what was rendered last
    spent      \* presses, notifications, and those of which a dismissal was refused

actionVars == <<device, held, chains, pace, toasts, boxes, page, spent>>

Boxes == UNION ToSet(BoxesOf)
Nothing == "nothing"
Forever == "forever"
-----------------------------------------------------------------------------
(* Chains *)

NoCall == [pc |-> "none"]
Chain(of, steps, context) == [of |-> of, rest |-> steps, context |-> context, call |-> NoCall]

\* Some promise is settled that a chain or an action waits for.
Goes(c) == c.call.pc # "fetching"
Calm == \A k \in DOMAIN chains : ~Goes(chains[k])

\* What a param is worth: a constant, what is at a path, or the next number there; skipIf
\* only asks whether that is something.
Worth(e) ==
    CASE e.kind = "path" -> held[e.of]
      [] e.kind = "next" -> held[e.of] + 1
      [] OTHER -> e.value

\* dispatch, up to the hooks that are run before the action: skipIf comes first, then the
\* params are worth what they are worth now. An action that is fired and forgotten leaves
\* its chain.
CallOf(step) == [step |-> step, value |-> Worth(step.with), pc |-> "before", heard |-> <<>>, refused |-> FALSE]
Begin(k) ==
    LET c == chains[k]
        step == Head(c.rest)
        left == [c EXCEPT !.rest = Tail(@)]
    IN  /\ c.call = NoCall /\ c.rest # <<>>
        /\ chains' = CASE Worth(step.skip) # Nothing -> [chains EXCEPT ![k] = left]
                       [] step.forget -> Append([chains EXCEPT ![k] = left],
                                                [left EXCEPT !.of = "forgotten", !.rest = <<>>, !.call = CallOf(step)])
                       [] OTHER -> [chains EXCEPT ![k] = [left EXCEPT !.call = CallOf(step)]]
        /\ UNCHANGED <<device, held, pace, toasts, boxes, page, spent>>

\* The chain goes on, whatever became of the action, and ends after its last one.
Return(k) ==
    /\ chains[k].call.pc = "ended" \/ (chains[k].call = NoCall /\ chains[k].rest = <<>>)
    /\ chains' = IF chains[k].rest = <<>> THEN RemoveAt(chains, k) ELSE [chains EXCEPT ![k].call = NoCall]
    /\ UNCHANGED <<device, held, pace, toasts, boxes, page, spent>>
-----------------------------------------------------------------------------
(* The action *)

\* RateLimiter.check: the window starts anew at the first action after it; refused ones count.
Checked == IF pace.age >= Window THEN [pace EXCEPT !.count = 1, !.age = 0]
           ELSE [pace EXCEPT !.count = Min({@ + 1, PerWindow + 1})]
Admitted == Checked.count <= PerWindow

\* The guards look at builtin actions by name.
GuardsPass(step) ==
    /\ step.do \in {"fetch"} => step.at \notin Blocked
    /\ step.do = "setState" => step.at \notin Protected

\* A handler that throws: a param is missing, a custom action is unknown, or writes where it may not.
Throws(step) ==
    \/ step.do \in {"setState", "toggle", "fetch"} /\ step.at = Nothing
    \/ step.do = "custom" /\ step.at \in Protected
    \/ step.do \notin {"setState", "write", "toggle", "notify", "dismiss", "fetch"} \cup Registered

\* What the middleware is told at the end.
Verdicts(ok) == IF ~ok THEN {<<"error">>} ELSE {<<"after">>} \cup IF AfterThrows THEN {<<"after", "error">>} ELSE {}

Ends(k, ok) == \E v \in Verdicts(ok) : chains' = [chains EXCEPT ![k].call.pc = "ended", ![k].call.heard = v]
Writes(changed) == held' = changed /\ page' = [page EXCEPT !.dirty = @ \/ changed # held]
Unheld == UNCHANGED <<held, page>>
Told ==
    /\ boxes' = [b \in Boxes |-> [boxes[b] EXCEPT !.due = @ \/ boxes[b].mounted]]
    /\ page' = [page EXCEPT !.dirty = TRUE] /\ UNCHANGED held
Untold == UNCHANGED <<toasts, boxes>>

\* The middle of dispatch: the limiter and the guards throw outside the try, so the middleware
\* hears nothing of a refused action.
Refuse(k) ==
    LET step == chains[k].call.step
    IN  /\ chains[k].call.pc = "before"
        /\ ~Admitted \/ ~GuardsPass(step)
        /\ pace' = IF Admitted THEN [Checked EXCEPT !.admitted[1] = @ + 1] ELSE Checked
        /\ chains' = [chains EXCEPT ![k].call.pc = "ended", ![k].call.refused = TRUE]
        /\ spent' = IF step.do = "dismiss" THEN [spent EXCEPT !.refused = @ \cup {step.at}] ELSE spent
        /\ Unheld /\ Untold /\ UNCHANGED device

\* The handler: setState and the builtin actions that write one path, those that read the
\* store first (toggleTheme, toggleSelection), notifications, and fetch up to its answer.
Handle(k) ==
    LET call == chains[k].call
        step == call.step
    IN  /\ call.pc = "before" /\ Admitted /\ GuardsPass(step)
        /\ pace' = [Checked EXCEPT !.admitted[1] = @ + 1]
        /\ UNCHANGED device
        /\ \/ Throws(step) /\ Ends(k, FALSE) /\ Unheld /\ Untold /\ UNCHANGED spent
           \/ /\ ~Throws(step) /\ step.do \in {"setState", "write", "custom"}
              /\ Writes([held EXCEPT ![step.at] = call.value]) /\ Ends(k, TRUE)
              /\ Untold /\ UNCHANGED spent
           \/ /\ ~Throws(step) /\ step.do = "toggle"
              /\ Writes([held EXCEPT ![step.at] = ~@]) /\ Ends(k, TRUE)
              /\ Untold /\ UNCHANGED spent
           \/ /\ step.do = "notify" /\ spent.toasts < MaxToasts
              /\ toasts' = Append(toasts, [id |-> spent.toasts + 1, stay |-> step.at, age |-> 0])
              /\ spent' = [spent EXCEPT !.toasts = @ + 1]
              /\ Ends(k, TRUE) /\ Told
           \/ /\ step.do = "dismiss"
              /\ toasts' = SelectSeq(toasts, LAMBDA n : n.id # step.at)
              /\ Ends(k, TRUE) /\ Told /\ UNCHANGED spent
           \/ /\ ~Throws(step) /\ step.do = "fetch"
              /\ Writes([held EXCEPT !["loading"] = TRUE])
              /\ chains' = [chains EXCEPT ![k].call.pc = "fetching"]
              /\ Untold /\ UNCHANGED spent

\* Fault: the catch of fetch does not take the flag of loading back.
ArrivedStuck(outcome, target) ==
    [p \in DOMAIN held |->
        CASE p = "loading" -> outcome = "lost"
          [] p = "error" -> IF outcome \in {"failed", "lost"} THEN outcome ELSE Nothing
          [] p = target /\ outcome \notin {"failed", "lost"} -> outcome
          [] OTHER -> held[p]]

\* The rest of fetch: an answer with data goes to its target, others to the error paths.
Arrived(outcome, target) ==
    [p \in DOMAIN held |->
        CASE p = "loading" -> FALSE
          [] p = "error" -> IF outcome \in {"failed", "lost"} THEN outcome ELSE Nothing
          [] p = target /\ outcome \notin {"failed", "lost"} -> outcome
          [] OTHER -> held[p]]
Answer(k, outcome) ==
    /\ Calm /\ chains[k].call.pc = "fetching"
    /\ Writes(Arrived(outcome, chains[k].call.step.into))
    /\ Ends(k, TRUE)
    /\ Untold /\ UNCHANGED <<device, pace, spent>>

\* Users who wait see what there is before they do something.
Steady == \A k \in DOMAIN chains : chains[k].of \notin {"press", "initial"}
Seen == Impatient \/ (Steady /\ ~page.dirty /\ \A b \in Boxes : ~boxes[b].due)

Micro == \E k \in DOMAIN chains : Begin(k) \/ Refuse(k) \/ Handle(k) \/ Return(k)
-----------------------------------------------------------------------------
(* The page *)

\* skeletonMode: while something loads, as long as the target of an initial fetch is empty.
FetchTargets == {step.into : step \in {s \in ToSet(Specs[page.edition]) : s.do = "fetch"}} \ {Nothing}
Empty(v) == v \in {Nothing, "empty list"}
Waiting == held["loading"] /\ \E t \in FetchTargets : Empty(held[t])

\* A memo of whether it loads and of the spec: another reason to change it is not noticed.
Render ==
    /\ Calm /\ page.dirty
    /\ page' = [page EXCEPT !.dirty = FALSE, !.loading = held["loading"],
                            !.skeleton = IF held["loading"] = page.loading THEN @ ELSE Waiting]
    \* The callback of the container is another one, which its effect depends on.
    /\ boxes' = [b \in Boxes |-> [boxes[b] EXCEPT !.due = @ \/ (device = "native" /\ boxes[b].mounted)]]
    /\ UNCHANGED <<device, held, chains, pace, toasts, spent>>

\* What renderNode makes of an element while the skeleton is shown. A skeleton of the spec's
\* own is among those that are skipped.
Passthrough == {"stack", "grid", "box", "scroll", "list"}
Skipped == {"modal", "drawer", "tabs", "accordion", "wizard", "screen", "toast-container", "screen-outlet", "skeleton"}
           \cup IF device = "web" THEN {"file-upload", "camera", "signature", "audio-player", "kanban-board"} ELSE {}
Shaped == {"text", "image", "button", "input", "textarea", "select", "icon", "slider", "checkbox", "toggle"}
          \cup IF device = "web" THEN {"bar-chart", "line-chart", "pie-chart", "area-chart", "table"} ELSE {}
Drawn(type, keeps) ==
    CASE keeps \/ ~page.skeleton -> "itself"
      [] type \in Skipped -> "nothing"
      [] type \in Passthrough -> "layout"
      [] type \in Shaped -> "shape"
      [] OTHER -> "itself"

\* A container comes with a spec: one of its own, or the one of the renderer. It starts with
\* what the store holds on the web, with nothing on a device.
NoBox == [mounted |-> FALSE, due |-> FALSE, shown |-> <<>>, timers |-> <<>>]
MountedBox(b) ==
    IF boxes[b].mounted THEN boxes[b] ELSE [NoBox EXCEPT !.mounted = TRUE, !.due = device = "web"]

\* The initial actions run when a spec is mounted. What an earlier spec began goes on.
ReplaceSpec ==
    /\ Calm /\ Seen /\ page.edition < Len(Specs)
    /\ LET edition == page.edition + 1
           next == [page EXCEPT !.edition = edition]
       IN  /\ page' = [next EXCEPT !.dirty = FALSE, !.loading = held["loading"],
                         !.skeleton = held["loading"] /\ \E s \in ToSet(Specs[edition]) :
                                         s.do = "fetch" /\ s.into # Nothing /\ Empty(held[s.into])]
           /\ chains' = IF Specs[edition] = <<>> THEN chains
                        ELSE Append(chains, Chain("initial", Specs[edition], <<>>))
           /\ boxes' = [b \in Boxes |-> IF b \in BoxesOf[edition] THEN MountedBox(b) ELSE NoBox]
    /\ UNCHANGED <<device, held, pace, toasts, spent>>

\* A press, a change or a submit of an element that is there: what it is about is put in the
\* store (the row of a table, the item of a map, the bound value), then the chain starts.
Press(p) ==
    /\ Calm /\ Seen /\ spent.presses < MaxPresses
    /\ Drawn(p.type, p.keeps) = "itself"
    /\ Writes(IF p.context = <<>> THEN held ELSE [held EXCEPT ![p.context[1]] = p.context[2]])
    /\ chains' = IF p.steps = <<>> THEN chains ELSE Append(chains, Chain("press", p.steps, p.context))
    /\ spent' = [spent EXCEPT !.presses = @ + 1]
    /\ UNCHANGED <<device, pace, toasts, boxes>>
-----------------------------------------------------------------------------
(* The containers *)

\* The notifications a container keeps: a device shows the last ones only, and times no others.
Kept == IF device = "native" THEN SubSeq(toasts, Max({1, Len(toasts) - MaxVisible + 1}), Len(toasts)) ELSE toasts
Timed(n) == n.stay # Forever
StayOf(n) == Stay[n.stay]

\* The effect after a notification came or went. On the web one that has a timer keeps it;
\* a device starts all timers again, for what is left of each stay.
TimersOf(b, kept) ==
    LET timed == {n \in ToSet(kept) : Timed(n)}
        Left(n) == IF device = "native" THEN Max({0, StayOf(n) - n.age})
                   ELSE IF n.id \in DOMAIN boxes[b].timers THEN boxes[b].timers[n.id] ELSE StayOf(n)
    IN  [id \in {n.id : n \in timed} |-> Left(CHOOSE n \in timed : n.id = id)]
Commit(b) ==
    /\ Calm /\ boxes[b].due
    /\ boxes' = [boxes EXCEPT ![b].due = FALSE, ![b].shown = [i \in DOMAIN Kept |-> Kept[i].id],
                              ![b].timers = TimersOf(b, Kept)]
    /\ UNCHANGED <<device, held, chains, pace, toasts, page, spent>>

Dismissal(id) ==
    << [do |-> "dismiss", at |-> id, with |-> [kind |-> "value", value |-> Nothing],
        skip |-> [kind |-> "value", value |-> Nothing], forget |-> FALSE, into |-> Nothing] >>

\* A timer forgets itself and has the notification dismissed.
Fire(b) ==
    /\ Calm
    /\ \E id \in DOMAIN boxes[b].timers :
         /\ boxes[b].timers[id] = 0
         /\ boxes' = [boxes EXCEPT ![b].timers = [i \in DOMAIN @ \ {id} |-> @[i]]]
         /\ chains' = Append(chains, Chain("timer", Dismissal(id), <<>>))
    /\ UNCHANGED <<device, held, pace, toasts, page, spent>>

\* The button of a toast.
Close(b) ==
    /\ Calm /\ Seen /\ spent.presses < MaxPresses
    /\ \E id \in ToSet(boxes[b].shown) : chains' = Append(chains, Chain("close", Dismissal(id), <<>>))
    /\ spent' = [spent EXCEPT !.presses = @ + 1]
    /\ UNCHANGED <<device, held, pace, toasts, boxes, page>>

\* Time goes by when what is due has been done.
Tick ==
    /\ Calm /\ ~page.dirty
    /\ \A b \in Boxes : ~boxes[b].due /\ \A id \in DOMAIN boxes[b].timers : boxes[b].timers[id] > 0
    /\ boxes' = [b \in Boxes |-> [boxes[b] EXCEPT !.timers = [id \in DOMAIN @ |-> @[id] - 1]]]
    /\ toasts' = [i \in DOMAIN toasts |->
                    IF Timed(toasts[i]) THEN [toasts[i] EXCEPT !.age = Min({StayOf(toasts[i]), @ + 1})] ELSE toasts[i]]
    /\ pace' = [pace EXCEPT !.age = Min({Window, @ + 1}), !.admitted = <<0>> \o SubSeq(@, 1, Window - 1)]
    /\ UNCHANGED <<device, held, chains, page, spent>>
-----------------------------------------------------------------------------
ActionInit ==
    /\ device \in {"web", "native"}
    /\ held = Starting
    /\ page = [edition |-> 1, dirty |-> FALSE, loading |-> FALSE, skeleton |-> FALSE]
    /\ chains = IF Specs[1] = <<>> THEN <<>> ELSE <<Chain("initial", Specs[1], <<>>)>>
    /\ pace = [count |-> 0, age |-> 0, admitted |-> [i \in 1 .. Window |-> 0]]
    /\ toasts = <<>>
    /\ boxes = [b \in Boxes |-> [NoBox EXCEPT !.mounted = b \in BoxesOf[1]]]
    /\ spent = [presses |-> 0, toasts |-> 0, refused |-> {}]

\* What goes on by itself: promises, the network, frames, effects and time.
Onward ==
    \/ Micro \/ Render \/ Tick
    \/ \E k \in DOMAIN chains, outcome \in Outcomes : Answer(k, outcome)
    \/ \E b \in Boxes : Commit(b) \/ Fire(b)
ActionNext ==
    \/ Onward \/ ReplaceSpec
    \/ \E p \in Presses : Press(p)
    \/ \E b \in Boxes : Close(b)
-----------------------------------------------------------------------------
ActionTypeOK ==
    /\ device \in {"web", "native"} /\ DOMAIN held = DOMAIN Starting
    /\ \A k \in DOMAIN chains :
         /\ chains[k].of \in {"initial", "press", "timer", "close", "forgotten"}
         /\ chains[k].call.pc \in {"none", "before", "fetching", "ended"}
    /\ pace.count \in 0 .. PerWindow + 1 /\ pace.age \in 0 .. Window
    /\ \A i, j \in DOMAIN toasts : i < j => toasts[i].id < toasts[j].id
    /\ spent.presses \in 0 .. MaxPresses

\* No more actions are admitted in any stretch of a window's length than two windows allow,
\* although windows start when an action comes.
PaceKept == FoldSeq(LAMBDA n, sum : n + sum, 0, pace.admitted) <= 2 * PerWindow

\* Once an action is over, the middleware has been told once how it ended, unless it was refused.
OneVerdict ==
    \A k \in DOMAIN chains : LET call == chains[k].call IN
        call.pc = "ended" => Len(call.heard) = (IF call.refused THEN 0 ELSE 1)

\* The loading flag does not outlive the fetches.
LoadingEnds == held["loading"] => \E k \in DOMAIN chains : chains[k].call.pc = "fetching"

\* The skeleton is shown while something loads that is not there yet.
SkeletonTrue == page.skeleton /\ ~page.dirty => Waiting

\* A chain acts on what was pressed: an action that reads the context gets that of its press.
ContextKept ==
    \A k \in DOMAIN chains : LET c == chains[k] IN
        /\ c.call # NoCall /\ c.context # <<>> /\ c.call.step.with.kind = "path"
        /\ c.call.step.with.of = c.context[1]
        => c.call.value = c.context[2]

\* A notification that is to go has a timer that was not lost, unless a dismissal of it was
\* refused, and what is gone has none.
Dismissing(id) == \E k \in DOMAIN chains : chains[k].of \in {"timer", "close"} /\
                     \E step \in ToSet(chains[k].rest) \cup (IF chains[k].call = NoCall THEN {} ELSE {chains[k].call.step}) :
                       step.at = id
TimersTrue ==
    \A b \in Boxes : boxes[b].mounted /\ ~boxes[b].due =>
        /\ DOMAIN boxes[b].timers \subseteq {n.id : n \in ToSet(toasts)}
        /\ \A n \in ToSet(toasts) :
             Timed(n) /\ (\E i \in DOMAIN boxes[b].shown : boxes[b].shown[i] = n.id) =>
                 n.id \in DOMAIN boxes[b].timers \cup spent.refused \/ Dismissing(n.id)

\* A value that is computed from the store is written while it is still that.
WritesFresh ==
    \A k \in DOMAIN chains : LET call == chains[k].call IN
        call.pc = "before" /\ call.step.with.kind = "next" => call.value = Worth(call.step.with)

\* No notification that is to go is left when all has come to rest, unless a dismissal of it
\* was refused.
NoneLeft ==
    chains = <<>> /\ (\A b \in Boxes : ~boxes[b].due /\ DOMAIN boxes[b].timers = {}) =>
        \A n \in ToSet(toasts) : Timed(n) => n.id \in spent.refused
=============================================================================
