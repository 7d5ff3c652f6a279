---------------------------- MODULE SpecRuntime ----------------------------
(***************************************************************************)
(* What mountSpecRuntime starts for a screen on the state store: derived   *)
(* state (derive/evaluator) and data sources (data/data-sources).  A write *)
(* calls the listeners in the order they subscribed, the derive engine and *)
(* then the data sources, and each of them may write in turn before the    *)
(* first write returns: frames is that call stack, and nothing else of the *)
(* program runs while there is one.                                        *)
(*                                                                         *)
(* A path is a sequence of segments; the store is kept as the values of    *)
(* disjoint cells.  A value is the set of inputs it was computed from:     *)
(* the empty set is undefined, a derived value is what its expression      *)
(* read, and the answer to a request is what its url and params held.      *)
(***************************************************************************)
EXTENDS Naturals, Sequences, SequencesExt

CONSTANTS Input,      \* the cells the user, actions and messages write
          Datum,      \* what can be written into them
          Derives,    \* the derived cells, in the order of the spec
          DepChoices, \* for a derived cell, the dependencies its expression may have
          Sort(_, _), \* topologicalSort (module DeriveOrder)
          Sources,    \* the data sources, in the order of the spec
          Config      \* their configuration

VARIABLES deps,      \* what the derived cells of this spec read
          phase,     \* "new", "mounting" (the derived cells are filled in), "starting" (the
                     \* sources make their first fetches), "mounted", "failed" or "gone"
          state,     \* the store
          frames,    \* the writes whose listeners are running, innermost first
          source,    \* per data source: flags, debounce timer, whether the answer
                     \* that came last is that of the request sent last
          flight     \* the requests in flight

vars == <<deps, phase, state, frames, source, flight>>

Derived == ToSet(Derives)
Source == ToSet(Sources)
Target(s) == Config[s].target
Cell == Input \cup Derived \cup {Target(s) : s \in Source}
Undefined == {}

\* Circular derives: a set none of which can come first.
Cyclic(reads) ==
    \E S \in SUBSET Derived : S # {} /\ \A a \in S : \E b \in S : b \in ToSet(reads[a])

\* The sort fails exactly for circular derives, and otherwise puts every derive once,
\* after all those it reads.
SortsByReading(reads, result) ==
    /\ result.cyclic <=> Cyclic(reads)
    /\ ~result.cyclic =>
         /\ result.sorted \in Seq(Derived) /\ ToSet(result.sorted) = Derived
         /\ IsInjective(result.sorted)
         /\ \A i, j \in DOMAIN result.sorted :
              result.sorted[j] \in ToSet(reads[result.sorted[i]]) => j < i
ASSUME SortSorts ==
    \A reads \in [Derived -> DepChoices] : SortsByReading(reads, Sort(Derives, reads))
ASSUME SourcesForm == Sources \in Seq(Source)

Overlap(a, b) == IsPrefix(a, b) \/ IsPrefix(b, a)

\* What reading a path, or all of some paths, yields.
Read(store, path) == UNION {store[c] : c \in {c \in Cell : Overlap(c, path)}}
ReadAll(store, paths) == UNION {Read(store, p) : p \in paths}

ValueOf(cell) == {Undefined} \cup {{<<cell, d>>} : d \in Datum}

Fresh == [deferred |-> FALSE, loading |-> FALSE, failed |-> FALSE, timer |-> FALSE,
          current |-> FALSE]

TypeOK ==
    /\ deps \in [Derived -> DepChoices]
    /\ phase \in {"new", "mounting", "starting", "mounted", "failed", "gone"}
    /\ state \in [Cell -> SUBSET (Input \X Datum)]
    /\ source \in [Source -> [deferred : BOOLEAN, loading : BOOLEAN, failed : BOOLEAN,
                              timer : BOOLEAN, current : BOOLEAN]]
    /\ flight \subseteq [of : Source, newest : BOOLEAN, asked : SUBSET (Input \X Datum)]

Init ==
    /\ deps \in [Derived -> DepChoices]
    /\ phase = "new"
    /\ state \in {s \in [Cell -> {Undefined} \cup UNION {ValueOf(c) : c \in Input}] :
                    /\ \A c \in Input : s[c] \in ValueOf(c)
                    /\ \A c \in Cell \ Input : s[c] = Undefined}
    /\ frames = <<>>
    /\ source = [s \in Source |-> Fresh]
    /\ flight = {}
-----------------------------------------------------------------------------
(* Writing.  Work is a step a listener has still to make: to look at a derived *)
(* cell or a source, to start the fetch of a source, or to send it; and while  *)
(* mounting, to evaluate the derives from the n-th on, or to mount a source.   *)

Work(do, what) == [do |-> do, what |-> what]
Order == Sort(Derives, deps).sorted

DeriveWork == [i \in DOMAIN Order |-> Work("derive", Order[i])]
SourceWork == [i \in DOMAIN Sources |-> Work("source", Sources[i])]

\* The listeners a write calls: the sources listen after all their first fetches.
Listeners ==
    CASE phase = "starting" -> DeriveWork
      [] phase = "mounted" -> DeriveWork \o SourceWork
      [] OTHER -> <<>>

Frame(path, work) == [path |-> path, work |-> work]

\* Fault: a write made by a listener calls no listeners.
WriteThenQuietly(path, value, rest) ==
    /\ state' = [state EXCEPT ![path] = value]
    /\ frames' = <<Frame(Head(frames).path, rest)>> \o Tail(frames)

\* store.set inside the work of the innermost frame, whose remaining work is rest.
WriteThen(path, value, rest) ==
    /\ state' = [state EXCEPT ![path] = value]
    /\ frames' = IF state[path] = value THEN <<Frame(Head(frames).path, rest)>> \o Tail(frames)
                 ELSE <<Frame(path, Listeners), Frame(Head(frames).path, rest)>> \o Tail(frames)

Idle == frames = <<>>
Doing(do) == ~Idle /\ Head(frames).work # <<>> /\ Head(Head(frames).work).do = do
What == Head(Head(frames).work).what
Changed == Head(frames).path
Rest == Tail(Head(frames).work)
Skip == frames' = <<Frame(Changed, Rest)>> \o Tail(frames)
Replace(work) == frames' = <<Frame(Changed, work \o Rest)>> \o Tail(frames)

\* A set called from outside the store's listeners.
Write(path, value) ==
    /\ state' = [state EXCEPT ![path] = value]
    /\ frames' = IF state[path] = value THEN <<>> ELSE <<Frame(path, Listeners)>>

\* The loop over the listeners ends; that of the sources' mount ends with listening.
Return ==
    /\ ~Idle /\ Head(frames).work = <<>>
    /\ frames' = Tail(frames)
    /\ phase' = IF phase = "starting" /\ frames' = <<>> THEN "mounted" ELSE phase
    /\ UNCHANGED <<deps, state, source, flight>>
-----------------------------------------------------------------------------
(* Derived state *)

\* Fault: only a change of the very path read makes a derived cell dirty.
DirtyExact(paths) == \E dep \in paths : dep = Changed

Dirty(paths) == \E dep \in paths : Overlap(dep, Changed)

\* onStateChange, one derived cell: evaluatePath if it is dirty.
Derive ==
    /\ Doing("derive")
    /\ IF Dirty(ToSet(deps[What]))
       THEN WriteThen(What, ReadAll(state, ToSet(deps[What])), Rest)
       ELSE Skip /\ UNCHANGED state
    /\ UNCHANGED <<deps, phase, source, flight>>

\* mountSpecRuntime, also again on a store that holds what an earlier mount of the
\* screen left there, and with its requests still in flight: a circular derive throws.
Mount ==
    /\ Idle /\ phase \in {"new", "gone"}
    /\ IF Sort(Derives, deps).cyclic
       THEN /\ phase' = "failed"
            /\ UNCHANGED frames
       ELSE /\ phase' = "mounting"
            /\ frames' = <<Frame(<<>>, <<Work("evaluate", 1)>>)>>
    /\ source' = [s \in Source |-> [source[s] EXCEPT !.current = FALSE]]
    /\ flight' = {[f EXCEPT !.newest = FALSE] : f \in flight}
    /\ UNCHANGED <<deps, state>>

\* The derived cells are filled in in order, while nobody listens; then the engine
\* listens, and the data sources mount.
Evaluate ==
    /\ Doing("evaluate")
    /\ IF What \in DOMAIN Order
       THEN /\ state' = [state EXCEPT ![Order[What]] = ReadAll(state, ToSet(deps[Order[What]]))]
            /\ frames' = <<Frame(<<>>, <<Work("evaluate", What + 1)>>)>>
            /\ UNCHANGED phase
       ELSE /\ phase' = "starting"
            /\ frames' = <<Frame(<<>>, [i \in DOMAIN Sources |-> Work("mount", Sources[i])])>>
            /\ UNCHANGED state
    /\ UNCHANGED <<deps, source, flight>>
-----------------------------------------------------------------------------
(* Data sources *)

\* mount, one source: its first fetch, unless the spec says to wait.
MountSource ==
    /\ Doing("mount")
    /\ IF Config[What].initialFetch THEN Replace(<<Work("fetch", What)>>) ELSE Skip
    /\ UNCHANGED <<deps, phase, state, source, flight>>

\* The subscription, one source: an automatic one fetches at once or after its
\* debounce when the change touches what it reads and is not of its own making.
Look ==
    /\ Doing("source")
    /\ LET s == What
           config == Config[s]
       IN  IF /\ config.auto
              /\ ~IsPrefix(config.target, Changed)
              /\ Dirty(config.url \cup config.params)
           THEN IF config.debounced
                THEN /\ Skip
                     /\ source' = [source EXCEPT ![s].timer = TRUE]
                ELSE /\ Replace(<<Work("fetch", s)>>)
                     /\ UNCHANGED source
           ELSE Skip /\ UNCHANGED source
    /\ UNCHANGED <<deps, phase, state, flight>>

Missing(s) == \E p \in Config[s].url : Read(state, p) = Undefined

\* fetchDataSource up to the resolution of the url: a source whose url is not
\* complete waits; otherwise the flags are set and the target may be emptied.
Fetch ==
    /\ Doing("fetch")
    /\ LET s == What IN
         IF Missing(s)
         THEN /\ source' = [source EXCEPT ![s].deferred = TRUE, ![s].loading = FALSE]
              /\ Skip /\ UNCHANGED state
         ELSE /\ source' = [source EXCEPT ![s].deferred = FALSE, ![s].loading = TRUE,
                                          ![s].failed = FALSE]
              /\ IF Config[s].emptied
                 THEN WriteThen(Target(s), Undefined, <<Work("send", s)>> \o Rest)
                 ELSE Replace(<<Work("send", s)>>) /\ UNCHANGED state
    /\ UNCHANGED <<deps, phase, flight>>

\* The rest of fetchDataSource up to its await; the requests sent before are no
\* longer the newest of their source, and are not aborted.
Send ==
    /\ Doing("send")
    /\ LET s == What IN
         /\ source' = [source EXCEPT ![s].current = FALSE]
         /\ flight' = {IF f.of = s THEN [f EXCEPT !.newest = FALSE] ELSE f : f \in flight}
                      \cup {[of |-> s, newest |-> TRUE,
                             asked |-> ReadAll(state, Config[s].url \cup Config[s].params)]}
    /\ Skip
    /\ UNCHANGED <<deps, phase, state>>

\* Fault: the loading flag is not reset by an answer with an error.
AnswerFailedLoading(request) ==
    /\ source' = [source EXCEPT ![request.of].failed = TRUE, ![request.of].current = request.newest]
    /\ UNCHANGED <<state, frames>>

AnswerFailed(request) ==
    /\ source' = [source EXCEPT ![request.of].loading = FALSE, ![request.of].failed = TRUE,
                                ![request.of].current = request.newest]
    /\ UNCHANGED <<state, frames>>

\* The data is stored whatever was asked since, and also after unmount.
AnswerOk(request) ==
    /\ Write(Target(request.of), request.asked)
    /\ source' = [source EXCEPT ![request.of].loading = FALSE, ![request.of].current = request.newest]

\* The answer of any request in flight, or its failure.  Older requests that asked
\* the same are one element of flight, which may have to be answered again.
Answer ==
    /\ Idle
    /\ \E request \in flight :
         /\ \/ flight' = flight \ {request}
            \/ ~request.newest /\ flight' = flight
         /\ AnswerOk(request) \/ AnswerFailed(request)
    /\ UNCHANGED <<deps, phase>>

\* The debounce has passed.
TimerFires ==
    /\ Idle
    /\ \E s \in Source :
         /\ source[s].timer
         /\ source' = [source EXCEPT ![s].timer = FALSE]
         /\ frames' = <<Frame(<<>>, <<Work("fetch", s)>>)>>
    /\ UNCHANGED <<deps, phase, state, flight>>

\* The action refreshDataSource.
Refresh ==
    /\ Idle /\ phase = "mounted"
    /\ \E s \in Source : frames' = <<Frame(<<>>, <<Work("fetch", s)>>)>>
    /\ UNCHANGED <<deps, phase, state, source, flight>>

\* The user, an action or a message of a realtime channel writes an input.
WriteInput ==
    /\ Idle
    /\ \E c \in Input : \E v \in ValueOf(c) : Write(c, v)
    /\ UNCHANGED <<deps, phase, source, flight>>

\* Listeners and timers are removed; requests in flight are not aborted.
Unmount ==
    /\ Idle /\ phase = "mounted"
    /\ phase' = "gone"
    /\ source' = [s \in Source |-> [source[s] EXCEPT !.timer = FALSE]]
    /\ UNCHANGED <<deps, state, frames, flight>>

Cascade == Evaluate \/ Derive \/ MountSource \/ Look \/ Fetch \/ Send \/ Return
Next ==
    \/ Mount \/ WriteInput \/ Refresh \/ TimerFires \/ Answer \/ Unmount
    \/ Cascade

Spec == Init /\ [][Next]_vars

\* The program runs on; timers fire, and requests are answered or fail, however often
\* the user writes in between: the event loop takes them in turn.
FairSpec == Spec /\ WF_vars(Cascade) /\ SF_vars(TimerFires) /\ SF_vars(Answer)
-----------------------------------------------------------------------------
(* What the runtime promises *)

\* Between two events of the program every derived cell is the value of its
\* expression in the store as it is: no order of writes, answers and cascades leaves
\* one of them behind.
DerivedFresh ==
    Idle /\ phase = "mounted" =>
        \A p \in Derived : state[p] = ReadAll(state, ToSet(deps[p]))

\* When the newest request of an automatic source has been answered last, with
\* success, and no fetch is due, the target holds the answer to what the url and the
\* params are now: no change of what a source reads goes unnoticed.
SettledAnswer ==
    Idle /\ phase = "mounted" =>
        \A s \in Source :
            (/\ Config[s].auto /\ Config[s].initialFetch /\ ~source[s].timer
             /\ source[s].current
             /\ ~source[s].failed /\ ~source[s].deferred) =>
                state[Target(s)] = ReadAll(state, Config[s].url \cup Config[s].params)

\* A loading indicator is not shown for ever, and a cascade of writes, derivations and
\* fetches ends, so the runtime comes to rest after every event.
RuntimeSettles ==
    /\ \A s \in Source : source[s].loading ~> ~source[s].loading
    /\ ~Idle ~> Idle
=============================================================================
