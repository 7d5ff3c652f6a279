------------------------- MODULE ElementAnimations -------------------------
(***************************************************************************)
(* The animations of one element: the hook useElementAnimations on the web *)
(* and its twin for React Native, with what they take from                 *)
(* core/src/design/animation (recipes, cascade, reduced motion, what a     *)
(* device makes of keyframes) and the flags the primitive box keeps.  On   *)
(* the web the animations are one CSS list, which the unmount animations   *)
(* and the pulse of a state change share with the others; on a device each *)
(* has a progress of its own.  Time goes by in ticks.                      *)
(***************************************************************************)
EXTENDS Integers, Sequences, SequencesExt, FiniteSets, TLC

CONSTANTS
    Recipes,        \* ANIMATION_RECIPES: name -> animation
    Params,         \* what the prop animations of the element may be
    Amounts,        \* what the watched state may be: numbers, 0 is falsy
    Cap,            \* HARD_PER_TRIGGER
    ShortestPulse,  \* MIN_STATE_CHANGE_DURATION_MS
    StaggerIndex,
    Unhurried       \* whether the world waits for pulses and exits to end

VARIABLES
    platform,  \* "web" or "native"
    param,     \* the prop animations
    reduced,   \* usePrefersReducedMotion
    flags,     \* isHovered, isFocused, isActive
    amount,    \* what is stored at the watched path
    waiting,   \* debounceTimer of each: ticks left, or Off
    clearing,  \* clearTimer of each: ticks left, or Off
    pulse,     \* the state change whose CSS is added, or 0
    style,     \* element.style.animation: what was put there, with the ticks it still runs
    progress,  \* the shared values of a device: where each goes, with the ticks it still runs
    leaving    \* the promise of triggerUnmount: ticks left, Off, or Gone

motionVars == <<platform, param, reduced, flags, amount, waiting, clearing, pulse, style, progress, leaving>>

Off == -1
Gone == -2
FlagTriggers == {"hover", "focus", "active"}
Triggers == {"mount", "unmount", "ambient", "stateChange"} \cup FlagTriggers
Transforms == {"translateX", "translateY", "scale", "rotate"}
WebOnly == {"filter", "boxShadow"}
-----------------------------------------------------------------------------
(* What is declared *)

\* A level of the cascade names triggers; null is the empty list. The last level to name
\* one decides.
Levels == <<"identity", "variant", "elementDef", "template", "element">>
Merged(ctx, trigger) ==
    LET naming == {i \in DOMAIN Levels : Levels[i] \in DOMAIN ctx /\ trigger \in DOMAIN ctx[Levels[i]]}
    IN  IF naming = {} THEN <<>> ELSE ctx[Levels[Max(naming)]][trigger]

\* The prop is a context if it has one of four of the levels, and a list of triggers otherwise.
IsContext(p) == DOMAIN p \cap {"identity", "variant", "template", "element"} # {}
Declared(trigger) ==
    IF IsContext(param) THEN Merged(param, trigger)
    ELSE IF trigger \in DOMAIN param THEN param[trigger] ELSE <<>>

\* A reference to a recipe may change some of its fields.
Resolved(ref) ==
    LET Default == [delay |-> 0, stagger |-> 0, essential |-> FALSE, endless |-> FALSE]
        Over == {"duration", "delay", "stagger", "essential", "endless"}
    IN  IF "keyframes" \in DOMAIN ref THEN ref @@ Default
        ELSE [f \in DOMAIN ref \cap Over |-> ref[f]] @@ Recipes[ref.recipe] @@ Default

\* The references that are not refused.
WellFormed(ref) ==
    /\ ("keyframes" \in DOMAIN ref) # ("recipe" \in DOMAIN ref)
    /\ "recipe" \in DOMAIN ref => ref.recipe \in DOMAIN Recipes
    /\ LET frames == Resolved(ref).keyframes
       IN  /\ frames # <<>>
           /\ \A i \in DOMAIN frames : frames[i].at \in 0 .. 100 /\ (i > 1 => frames[i - 1].at <= frames[i].at)

\* A state change takes only a recipe or keyframes, and a duration.
PulseOf(cfg) == Resolved([f \in DOMAIN cfg \cap {"recipe", "keyframes", "duration"} |-> cfg[f]])

PropsOf(spec) == UNION {DOMAIN f.props : f \in ToSet(spec.keyframes)}

\* applyReducedMotion; one without keyframes is not played.
Unplayed(spec) == [spec EXCEPT !.keyframes = <<>>]
WithoutTransforms(spec) ==
    IF PropsOf(spec) \subseteq Transforms THEN Unplayed(spec)
    ELSE [spec EXCEPT !.keyframes =
            [i \in DOMAIN @ |-> [@[i] EXCEPT !.props = [p \in DOMAIN @ \ Transforms |-> @[p]]]]]
Calmer(spec, trigger) ==
    CASE spec.essential \/ trigger = "focus" -> spec
      [] trigger \in {"hover", "ambient"} -> Unplayed(spec)
      [] trigger = "stateChange" ->
            [spec EXCEPT !.duration = Max({ShortestPulse, (2 * @ + 3) \div 6})]  \* a third, rounded
      [] OTHER -> WithoutTransforms(spec)
Kept(spec, trigger) == IF reduced THEN Calmer(spec, trigger) ELSE spec

Playing(refs, trigger) ==
    SelectSeq([i \in DOMAIN refs |-> Kept(Resolved(refs[i]), trigger)], LAMBDA s : s.keyframes # <<>>)

Changes == Declared("stateChange")
Watchers == DOMAIN Changes

\* validateAnimationCaps: no error, and no warning of a recipe for the web alone.
CapsRespected ==
    /\ \A t \in Triggers : Len(Declared(t)) < Cap
    /\ Cardinality({t \in Triggers : Declared(t) # <<>>}) < 7
    /\ \A t \in Triggers : \A r \in ToSet(Declared(t)) :
         "recipe" \in DOMAIN r => PropsOf(Recipes[r.recipe]) \cap WebOnly = {}
-----------------------------------------------------------------------------
(* The web *)

RunLength(spec) == spec.delay + spec.stagger * StaggerIndex + spec.duration
Item(trigger, spec) == [of |-> trigger, spec |-> spec]
Items(trigger) == [i \in DOMAIN Playing(Declared(trigger), trigger) |-> Item(trigger, Playing(Declared(trigger), trigger)[i])]

\* The list of useShapeAnimations, and the first part of that of an element.
Shape == Items("ambient")

OnFlag(trigger) == IF trigger \in flags THEN Items(trigger) ELSE <<>>
Composed == Shape \o Items("mount") \o OnFlag("hover") \o OnFlag("focus") \o OnFlag("active")

\* finalAnimationCSS
Final ==
    Composed \o (IF pulse = 0 THEN <<>> ELSE << Item("stateChange", Kept(PulseOf(Changes[pulse]), "stateChange")) >>)

\* An animation that was in the list before goes on, the others start.
Running(list) ==
    [i \in DOMAIN list |->
        LET before == {j \in DOMAIN style : style[j].spec = list[i].spec}
        IN  [of |-> list[i].of, spec |-> list[i].spec,
             left |-> IF before # {} THEN style[Max(before)].left
                      ELSE IF list[i].spec.endless THEN 0 ELSE RunLength(list[i].spec)]]

\* The effect that writes the style runs when the list is another one.
Render == style' = IF platform = "web" /\ Final' # Final THEN Running(Final') ELSE style
-----------------------------------------------------------------------------
(* A device *)

Slots(trigger) == LET all == Playing(Declared(trigger), trigger) IN SubSeq(all, 1, Min({Cap, Len(all)}))
Resting == [i \in 1 .. Cap |-> [to |-> 0, left |-> 0]]
Toward(to, left) == [to |-> to, left |-> left]

\* What the effects of mount, ambient and the flags set a shared value to.
MountDriven == [i \in 1 .. Cap |->
    IF i \in DOMAIN Slots("mount") THEN Toward(1, RunLength(Slots("mount")[i])) ELSE Toward(0, 0)]
AmbientDriven == [i \in 1 .. Cap |->
    IF i \in DOMAIN Slots("ambient") THEN Toward(1, Slots("ambient")[i].duration) ELSE Toward(0, 0)]
FlagDriven(trigger) == [i \in 1 .. Cap |->
    IF i \in DOMAIN Slots(trigger)
    THEN Toward(IF trigger \in flags THEN 1 ELSE 0, Slots(trigger)[i].duration) ELSE Toward(0, 0)]

Driven == "mount" :> MountDriven @@ "ambient" :> AmbientDriven @@ [t \in FlagTriggers |-> FlagDriven(t)]

\* animatedStyle: what contributes to the look, the later over the earlier.
Contributions ==
    LET Part(t) == [i \in DOMAIN Slots(t) |-> [spec |-> Slots(t)[i], to |-> progress[t][i].to]]
        Flagged(t) == IF t \in flags THEN Part(t) ELSE <<>>
    IN  Part("mount") \o Part("ambient") \o Flagged("focus") \o Flagged("hover") \o Flagged("active")
        \o SelectSeq(Part("unmount"), LAMBDA c : c.to > 0)

\* buildReanimatedSpec: a keyframe without a property has the one of the nearest before it,
\* or after it.
Filled(spec, prop, i) ==
    LET having == {j \in DOMAIN spec.keyframes : prop \in DOMAIN spec.keyframes[j].props}
        earlier == {j \in having : j <= i}
    IN  spec.keyframes[IF earlier # {} THEN Max(earlier) ELSE Min(having)].props[prop]
-----------------------------------------------------------------------------
(* The look, when everything that was to run has run *)

Unchanged == "unchanged"  \* the value the element has without animations

\* The last animation of the list to have a property, and all transforms are one.
WebLook(list, prop) ==
    LET kin == IF prop \in Transforms THEN Transforms ELSE {prop}
        having == {i \in DOMAIN list : PropsOf(list[i].spec) \cap kin # {}}
        end == Last(list[Max(having)].spec.keyframes).props
    IN  IF having = {} THEN Unchanged ELSE IF prop \in DOMAIN end THEN <<end[prop]>> ELSE Unchanged

\* composeRNStyle: the last contribution to have a property, each transform for itself.
NativeLook(list, prop) ==
    LET having == {i \in DOMAIN list : prop \in PropsOf(list[i].spec) \ WebOnly}
        last == list[Max(having)]
    IN  IF having = {} THEN Unchanged
        ELSE <<Filled(last.spec, prop, IF last.to = 1 THEN Len(last.spec.keyframes) ELSE 1)>>
-----------------------------------------------------------------------------
Quiet == pulse = 0 /\ leaving = Off /\ \A i \in Watchers : waiting[i] = Off /\ clearing[i] = Off

MotionInit ==
    /\ platform \in {"web", "native"} /\ param \in Params /\ reduced \in BOOLEAN
    /\ flags = {} /\ amount \in Amounts
    /\ waiting = [i \in Watchers |-> Off] /\ clearing = [i \in Watchers |-> Off]
    /\ pulse = 0 /\ leaving = Off
    /\ style = IF platform = "native" THEN <<>>
               ELSE [i \in DOMAIN Final |->
                        [of |-> Final[i].of, spec |-> Final[i].spec,
                         left |-> IF Final[i].spec.endless THEN 0 ELSE RunLength(Final[i].spec)]]
    /\ progress = IF platform = "native" THEN Driven @@ [t \in Triggers |-> Resting] ELSE [t \in Triggers |-> Resting]

\* The listeners of box.
SetFlags(fs) ==
    /\ leaving # Gone /\ (Unhurried => leaving = Off)
    /\ flags' = fs
    /\ UNCHANGED <<platform, param, reduced, amount, waiting, clearing, pulse, leaving>>
    /\ Render
    /\ progress' = IF platform = "web" THEN progress
                   ELSE [t \in (flags \cup fs) \ (flags \cap fs) |-> FlagDriven(t)'] @@ progress
Enter(flag) == flag \in FlagTriggers \ flags /\ SetFlags(flags \cup {flag})
Leave(flag) == flag \in flags /\ SetFlags(flags \ {flag})

\* Fault: the CSS of a pulse whose timer is gone stays.
PreferMidPulse ==
    /\ leaving # Gone /\ (Unhurried => leaving = Off)
    /\ reduced' = ~reduced
    /\ waiting' = [i \in Watchers |-> IF platform = "web" THEN Off ELSE waiting[i]]
    /\ clearing' = [i \in Watchers |-> Off]
    /\ UNCHANGED <<platform, param, flags, amount, leaving, pulse>>
    /\ Render
    /\ progress' = IF platform = "web" THEN progress ELSE Driven' @@ progress

\* The media query changes: everything is resolved again, and on the web the effect of the
\* state changes starts anew, without its timers.
Prefer ==
    /\ leaving # Gone /\ (Unhurried => leaving = Off)
    /\ reduced' = ~reduced
    /\ waiting' = [i \in Watchers |-> IF platform = "web" THEN Off ELSE waiting[i]]
    /\ clearing' = [i \in Watchers |-> Off]
    /\ pulse' = IF \E i \in Watchers : clearing[i] # Off THEN 0 ELSE pulse
    /\ UNCHANGED <<platform, param, flags, amount, leaving>>
    /\ Render
    /\ progress' = IF platform = "web" THEN progress ELSE Driven' @@ progress

Matches(prev, next, on) ==
    CASE on.kind = "change" -> prev # next
      [] on.kind = "increase" -> next > prev
      [] on.kind = "decrease" -> next < prev
      [] on.kind = "truthy" -> prev = 0 /\ next # 0
      [] on.kind = "falsy" -> prev # 0 /\ next = 0
      [] on.kind = "equals" -> prev # on.to /\ next = on.to

\* fire, of some state changes in their order.
FireOnWeb(which) ==
    /\ pulse' = IF which = {} THEN pulse ELSE Max(which)
    /\ clearing' = [i \in Watchers |->
                      LET spec == Kept(PulseOf(Changes[i]), "stateChange")
                      IN  IF i \in which THEN spec.duration + spec.delay + 1 ELSE clearing[i]]
    /\ UNCHANGED progress
FireOnDevice(which) ==
    /\ progress' = [progress EXCEPT !["stateChange"] = [i \in DOMAIN @ |->
                      IF i \in which THEN Toward(0, Changes[i].duration) ELSE @[i]]]
    /\ UNCHANGED <<pulse, clearing>>
Fire(which) == IF platform = "web" THEN FireOnWeb(which) ELSE FireOnDevice(which \cap 1 .. Cap)

\* A write to the watched path tells every state change that listens.
Write(v) ==
    /\ leaving # Gone /\ (Unhurried => Quiet)
    /\ v # amount /\ amount' = v
    /\ LET matched == {i \in Watchers : Matches(amount, v, Changes[i].on)}
           later == {i \in matched : Changes[i].debounce > 0}
       IN  /\ waiting' = [i \in Watchers |-> IF i \in later THEN Changes[i].debounce ELSE waiting[i]]
           /\ Fire(matched \ later)
    /\ UNCHANGED <<platform, param, reduced, flags, leaving>>
    /\ Render

Debounced(i) ==
    /\ leaving # Gone /\ i \in Watchers /\ waiting[i] = 0
    /\ waiting' = [waiting EXCEPT ![i] = Off]
    /\ Fire({i})
    /\ UNCHANGED <<platform, param, reduced, flags, amount, leaving>>
    /\ Render

\* The timer of any state change clears the CSS of all.
Clear(i) ==
    /\ leaving # Gone /\ i \in Watchers /\ clearing[i] = 0
    /\ clearing' = [clearing EXCEPT ![i] = Off]
    /\ pulse' = 0
    /\ UNCHANGED <<platform, param, reduced, flags, amount, waiting, progress, leaving>>
    /\ Render

\* triggerUnmount, up to its timer. On the web it waits for all that are declared.
Longest(specs) == Max({0} \cup {s.duration + s.delay : s \in ToSet(specs)})
Unmount ==
    /\ leaving = Off /\ (Unhurried => Quiet)
    /\ LET exits == Items("unmount")
           declared == Declared("unmount")
       IN  IF platform = "web"
           THEN /\ style' = IF exits = <<>> THEN style ELSE Running(exits)
                /\ leaving' = IF exits = <<>> THEN Gone
                              ELSE Longest([i \in DOMAIN declared |-> Resolved(declared[i])])
                /\ UNCHANGED progress
           ELSE /\ progress' = [progress EXCEPT !["unmount"] = [i \in DOMAIN @ |->
                                  IF i \in DOMAIN Slots("unmount")
                                  THEN Toward(1, Slots("unmount")[i].delay + Slots("unmount")[i].duration) ELSE @[i]]]
                /\ leaving' = IF Slots("unmount") = <<>> THEN Gone ELSE Longest(Slots("unmount"))
                /\ UNCHANGED style
    /\ UNCHANGED <<platform, param, reduced, flags, amount, waiting, clearing, pulse>>

\* The promise is kept: the element goes, and with it its timers and subscriptions.
Vanish ==
    /\ leaving = 0 /\ leaving' = Gone
    /\ UNCHANGED <<platform, param, reduced, flags, amount, waiting, clearing, pulse, style, progress>>

Less(n) == IF n > 0 THEN n - 1 ELSE n
Tick ==
    /\ leaving # Gone
    /\ waiting' = [i \in Watchers |-> Less(waiting[i])]
    /\ clearing' = [i \in Watchers |-> Less(clearing[i])]
    /\ leaving' = Less(leaving)
    /\ style' = [i \in DOMAIN style |-> [style[i] EXCEPT !.left = Less(@)]]
    /\ progress' = [t \in Triggers |-> [i \in DOMAIN progress[t] |-> [progress[t][i] EXCEPT !.left = Less(@)]]]
    /\ UNCHANGED <<platform, param, reduced, flags, amount, pulse>>

MotionNext ==
    \/ \E flag \in FlagTriggers : Enter(flag) \/ Leave(flag)
    \/ Prefer \/ Unmount \/ Vanish \/ Tick
    \/ \E v \in Amounts : Write(v)
    \/ \E i \in 1 .. Cap : Debounced(i) \/ Clear(i)
-----------------------------------------------------------------------------
(* Properties *)

\* Who prefers reduced motion sees no transforms, hovers or endless motion but essential
\* ones, from the moment of the preference on (useElementAnimations, applyReducedMotion).
MotionRespected ==
    (reduced /\ leaving = Off) =>
        \A i \in DOMAIN style :
            LET s == style[i] IN
            ~s.spec.essential =>
                /\ s.of \notin {"hover", "ambient"}
                /\ s.of \in {"mount", "active"} => PropsOf(s.spec) \cap Transforms = {}

\* The CSS of a state change never stays: the timer that clears it is under way
\* (useElementAnimations, the effect of the state changes).
PulsePasses == pulse # 0 => clearing[pulse] # Off

\* Once all has run, an element looks as the last of its animations to change a property
\* says. On the web (composedAnimationCSS) the last is that of ambient, mount, hover, focus
\* and active, in this order, and all transforms are one property; on a device (animatedStyle)
\* that of mount, ambient, focus, hover and active, each transform for itself. So the two
\* look alike where these orders end with the same animation.
AtRest ==
    /\ \A i \in DOMAIN style : style[i].left = 0
    /\ \A t \in Triggers : \A i \in DOMAIN progress[t] : progress[t][i].left = 0
    /\ pulse = 0 /\ leaving = Off
InForce(order) ==
    FlattenSeq([k \in DOMAIN order |->
        IF order[k] \in FlagTriggers \ flags THEN <<>> ELSE Playing(Declared(order[k]), order[k])])
Deciding(where, prop) ==
    LET specs == InForce(IF where = "web" THEN <<"ambient", "mount", "hover", "focus", "active">>
                         ELSE <<"mount", "ambient", "focus", "hover", "active">>)
        kin == IF where = "web" /\ prop \in Transforms THEN Transforms ELSE {prop}
        changing == SelectSeq(specs, LAMBDA s : PropsOf(s) \cap kin # {})
    IN  IF changing = <<>> THEN {} ELSE {Last(changing)}
Look(prop) == IF platform = "web" THEN WebLook(style, prop) ELSE NativeLook(Contributions, prop)
Looks == Transforms \cup {"opacity", "color"}
LooksAsOrdered ==
    (AtRest /\ CapsRespected) =>
        \A prop \in Looks :
            /\ Deciding(platform, prop) = {} => Look(prop) = Unchanged
            /\ \A s \in Deciding(platform, prop) :
                  LET end == Last(s.keyframes).props
                  IN  IF prop \in DOMAIN end THEN Look(prop) = <<end[prop]>>
                      ELSE platform = "web" => Look(prop) = Unchanged

\* A pulse is shown to its end, unless the preference changes (useElementAnimations).
PulseWhole ==
    reduced' = reduced =>
        \A i \in DOMAIN style :
            (style[i].of = "stateChange" /\ style[i].left > 0) => \E j \in DOMAIN style' : style'[j].of = "stateChange"

\* An element goes when its unmount animations have ended, and none was replaced
\* (triggerUnmount).
ExitWhole ==
    (leaving = 0 /\ leaving' = Gone) =>
        /\ platform = "web" => \A i \in DOMAIN style : style[i].of = "unmount" /\ style[i].left = 0
        /\ \A i \in DOMAIN Slots("unmount") : progress["unmount"][i].left = 0
-----------------------------------------------------------------------------
(* What the code does not keep *)

\* The web and a device come to one look (compose-rn-style.ts, "cross-platform parity with
\* web CSS shorthand").
LooksAgree ==
    (AtRest /\ CapsRespected) =>
        \A prop \in Looks : \A where \in {"web", "native"} : \A s \in Deciding(where, prop) :
            prop \in DOMAIN Last(s.keyframes).props => Look(prop) = <<Last(s.keyframes).props[prop]>>
=============================================================================
