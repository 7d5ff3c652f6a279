----------------------------- MODULE RunProofs -----------------------------
(***************************************************************************)
(* What the runs screen, promotions, transactions and sql_commands check,  *)
(* for every value of the constants: the app shell, and the settings of    *)
(* the modules MCPromotions, MCTransactions and MCSqlCommands.             *)
(***************************************************************************)
EXTENDS AppScreens, MCPromotions, MCTransactions, MCSqlCommands,
        WellFoundedInduction, TLAPS
-----------------------------------------------------------------------------
(* The app shell *)

\* The history is a list that ends with the current screen.
PlaceTrue ==
    /\ \E S : history \in Seq(S)
    /\ history # <<>> /\ current = Last(history) /\ breadcrumb = Crumbs(history)

\* Until the clean-up the menu follows the user.
MenuTrue == life # "gone" => listening /\ menu = MenuFor(user)

\* An answer on its way that will be shown is of the current screen or of one it has passed.
LoadsTrue ==
    /\ \E S : loads \in Seq([screen : S, live : BOOLEAN])
    /\ IF OutletShown(user, life)
       THEN \A i \in DOMAIN loads : loads[i].live => loads[i].screen \in {current} \cup passed
       ELSE Settling

\* What the outlet shows: a screen it was last asked for, an error, or that it waits for one.
ShowingTrue ==
    OutletShown(user, life) =>
        \/ outlet = LoadingOutlet /\ ~Settling
        \/ \E s \in {current} \cup passed : outlet = Showing("ready", s)
        \/ outlet.status = "error"

OutletTrue == LoadsTrue /\ ShowingTrue

ShellInv == PlaceTrue /\ MenuTrue /\ OutletTrue
-----------------------------------------------------------------------------
\* What holds of 0 and goes on to the next number holds up to N.
LEMMA UpTo ==
    ASSUME NEW N \in Nat, NEW G, 0 \in G, \A n \in 1 .. N : n - 1 \in G => n \in G
    PROVE  N \in G
<1> DEFINE Less == OpToRel(<, Nat)
           left == (0 .. N) \ G
<1>1. \A j, k \in Nat : j < k => <<j, k>> \in Less
  BY DEF OpToRel
<1>2. IsWellFoundedOn(Less, Nat)
  BY NatLessThanWellFounded
<1> HIDE DEF Less
<1>3. left \subseteq Nat
  OBVIOUS
<1>4. ASSUME left # {}
      PROVE  FALSE
  <2> HIDE DEF left
  <2>1. PICK n \in left : \A j \in left : ~(<<j, n>> \in Less)
    BY <1>2, <1>3, <1>4, WFMin
  <2>2. n \in 1 .. N /\ n \notin G /\ n - 1 \in 0 .. N /\ n - 1 \in Nat /\ n \in Nat /\ n - 1 < n
    BY <2>1 DEF left
  <2>3. n - 1 \in left
    BY <2>2 DEF left
  <2>4. <<n - 1, n>> \in Less
    BY <1>1, <2>2
  <2> QED
    BY <2>1, <2>3, <2>4
<1> QED
  BY <1>4

\* Of a list each entry is kept at its first place.
LEMMA FirstsOnce ==
    ASSUME NEW S, NEW h \in Seq(S)
    PROVE  ToSet(Firsts(h)) = ToSet(h) /\ IsInjective(Firsts(h))
<1> DEFINE Longer(f, n) == IF h[n] \in ToSet(f[n - 1]) THEN f[n - 1] ELSE Append(f[n - 1], h[n])
           Is(f, m) == f = [n \in 0 .. m |-> IF n = 0 THEN <<>> ELSE Longer(f, n)]
<1>0. Len(h) \in Nat /\ DOMAIN h = 1 .. Len(h) /\ \A i \in 1 .. Len(h) : h[i] \in S
  OBVIOUS
<1>1. Firsts(h) = (CHOOSE f : Is(f, Len(h)))[Len(h)]
  BY DEF Firsts
<1> HIDE DEF Is, Longer
<1>2. \E f : Is(f, Len(h))
  <2> DEFINE good == {m \in 0 .. Len(h) : \E f : Is(f, m)}
  <2>1. 0 \in good
    <3>1. Is([n \in 0 .. 0 |-> <<>>], 0)
      BY DEF Is
    <3> QED
      BY <1>0, <3>1
  <2>2. ASSUME NEW m \in 1 .. Len(h), m - 1 \in good
        PROVE  m \in good
    <3>1. PICK f : Is(f, m - 1)
      BY <2>2
    <3> DEFINE g == [n \in 0 .. m |-> IF n = m THEN Longer(f, m) ELSE f[n]]
    <3>2. DOMAIN g = 0 .. m /\ g[m] = Longer(f, m) /\ \A n \in 0 .. m - 1 : g[n] = f[n]
      OBVIOUS
    <3>3. \A n \in 0 .. m - 1 : f[n] = IF n = 0 THEN <<>> ELSE Longer(f, n)
      BY <3>1 DEF Is
    <3>4. g = [n \in 0 .. m |-> g[n]]
      OBVIOUS
    <3> HIDE DEF g
    <3>5. \A n \in 1 .. m : Longer(g, n) = Longer(f, n)
      <4>1. \A n \in 1 .. m : g[n - 1] = f[n - 1]
        BY <3>2
      <4> QED
        BY <4>1 DEF Longer
    <3>6. ASSUME NEW n \in 0 .. m
          PROVE  g[n] = IF n = 0 THEN <<>> ELSE Longer(g, n)
      <4>1. CASE n = m
        BY <3>2, <3>5, <4>1
      <4>2. CASE n # m
        <5>1. n \in 0 .. m - 1
          BY <4>2
        <5>2. n # 0 => n \in 1 .. m
          BY <4>2
        <5> QED
          BY <3>2, <3>3, <3>5, <5>1, <5>2
      <4> QED
        BY <4>1, <4>2
    <3>7. Is(g, m)
      BY <3>4, <3>6 DEF Is
    <3> QED
      BY <3>7
  <2> HIDE DEF good
  <2>3. Len(h) \in good
    BY <1>0, <2>1, <2>2, UpTo
  <2> QED
    BY <2>3 DEF good
<1> DEFINE kept == CHOOSE f : Is(f, Len(h))
<1>3. Is(kept, Len(h))
  BY <1>2
<1> HIDE DEF kept
<1>4. kept[0] = <<>> /\ \A n \in 1 .. Len(h) : kept[n] = Longer(kept, n)
  BY <1>0, <1>3 DEF Is
<1> DEFINE Right(n) == /\ kept[n] \in Seq(S) /\ ToSet(kept[n]) = {h[i] : i \in 1 .. n}
                       /\ IsInjective(kept[n])
           good == {n \in 0 .. Len(h) : Right(n)}
<1>5. 0 \in good
  <2>1. <<>> \in Seq(S) /\ DOMAIN <<>> = {} /\ {h[i] : i \in 1 .. 0} = {}
    OBVIOUS
  <2>2. Right(0)
    BY <1>4, <2>1 DEF ToSet, IsInjective
  <2> QED
    BY <1>0, <2>2
<1>6. ASSUME NEW n \in 1 .. Len(h), n - 1 \in good
      PROVE  n \in good
  <2> DEFINE before == kept[n - 1]
             now == Append(before, h[n])
  <2>1. before \in Seq(S) /\ ToSet(before) = {h[i] : i \in 1 .. n - 1} /\ IsInjective(before)
    BY <1>6
  <2>2. kept[n] = IF h[n] \in ToSet(before) THEN before ELSE now
    BY <1>4 DEF Longer
  <2> HIDE DEF before
  <2>3. {h[i] : i \in 1 .. n} = {h[i] : i \in 1 .. n - 1} \cup {h[n]}
    OBVIOUS
  <2>4. CASE h[n] \in ToSet(before)
    <3>1. {h[i] : i \in 1 .. n} = {h[i] : i \in 1 .. n - 1}
      BY <2>1, <2>3, <2>4
    <3> QED
      BY <2>1, <2>2, <2>4, <3>1
  <2>5. CASE h[n] \notin ToSet(before)
    <3>1. /\ now \in Seq(S) /\ DOMAIN now = 1 .. Len(before) + 1
          /\ DOMAIN before = 1 .. Len(before) /\ Len(before) \in Nat
          /\ now[Len(before) + 1] = h[n] /\ \A i \in 1 .. Len(before) : now[i] = before[i]
      BY <1>0, <2>1
    <3> HIDE DEF now
    <3>2. ToSet(now) = ToSet(before) \cup {h[n]}
      BY <3>1 DEF ToSet
    <3>3. IsInjective(now)
      BY <2>1, <2>5, <3>1 DEF ToSet, IsInjective
    <3>4. kept[n] = now
      BY <2>2, <2>5
    <3>5. ToSet(now) = {h[i] : i \in 1 .. n}
      BY <2>1, <2>3, <3>2
    <3> QED
      BY <3>1, <3>3, <3>4, <3>5
  <2> QED
    BY <2>4, <2>5
<1> HIDE DEF good
<1>7. Right(Len(h))
  <2>1. Len(h) \in good
    BY <1>0, <1>5, <1>6, UpTo
  <2> QED
    BY <2>1 DEF good
<1>8. ToSet(h) = {h[i] : i \in 1 .. Len(h)}
  BY <1>0 DEF ToSet
<1> QED
  BY <1>1, <1>7, <1>8 DEF kept

\* The history grows by a screen or loses its last.
LEMMA Grown ==
    ASSUME NEW S, NEW h \in Seq(S), NEW s
    PROVE  /\ \E T : Append(h, s) \in Seq(T)
           /\ Append(h, s) # <<>> /\ Last(Append(h, s)) = s
<1>1. h \in Seq(S \cup {s})
  OBVIOUS
<1>2. Append(h, s) \in Seq(S \cup {s}) /\ Len(Append(h, s)) = Len(h) + 1 /\ Append(h, s)[Len(h) + 1] = s
  BY <1>1
<1>3. Len(<<>>) = 0 /\ Len(h) \in Nat
  OBVIOUS
<1> QED
  BY <1>2, <1>3 DEF Last

LEMMA Shortened ==
    ASSUME NEW S, NEW h \in Seq(S), Len(h) > 1
    PROVE  Front(h) \in Seq(S) /\ Front(h) # <<>>
<1>1. Front(h) \in Seq(S) /\ Len(Front(h)) = Len(h) - 1
  BY DEF Front
<1>2. Len(<<>>) = 0 /\ Len(h) \in Nat
  OBVIOUS
<1> QED
  BY <1>1, <1>2

\* Wherever a navigation leads, the place is one.
LEMMA Entered ==
    ASSUME PlaceTrue, NEW s, Enter(s) \/ ToLogin \/ Stay
    PROVE  PlaceTrue'
<1>1. PICK S : history \in Seq(S)
  BY DEF PlaceTrue
<1>2. CASE Enter(s)
  BY <1>1, <1>2, Grown DEF Enter, PlaceTrue
<1>3. CASE ToLogin
  BY <1>1, <1>3, Grown DEF ToLogin, PlaceTrue
<1>4. CASE Stay
  BY <1>4 DEF Stay, placeVars, PlaceTrue
<1> QED
  BY <1>2, <1>3, <1>4

LEMMA Navigated ==
    ASSUME PlaceTrue, NEW u, NEW s, NavigateAs(u, s)
    PROVE  PlaceTrue'
BY Entered DEF NavigateAs

LEMMA LoginLeft ==
    ASSUME PlaceTrue, NEW u, LeaveLogin(u)
    PROVE  PlaceTrue'
BY Navigated, Entered DEF LeaveLogin

\* Calls whose effects were cleaned up.
LEMMA AllDropped ==
    ASSUME NEW S, loads \in Seq([screen : S, live : BOOLEAN])
    PROVE  Dropped \in Seq([screen : S, live : BOOLEAN]) /\ \A n \in DOMAIN Dropped : ~Dropped[n].live
<1> DEFINE R == [screen : S, live : BOOLEAN]
<1>0. loads \in Seq(R)
  OBVIOUS
<1> HIDE DEF R
<1>1. /\ DOMAIN loads = 1 .. Len(loads) /\ Len(loads) \in Nat
      /\ \A n \in DOMAIN loads : loads[n] \in R
  BY <1>0
<1>2. \A n \in DOMAIN loads : [loads[n] EXCEPT !.live = FALSE] \in R /\ ~[loads[n] EXCEPT !.live = FALSE].live
  BY <1>1 DEF R
<1>3. Dropped = [n \in 1 .. Len(loads) |-> [loads[n] EXCEPT !.live = FALSE]]
  BY <1>1 DEF Dropped
<1>4. Dropped \in Seq(R)
  BY <1>1, <1>2, <1>3
<1> QED
  BY <1>1, <1>2, <1>3, <1>4 DEF R

\* The screen is shown at once or its answer is on its way.
LEMMA OutletLoaded ==
    ASSUME NEW S, NEW going \in Seq([screen : S, live : BOOLEAN]), OutletShown(user, life)',
           \A n \in DOMAIN going : going[n].live => going[n].screen \in passed',
           LoadScreen(current', going)
    PROVE  OutletTrue'
<1>1. CASE outlet' = Showing("ready", current') /\ loads' = going
  BY <1>1 DEF OutletTrue, LoadsTrue, ShowingTrue
<1>2. CASE outlet' = LoadingOutlet /\ loads' = Append(going, [screen |-> current', live |-> TRUE])
  <2> DEFINE new == [screen |-> current', live |-> TRUE]
             Q == [screen : S, live : BOOLEAN]
             R == [screen : S \cup {current'}, live : BOOLEAN]
  <2>1. going \in Seq(R) /\ new \in R /\ new.live /\ new.screen = current'
    <3>1. \A n \in DOMAIN going : going[n] \in R
      <4>1. going \in Seq(Q) /\ \A e \in Q : e \in R
        OBVIOUS
      <4> HIDE DEF Q, R
      <4> QED
        BY <4>1
    <3>2. going = [n \in 1 .. Len(going) |-> going[n]] /\ Len(going) \in Nat
      OBVIOUS
    <3>3. new \in R /\ new.live /\ new.screen = current'
      OBVIOUS
    <3> HIDE DEF R, new
    <3> QED
      BY <3>1, <3>2, <3>3
  <2> HIDE DEF new, R
  <2>2. /\ loads' = Append(going, new)
        /\ Append(going, new) \in Seq(R)
        /\ Len(Append(going, new)) = Len(going) + 1
        /\ Append(going, new)[Len(going) + 1] = new
        /\ \A i \in 1 .. Len(going) : Append(going, new)[i] = going[i]
        /\ DOMAIN going = 1 .. Len(going) /\ Len(going) \in Nat
        /\ DOMAIN Append(going, new) = 1 .. Len(going) + 1
    BY <1>2, <2>1 DEF new
  <2>3. ~Settling'
    BY <2>1, <2>2 DEF Settling
  <2>4. \A i \in DOMAIN loads' : loads'[i].live => loads'[i].screen \in {current'} \cup passed'
    BY <2>1, <2>2
  <2>5. LoadsTrue'
    BY <2>2, <2>4 DEF R, LoadsTrue
  <2> QED
    BY <1>2, <2>3, <2>5 DEF OutletTrue, ShowingTrue
<1> QED
  BY <1>1, <1>2 DEF LoadScreen

\* What the outlet does keeps it true.
LEMMA Followed ==
    ASSUME OutletTrue, OutletFollows
    PROVE  OutletTrue'
<1>1. PICK S : loads \in Seq([screen : S, live : BOOLEAN])
  BY DEF OutletTrue, LoadsTrue
<1>2. Dropped \in Seq([screen : S, live : BOOLEAN]) /\ \A n \in DOMAIN Dropped : ~Dropped[n].live
  BY <1>1, AllDropped
<1>3. OutletShown(user, life)' = OutletShown(user', life')
  BY DEF OutletShown
<1>4. CASE ~OutletShown(user', life')
  BY <1>2, <1>3, <1>4 DEF OutletFollows, OutletTrue, LoadsTrue, ShowingTrue, Settling
<1>5. CASE OutletShown(user', life') /\ ~OutletShown(user, life)
  <2>1. LoadScreen(current', Dropped)
    BY <1>5 DEF OutletFollows
  <2> QED
    BY <1>2, <1>3, <1>5, <2>1, OutletLoaded
<1>6. CASE OutletShown(user', life') /\ OutletShown(user, life) /\ current' # current
  <2>1. LoadScreen(current', loads) /\ passed' = ScreensAsked
    BY <1>6 DEF OutletFollows
  <2>2. \A n \in DOMAIN loads : loads[n].live => loads[n].screen \in passed'
    BY <2>1 DEF ScreensAsked
  <2> QED
    BY <1>1, <1>3, <1>6, <2>1, <2>2, OutletLoaded
<1>7. CASE OutletShown(user', life') /\ OutletShown(user, life) /\ current' = current
  <2>1. UNCHANGED outletVars
    BY <1>7 DEF OutletFollows
  <2> QED
    BY <1>3, <1>7, <2>1 DEF OutletTrue, LoadsTrue, ShowingTrue, Settling, outletVars
<1> QED
  BY <1>4, <1>5, <1>6, <1>7
-----------------------------------------------------------------------------
LEMMA ShellStart == AppInit => ShellInv
<1> SUFFICES ASSUME AppInit
             PROVE  ShellInv
  OBVIOUS
<1> DEFINE first == IF IsProtected(InitialScreen) THEN LoginScreen ELSE InitialScreen
<1>1. history = <<first>> /\ current = first /\ breadcrumb = Crumbs(<<first>>)
  BY DEF AppInit
<1> HIDE DEF first
<1>2. PlaceTrue
  <2>1. <<first>> \in Seq({first}) /\ <<first>> # <<>> /\ Last(<<first>>) = first
    BY DEF Last
  <2> QED
    BY <1>1, <2>1 DEF PlaceTrue
<1>3. MenuTrue
  BY DEF AppInit, MenuTrue
<1>4. OutletTrue
  <2>1. loads = <<>> /\ life = "restoring"
    BY DEF AppInit
  <2>2. loads \in Seq([screen : {}, live : BOOLEAN]) /\ Settling
    BY <2>1 DEF Settling
  <2> QED
    BY <2>1, <2>2 DEF OutletTrue, LoadsTrue, ShowingTrue, OutletShown
<1> QED
  BY <1>2, <1>3, <1>4 DEF ShellInv

\* A step of the session, whose listeners are in place.
LEMMA MenuKept ==
    ASSUME MenuTrue, life # "gone", UNCHANGED listening, NEW u, NEW t, Becomes(u, t)
    PROVE  MenuTrue' /\ user' = u
BY DEF MenuTrue, Becomes, MenuAfter

LEMMA NavigateKeeps ==
    ASSUME ShellInv, NEW s, Navigate(s)
    PROVE  ShellInv'
<1>1. PlaceTrue'
  BY Navigated DEF Navigate, ShellInv
<1>2. MenuTrue'
  BY DEF Navigate, ShellInv, MenuTrue, sessionVars
<1>3. OutletTrue'
  BY Followed DEF Navigate, ShellInv
<1> QED
  BY <1>1, <1>2, <1>3 DEF ShellInv

LEMMA GoBackKeeps ==
    ASSUME ShellInv, GoBack
    PROVE  ShellInv'
<1>1. PlaceTrue'
  BY Shortened DEF GoBack, ShellInv, PlaceTrue
<1>2. MenuTrue'
  BY DEF GoBack, ShellInv, MenuTrue, sessionVars
<1>3. OutletTrue'
  BY Followed DEF GoBack, ShellInv
<1> QED
  BY <1>1, <1>2, <1>3 DEF ShellInv

LEMMA SessionKeeps ==
    ASSUME ShellInv, Restored \/ Login \/ Refreshed \/ SignedOut
    PROVE  ShellInv'
<1>1. CASE Restored
  <2>1. PICK u \in User \cup {Nobody}, t \in {0, 1, token + 1} : Becomes(u, t) /\ (Stay \/ LeaveLogin(u))
    BY <1>1 DEF Restored
  <2>2. PlaceTrue'
    BY <2>1, LoginLeft, Entered DEF ShellInv
  <2>3. MenuTrue'
    BY <1>1, <2>1, MenuKept DEF Restored, ShellInv
  <2>4. OutletTrue'
    BY <1>1, Followed DEF Restored, ShellInv
  <2> QED
    BY <2>2, <2>3, <2>4 DEF ShellInv
<1>2. CASE Login
  <2>1. PICK u \in User \cup {Nobody}, t \in {0, 1, token + 1} : Becomes(u, t) /\ LeaveLogin(u)
    BY <1>2 DEF Login
  <2>2. PlaceTrue'
    BY <2>1, LoginLeft DEF ShellInv
  <2>3. MenuTrue'
    BY <1>2, <2>1, MenuKept DEF Login, ShellInv
  <2>4. OutletTrue'
    BY <1>2, Followed DEF Login, ShellInv
  <2> QED
    BY <2>2, <2>3, <2>4 DEF ShellInv
<1>3. CASE Refreshed
  <2>1. PICK u \in User, t \in {token + 1} : Becomes(u, t)
    BY <1>3 DEF Refreshed
  <2>2. PlaceTrue'
    BY <1>3, Entered DEF Refreshed, ShellInv, Stay, placeVars
  <2>3. MenuTrue' /\ user' = u
    BY <1>3, <2>1, MenuKept DEF Refreshed, ShellInv
  <2>4. OutletTrue'
    <3>1. OutletShown(user, life) /\ OutletShown(user, life)'
      BY <1>3, <2>1, <2>3, NobodyIsNone DEF Refreshed, OutletShown
    <3> QED
      BY <1>3, <3>1
         DEF Refreshed, ShellInv, placeVars, outletVars, OutletTrue, LoadsTrue, ShowingTrue, Settling
  <2> QED
    BY <2>2, <2>3, <2>4 DEF ShellInv
<1>4. CASE SignedOut
  <2>1. Becomes(Nobody, 0) /\ (Stay \/ NavigateAs(Nobody, LoginScreen))
    BY <1>4 DEF SignedOut
  <2>2. PlaceTrue'
    BY <2>1, Navigated, Entered DEF ShellInv
  <2>3. MenuTrue' /\ user' = Nobody
    BY <1>4, <2>1, MenuKept DEF SignedOut, ShellInv
  <2>4. OutletTrue'
    BY <1>4, <2>3, Followed DEF SignedOut, ShellInv
  <2> QED
    BY <2>2, <2>3, <2>4 DEF ShellInv
<1> QED
  BY <1>1, <1>2, <1>3, <1>4

\* The calls that are left when one has been answered.
LEMMA OthersLeft ==
    ASSUME NEW S, loads \in Seq([screen : S, live : BOOLEAN]), NEW i \in DOMAIN loads
    PROVE  /\ Answered(i) \in Seq([screen : S, live : BOOLEAN])
           /\ \A n \in DOMAIN Answered(i) : \E k \in DOMAIN loads : Answered(i)[n] = loads[k]
           /\ \A k \in DOMAIN loads \ {i} : \E n \in DOMAIN Answered(i) : Answered(i)[n] = loads[k]
<1> DEFINE R == [screen : S, live : BOOLEAN]
           a == Answered(i)
<1>0. loads \in Seq(R)
  OBVIOUS
<1> HIDE DEF R
<1>1. /\ DOMAIN loads = 1 .. Len(loads) /\ Len(loads) \in Nat /\ Len(loads) # 0
      /\ \A n \in DOMAIN loads : loads[n] \in R
  BY <1>0
<1>2. a = [n \in 1 .. Len(loads) - 1 |-> IF n < i THEN loads[n] ELSE loads[n + 1]]
  BY DEF Answered
<1>3. DOMAIN a = 1 .. Len(loads) - 1 /\ Len(loads) - 1 \in Nat
  BY <1>1, <1>2
<1>4. \A n \in DOMAIN a : \E k \in DOMAIN loads : a[n] = loads[k]
  <2> SUFFICES ASSUME NEW n \in 1 .. Len(loads) - 1
               PROVE  \E k \in DOMAIN loads : a[n] = loads[k]
    BY <1>3
  <2>1. n \in DOMAIN loads /\ n + 1 \in DOMAIN loads
    BY <1>1
  <2> QED
    BY <1>2, <2>1
<1>5. ASSUME NEW k \in DOMAIN loads \ {i}
      PROVE  \E n \in DOMAIN a : a[n] = loads[k]
  <2>1. CASE k < i
    BY <1>1, <1>2, <1>3, <2>1
  <2>2. CASE ~(k < i)
    <3>1. k - 1 \in DOMAIN a /\ ~(k - 1 < i) /\ (k - 1) + 1 = k
      BY <1>1, <1>3, <2>2
    <3> QED
      BY <1>2, <1>3, <3>1
  <2> QED
    BY <2>1, <2>2
<1>6. a \in Seq(R)
  <2>1. \A n \in 1 .. Len(loads) - 1 : a[n] \in R
    BY <1>1, <1>3, <1>4
  <2>2. a = [n \in 1 .. Len(loads) - 1 |-> a[n]]
    BY <1>2, <1>3
  <2> QED
    BY <1>3, <2>1, <2>2
<1> QED
  BY <1>4, <1>5, <1>6 DEF R

LEMMA AnswerKeeps ==
    ASSUME ShellInv, NEW i \in DOMAIN loads, Answer(i) \/ NoAnswer(i)
    PROVE  ShellInv'
<1>1. PICK S : loads \in Seq([screen : S, live : BOOLEAN])
  BY DEF ShellInv, OutletTrue, LoadsTrue
<1>2. /\ loads' = Answered(i)
      /\ UNCHANGED <<user, menu, life, listening, current, history, breadcrumb, passed>>
      /\ IF loads[i].live THEN outlet' = Showing("ready", loads[i].screen) \/ outlet'.status = "error"
                          ELSE outlet' = outlet
  BY DEF Answer, NoAnswer, sessionVars, placeVars, Showing
<1>3. PlaceTrue' /\ MenuTrue'
  BY <1>2 DEF ShellInv, PlaceTrue, MenuTrue
<1>4. loads' \in Seq([screen : S, live : BOOLEAN])
  BY <1>1, <1>2, OthersLeft
<1>5. OutletShown(user, life)' = OutletShown(user, life)
  BY <1>2 DEF OutletShown
<1>6. \A n \in DOMAIN loads' : \E k \in DOMAIN loads : loads'[n] = loads[k]
  BY <1>1, <1>2, OthersLeft
<1>7. CASE ~OutletShown(user, life)
  <2>1. Settling
    BY <1>7 DEF ShellInv, OutletTrue, LoadsTrue
  <2>2. Settling'
    BY <1>6, <2>1 DEF Settling
  <2> QED
    BY <1>3, <1>4, <1>5, <1>7, <2>2 DEF ShellInv, OutletTrue, LoadsTrue, ShowingTrue
<1>8. CASE OutletShown(user, life)
  <2>1. \A k \in DOMAIN loads : loads[k].live => loads[k].screen \in {current} \cup passed
    BY <1>8 DEF ShellInv, OutletTrue, LoadsTrue
  <2>2. LoadsTrue'
    BY <1>2, <1>4, <1>5, <1>6, <1>8, <2>1 DEF LoadsTrue
  <2>3. ShowingTrue'
    <3>1. CASE loads[i].live
      BY <1>2, <2>1, <3>1 DEF ShowingTrue
    <3>2. CASE ~loads[i].live
      <4>1. \A k \in DOMAIN loads \ {i} : \E n \in DOMAIN loads' : loads'[n] = loads[k]
        BY <1>1, <1>2, OthersLeft
      <4>2. ~Settling => ~Settling'
        BY <3>2, <4>1 DEF Settling
      <4> QED
        BY <1>2, <1>8, <3>2, <4>2 DEF ShellInv, OutletTrue, ShowingTrue
    <3> QED
      BY <3>1, <3>2
  <2> QED
    BY <1>3, <2>2, <2>3 DEF ShellInv, OutletTrue
<1> QED
  BY <1>7, <1>8

LEMMA MountKeeps ==
    ASSUME ShellInv, Unmount \/ Remount \/ CleanUp
    PROVE  ShellInv'
<1>1. PlaceTrue'
  BY DEF Unmount, Remount, CleanUp, ShellInv, PlaceTrue, placeVars
<1>2. MenuTrue'
  BY DEF Unmount, Remount, CleanUp, ShellInv, MenuTrue, sessionVars
<1>3. OutletTrue'
  <2>1. CASE Unmount \/ Remount
    BY <2>1, Followed DEF Unmount, Remount, ShellInv
  <2>2. CASE CleanUp
    BY <2>2 DEF CleanUp, ShellInv, OutletTrue, LoadsTrue, ShowingTrue, OutletShown, Settling, outletVars
  <2> QED
    BY <2>1, <2>2
<1> QED
  BY <1>1, <1>2, <1>3 DEF ShellInv

LEMMA ShellStep == ShellInv /\ [AppNext]_appVars => ShellInv'
<1> SUFFICES ASSUME ShellInv, [AppNext]_appVars
             PROVE  ShellInv'
  OBVIOUS
<1>1. CASE Use
  BY <1>1 DEF Use, ShellInv, PlaceTrue, MenuTrue, OutletTrue, LoadsTrue, ShowingTrue, OutletShown,
              Settling, sessionVars, outletVars
<1>2. CASE UNCHANGED appVars
  BY <1>2 DEF appVars, ShellInv, PlaceTrue, MenuTrue, OutletTrue, LoadsTrue, ShowingTrue,
              OutletShown, Settling
<1> QED
  BY <1>1, <1>2, NavigateKeeps, GoBackKeeps, SessionKeeps, AnswerKeeps, MountKeeps DEF AppNext

LEMMA ShellShown == ShellInv => AppShown
<1> SUFFICES ASSUME ShellInv
             PROVE  AppShown
  OBVIOUS
<1>1. ASSUME life = "mounted", BreadcrumbMode = "history"
      PROVE  ToSet(breadcrumb) = ToSet(history) /\ IsInjective(breadcrumb)
  BY <1>1, FirstsOnce DEF ShellInv, PlaceTrue, Crumbs
<1>2. ShellTrue
  BY <1>1 DEF ShellInv, PlaceTrue, MenuTrue, ShellTrue
<1>3. ShownIsCurrent
  BY DEF ShellInv, OutletTrue, ShowingTrue, ShownIsCurrent, Showing, LoadingOutlet
<1> QED
  BY <1>2, <1>3 DEF AppShown

\* For any screens, roles, policies and users, who go on whether or not a screen has loaded:
\* while the app is mounted the menu is the user's, the breadcrumb and the current screen
\* follow the history, and the outlet shows the current screen, one that was still loading
\* when the user came to it, an error, or that it waits for an answer that is on its way, in
\* whatever order answers come, sessions end, effects are cleaned up and the app is mounted
\* again (react/src/MythikApp.tsx, primitives/screen-outlet.tsx, core/src/app/app-engine.ts).
THEOREM AppIsShown == AppSpec => []AppShown
<1>1. ShellInv /\ [AppNext]_appVars => ShellInv'
  BY ShellStep
<1> QED
  BY ShellStart, ShellShown, <1>1, PTL DEF AppSpec
-----------------------------------------------------------------------------
(* The settings of MCPromotions *)

\* What is assumed of people: nobody sets by hand the pointer of an environment that is
\* promoted to.
PromotedOnly == \A route \in Route : route[2] \notin Manual

\* The invariants of EnvironmentPromotionProofs, of the regime each is about.
PlaceInv ==
    IF regime = "serial"
    THEN Serially!IInv /\ Serially!TypeInv /\ Serially!AloneInv
    ELSE IInv /\ TypeInv

LEMMA PlacesStart ==
    ASSUME RegimeInit
    PROVE  PlaceInv
<1> USE DocumentForm, BatchForm, PlaceForm, BoundForm
<1>1. CASE regime = "serial"
  BY <1>1, Serially!PromotionInit, Serially!TypeInit, Serially!AloneInit
     DEF PlaceInv, RegimeInit
<1>2. CASE regime # "serial"
  BY <1>2, PromotionInit, TypeInit DEF PlaceInv, RegimeInit
<1> QED
  BY <1>1, <1>2

LEMMA PlacesStep ==
    ASSUME PromotedOnly, PlaceInv, [RegimeNext]_regimeVars
    PROVE  PlaceInv'
<1> USE DocumentForm, BatchForm, PlaceForm, BoundForm
<1>s. regime' = regime
  BY DEF RegimeNext, regimeVars
<1>1. CASE regime = "serial"
  <2>1. Serially!OneAtATime
    BY DEF PromotedOnly, Serially!OneAtATime
  <2>2. [Serially!PromoteNext]_(Serially!promoteVars)
    BY <1>1 DEF RegimeNext, regimeVars, promoteVars, Serially!promoteVars
  <2>3. Serially!IInv' /\ Serially!TypeInv' /\ Serially!AloneInv'
    BY <1>1, <2>1, <2>2, Serially!PromotionStep, Serially!TypeStep, Serially!AloneStep
       DEF PlaceInv
  <2> QED
    BY <1>1, <1>s, <2>3 DEF PlaceInv
<1>2. CASE regime # "serial"
  <2>2. [PromoteNext]_(promoteVars)
    BY <1>2 DEF RegimeNext, regimeVars
  <2>3. IInv' /\ TypeInv'
    BY <1>2, <2>2, PromotionStep, TypeStep
       DEF PlaceInv
  <2> QED
    BY <1>2, <1>s, <2>3 DEF PlaceInv
<1> QED
  BY <1>1, <1>2

\* In the setting where people run one command at a time, for any specs, environments,
\* documents, batches and routes: what promotions hold stays well typed, and a promotion that
\* succeeds leaves in the destination the planned versions, with apis that serve what those
\* screens fetch (versioning/promote-gate.ts, cli/src/commands/promote.ts).  In the other
\* setting, where promoters race and die, the types stay.
THEOREM DestinationsAreSound ==
    PromotedOnly => (RegimeSpec => []DestinationSound)
<1> SUFFICES ASSUME PromotedOnly
             PROVE  RegimeSpec => []DestinationSound
  OBVIOUS
<1>1. RegimeInit => PlaceInv
  BY PlacesStart
<1>2. PlaceInv /\ [RegimeNext]_regimeVars => PlaceInv'
  BY PlacesStep
<1>3. PlaceInv => DestinationSound
  BY DocumentForm, BatchForm, PlaceForm, BoundForm,
     Serially!TypesHold, Serially!AloneDone, TypesHold
     DEF PlaceInv, DestinationSound
<1> QED
  BY <1>1, <1>2, <1>3, PTL DEF RegimeSpec

-----------------------------------------------------------------------------
(* The settings of MCTransactions *)

LEMMA ListOf ==
    ASSUME NEW list, NEW S, list \in Seq(S)
    PROVE  list \in Seq(Calm!ToSet(list))
  BY DEF Calm!ToSet

\* The lists of the calm setting are what TransactionEngine assumes.
LEMMA CalmForm == Calm!ConfigForm /\ Calm!NoTxIsNone
<1>1. ASSUME NEW t \in Tx
      PROVE  Phases \subseteq DOMAIN CalmConfigs[t]
  BY DEF CalmConfigs, Template, Phases
<1>2. ASSUME NEW t \in Tx, NEW ph \in Phases
      PROVE  \E S : CalmConfigs[t][ph] \in Seq(S)
  <2>1. \/ \E b : CalmConfigs[t][ph] = <<b>>
        \/ \E b, c : CalmConfigs[t][ph] = <<b, c>>
        \/ CalmConfigs[t][ph] = <<>>
    BY DEF CalmConfigs, Template, Phases, Post
  <2>2. CASE \E b : CalmConfigs[t][ph] = <<b>>
    <3>1. PICK b : CalmConfigs[t][ph] = <<b>>
      BY <2>2
    <3>2. <<b>> \in Seq({b})
      OBVIOUS
    <3> QED
      BY <3>1, <3>2
  <2>3. CASE \E b, c : CalmConfigs[t][ph] = <<b, c>>
    <3>1. PICK b, c : CalmConfigs[t][ph] = <<b, c>>
      BY <2>3
    <3>2. <<b, c>> \in Seq({b, c})
      OBVIOUS
    <3> QED
      BY <3>1, <3>2
  <2>4. CASE CalmConfigs[t][ph] = <<>>
    <3>1. <<>> \in Seq({t})
      OBVIOUS
    <3> QED
      BY <2>4, <3>1
  <2> QED
    BY <2>1, <2>2, <2>3, <2>4
<1>3. \A t \in Tx, ph \in Phases : CalmConfigs[t][ph] \in Seq(Calm!ToSet(CalmConfigs[t][ph]))
  BY <1>2, ListOf
<1>4. \A e \in Event : NoActions[e] \in Seq(Calm!ToSet(NoActions[e]))
  <2> TAKE e \in Event
  <2>1. NoActions[e] = <<>> /\ <<>> \in Seq({e})
    BY DEF NoActions
  <2> QED
    BY <2>1, ListOf
<1> QED
  BY <1>1, <1>3, <1>4, ConfigForm, NoTxIsNone
     DEF Calm!ConfigForm, Calm!NoTxIsNone, NoTx, Calm!NoTx, Phases, Calm!Phases,
         LastError, Loading, TxError, Result,
         Calm!LastError, Calm!Loading, Calm!TxError, Calm!Result

LEMMA MixedForm == Mixed!ConfigForm /\ Mixed!NoTxIsNone
  BY ConfigForm, NoTxIsNone
     DEF ConfigForm, NoTxIsNone, Mixed!ConfigForm, Mixed!NoTxIsNone, NoTx, Mixed!NoTx, Phases, Mixed!Phases,
         LastError, Loading, TxError, Result, ToSet, Mixed!ToSet,
         Mixed!LastError, Mixed!Loading, Mixed!TxError, Mixed!Result

\* The invariants of TransactionEngineProofs.
TurnsInv ==
    /\ scene = "calm" => Calm!IInv /\ Calm!OwnInv
    /\ scene = "mixed" => Mixed!IInv /\ Mixed!OwnInv

LEMMA TurnsStep ==
    ASSUME TurnsInv, [SceneNext]_sceneVars
    PROVE  TurnsInv'
<1>1. scene' = scene
  BY DEF SceneNext, sceneVars
<1>2. CASE scene = "calm"
  <2>1. [Calm!EngineNext]_(Calm!engineVars)
    BY <1>2 DEF SceneNext, sceneVars, engineVars, recordVars, Calm!engineVars, Calm!recordVars
  <2>2. Calm!IInv' /\ Calm!OwnInv'
    BY <1>2, <2>1, CalmForm, Calm!TurnStep, Calm!OwnStep DEF TurnsInv
  <2> QED
    BY <1>1, <1>2, <2>2 DEF TurnsInv
<1>3. CASE scene = "mixed"
  <2>1. [Mixed!EngineNext]_(Mixed!engineVars)
    BY <1>3 DEF SceneNext, sceneVars, engineVars, recordVars, Mixed!engineVars, Mixed!recordVars
  <2>2. Mixed!IInv' /\ Mixed!OwnInv'
    BY <1>3, <2>1, MixedForm, Mixed!TurnStep, Mixed!OwnStep DEF TurnsInv
  <2> QED
    BY <1>1, <1>3, <2>2 DEF TurnsInv
<1> QED
  BY <1>1, <1>2, <1>3 DEF TurnsInv

\* In both settings, for any transactions: a transaction is rolled back only if it failed itself,
\* committed only if it threw nothing and its last request was answered well, and its last phase
\* reads its own result or error, unless others wrote lastError while it awaited its confirm or
\* lists outside it wrote what it reads; through timeouts, late answers, requests of others and
\* actions that throw in every phase (actions/transaction-engine.ts).
THEOREM OutcomesAreTheirOwn == SceneSpec => []OutcomeIsOwn
<1>1. SceneInit => TurnsInv
  BY CalmForm, MixedForm, Calm!TurnInit, Calm!OwnInit, Mixed!TurnInit, Mixed!OwnInit DEF TurnsInv, SceneInit
<1>2. TurnsInv /\ [SceneNext]_sceneVars => TurnsInv'
  BY TurnsStep
<1>3. TurnsInv => OutcomeIsOwn
  BY CalmForm, MixedForm, Calm!OwnOutcomes, Mixed!OwnOutcomes DEF TurnsInv, OutcomeIsOwn
<1> QED
  BY <1>1, <1>2, <1>3, PTL DEF SceneSpec
-----------------------------------------------------------------------------
(* The settings of MCSqlCommands *)

LEMMA DocsFit == {DocPX, DocPYQX, DocQX, DocQY} \subseteq Document
<1>1. /\ DocPX \in [{p1} -> Value] /\ DocPYQX \in [{p1, p2} -> Value]
      /\ DocQX \in [{p2} -> Value] /\ DocQY \in [{p2} -> Value]
  BY InstanceForm DEF DocPX, DocPYQX, DocQX, DocQY
<1>2. {p1} \in SUBSET Place /\ {p2} \in SUBSET Place /\ {p1, p2} \in SUBSET Place
  BY InstanceForm
<1> QED
  BY <1>1, <1>2 DEF Document

LEMMA LoneForm ==
    Lone!ClientAssumption /\ Lone!IntervalAssumption /\ Lone!InputAssumption /\ Lone!NoDocAssumption
<1>1. {DocPX, DocPYQX, DocQX, DocQY} \subseteq Lone!Document
  BY DocsFit DEF Document, Lone!Document
<1>2. {p1} \in SUBSET Place /\ {} \in SUBSET Place
  BY InstanceForm
<1> QED
  BY <1>1, <1>2, NoDocAssumption
     DEF Document, Lone!Document, Lone!ClientAssumption, Lone!IntervalAssumption,
         Lone!InputAssumption, Lone!NoDocAssumption, Lone!PatchList,
         MCPushed, MCOneEdit, MCInitial

LEMMA AuthoredForm ==
    /\ Authored!ClientAssumption /\ Authored!IntervalAssumption
    /\ Authored!InputAssumption /\ Authored!NoDocAssumption
<1>1. {DocPX, DocPYQX, DocQX, DocQY} \subseteq Authored!Document
  BY DocsFit DEF Document, Authored!Document
<1> QED
  BY <1>1, NoDocAssumption, InstanceForm, InputAssumption
     DEF Document, Authored!Document, PatchList, Authored!PatchList,
         Authored!ClientAssumption, Authored!IntervalAssumption,
         Authored!InputAssumption, Authored!NoDocAssumption, MCInitial

\* The invariants of SqlVersionedStoreProofs, of the setting each is about.
CommandsInv ==
    /\ setting = "lone" => Lone!LoneInv
    /\ setting = "authored" => Authored!NewestInv

LEMMA CommandsStart == SettingInit => CommandsInv
<1>1. Lone!Init => Lone!LoneInv
  BY LoneForm, Lone!LoneStarts
<1>2. Authored!Init => Authored!NewestInv
  BY AuthoredForm, Authored!NewestStarts
<1> QED
  BY <1>1, <1>2 DEF CommandsInv, SettingInit

LEMMA CommandsStep ==
    ASSUME CommandsInv, [SettingNext]_settingVars
    PROVE  CommandsInv'
<1>1. setting' = setting
  BY DEF SettingNext, settingVars
<1>2. ASSUME setting = "lone" PROVE Lone!LoneInv'
  <2>1. [Lone!Next]_(Lone!vars)
    BY <1>2 DEF SettingNext, settingVars, vars, Lone!vars
  <2> QED
    BY <1>2, <2>1, LoneForm, Lone!LoneKept DEF CommandsInv
<1>3. ASSUME setting = "authored" PROVE Authored!NewestInv'
  <2>1. [Authored!Next]_(Authored!vars)
    BY <1>3 DEF SettingNext, settingVars, vars, Authored!vars
  <2> QED
    BY <1>3, <2>1, AuthoredForm, Authored!NewestKept DEF CommandsInv
<1> QED
  BY <1>1, <1>2, <1>3 DEF CommandsInv

\* In the settings of MCSqlCommands, for any places and values: with every writer naming an
\* author the current spec is at every moment the newest version that has been written to it
\* (or that version came in while another save was under way), however two processes race and
\* die, and a lone process's patch builds on what is served also after a save that died
\* half-way (spec-stores/sql-versioned.ts, cli/src/commands/push.ts, patch.ts).
THEOREM NewestServed == SettingSpec => []LatestServed
<1>1. CommandsInv => LatestServed
  BY LoneForm, AuthoredForm, Lone!LoneServed, Authored!NewestIsLatest DEF CommandsInv, LatestServed
<1> QED
  BY <1>1, CommandsStart, CommandsStep, PTL DEF SettingSpec

\* In the setting of processes that all name an author, racing, dying and failing to read the
\* current spec, for any documents and edits: the current spec is the first one or a version,
\* and the first one is version 1 unless the call that made version 1 had failed to read it
\* (spec-stores/sql-versioned.ts, cli/src/commands/push.ts, patch.ts).
THEOREM EverythingRecorded == SettingSpec => []NothingUnrecorded
<1>1. CommandsInv => NothingUnrecorded
  BY DEF CommandsInv, NothingUnrecorded, Authored!NewestInv, Authored!AuthoredInv
<1> QED
  BY <1>1, CommandsStart, CommandsStep, PTL DEF SettingSpec
=============================================================================
