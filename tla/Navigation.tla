----------------------------- MODULE Navigation -----------------------------
(***************************************************************************)
(* The destination of navigation: the param NavDestination, which the      *)
(* driver sets and ends from the screen and navd guesses, follows and      *)
(* clears (Navigator.update).  Routes, distances and the map are abstract: *)
(* a fix is near a place, on the route or off it.                          *)
(*                                                                         *)
(* navd reads the param and acts on it later; put is carried out by a      *)
(* worker after it returns, remove at once.                                *)
(***************************************************************************)
EXTENDS Naturals

CONSTANTS
  Places, Home, Work,  \* destinations, two of them saved
  NoPlace,             \* no destination, and a fix that is near none
  MaxNavStarts,        \* bound: starts of navd
  NavHappens           \* the unlucky timings a run allows, see NavTimings

\* "between": the driver acts while navd is between reading and writing, or a put is under
\* way; "guessed": the driver chooses the place that navd has guessed.
NavTimings == {"between", "guessed"}

ASSUME NavigationAssumption ==
  Home \in Places /\ Work \in Places /\ Home # Work /\ NoPlace \notin Places
  /\ NavHappens \subseteq NavTimings /\ MaxNavStarts \in Nat

VARIABLES
  navDestination, setBy,      \* the param; history: who wrote it last
  navPut, uiPut,              \* puts under way
  navPc, navSaw,              \* navd's next step, and what it has read
  dest, navStatus, hasRoute, offRoute, arrivedAt,   \* of Navigator
  fixWindow,                  \* first_fix_t: not yet, within WINDOW_S, before that
  autoDecided, autoPlace, isAuto,
  navStarts                   \* history: starts of navd

navigator == <<dest, navStatus, hasRoute, offRoute, arrivedAt, autoDecided, autoPlace, isAuto, navStarts>>
navVars == <<navDestination, setBy, navPut, uiPut, navPc, navSaw, navigator, fixWindow>>

Destinations == Places \cup {NoPlace}

NavInit ==
  /\ navDestination = NoPlace /\ setBy = "none" /\ navPut = NoPlace /\ uiPut = NoPlace
  /\ navPc = "read" /\ navSaw = NoPlace
  /\ dest = NoPlace /\ navStatus = "idle" /\ hasRoute = FALSE /\ offRoute = "no"
  /\ arrivedAt = "no"
  /\ fixWindow = "waiting" /\ autoDecided = FALSE /\ autoPlace = NoPlace /\ isAuto = FALSE /\ navStarts = 0

Quiet == "between" \in NavHappens \/ (navPc = "read" /\ navPut = NoPlace)

-----------------------------------------------------------------------------
\* The screen, and the workers of the puts

\* start_navigation and navigate_to_address
DriverGo ==
  /\ Quiet /\ uiPut = NoPlace
  /\ \E p \in Places : ("guessed" \in NavHappens \/ p # autoPlace) /\ uiPut' = p
  /\ UNCHANGED <<navDestination, setBy, navPut, navPc, navSaw, navigator, fixWindow>>

\* stop_navigation
DriverStop ==
  /\ Quiet /\ ("between" \in NavHappens \/ uiPut = NoPlace)
  /\ navDestination' = NoPlace /\ setBy' = "driver"
  /\ UNCHANGED <<navPut, uiPut, navPc, navSaw, navigator, fixWindow>>

PutLands ==
  /\ \/ Quiet /\ uiPut # NoPlace /\ navDestination' = uiPut /\ uiPut' = NoPlace
        /\ setBy' = "driver" /\ UNCHANGED navPut
     \/ navPut # NoPlace /\ navDestination' = navPut /\ navPut' = NoPlace
        /\ setBy' = "navd" /\ UNCHANGED uiPut
  /\ UNCHANGED <<navPc, navSaw, navigator, fixWindow>>

-----------------------------------------------------------------------------
\* navd

NavRead ==
  /\ navPc = "read" /\ navPc' = "act" /\ navSaw' = navDestination
  /\ "between" \in NavHappens \/ (navPut = NoPlace /\ uiPut = NoPlace)
  /\ UNCHANGED <<navDestination, setBy, navPut, uiPut, navigator, fixWindow>>

KeepParam == UNCHANGED <<navDestination, setBy>>
RemoveParam == navDestination' = NoPlace /\ setBy' = "navd"

\* _clear
Clear(status) == navStatus' = status /\ hasRoute' = FALSE /\ offRoute' = "no"

\* _plan finds a route, or not.
Plan ==
  \/ hasRoute' = TRUE /\ offRoute' = "no" /\ navStatus' = "routing"
  \/ Clear("no_route")

Arrive == RemoveParam /\ arrivedAt' = "shown" /\ Clear("arrived")

\* auto_destination
Guess(near) == IF near = Home THEN Work ELSE IF near = Work THEN Home ELSE NoPlace

MutIsNew(d) == dest = NoPlace
IsNew(d) == d # dest

\* No destination: idle, once the banner of an arrival has been shown.
NoDestination ==
  /\ KeepParam /\ UNCHANGED isAuto
  /\ IF arrivedAt = "shown" THEN UNCHANGED <<dest, navStatus, hasRoute, offRoute, arrivedAt>>
     ELSE dest' = NoPlace /\ arrivedAt' = "no" /\ Clear("idle")

\* Another destination than the last one: its route is forgotten, and one planned to this.
NewDestination(d, fix, near) ==
  /\ dest' = d /\ isAuto' = (autoPlace' = d)
  /\ \/ ~fix /\ KeepParam /\ arrivedAt' = "no" /\ Clear("no_gps")
     \/ fix /\ near = d /\ Arrive
     \/ fix /\ near # d /\ KeepParam /\ arrivedAt' = "no" /\ Plan

\* The car has left the route for long: a guess is given up, a route of the driver's is
\* planned again after a while.
LeaveRoute ==
  \/ isAuto /\ RemoveParam /\ isAuto' = FALSE /\ Clear("idle")
  \/ /\ ~isAuto /\ KeepParam /\ UNCHANGED isAuto
     /\ \/ navStatus' = "off_route" /\ UNCHANGED <<hasRoute, offRoute>>
        \/ Plan

SameDestination(fix, near) ==
  \/ ~fix /\ KeepParam /\ navStatus' = "no_gps" /\ UNCHANGED <<hasRoute, offRoute, arrivedAt, isAuto>>
  \/ fix /\ near = dest /\ Arrive /\ UNCHANGED isAuto
  \/ /\ fix /\ near # dest /\ ~hasRoute /\ KeepParam /\ UNCHANGED <<arrivedAt, isAuto>>
     /\ Plan \/ (navStatus # "routing" /\ UNCHANGED <<navStatus, hasRoute, offRoute>>)
  \/ /\ fix /\ near # dest /\ hasRoute
     /\ \/ Arrive /\ UNCHANGED isAuto
        \/ /\ offRoute # "long" /\ offRoute' = "since"
           /\ KeepParam /\ UNCHANGED <<navStatus, hasRoute, arrivedAt, isAuto>>
        \/ offRoute = "long" /\ LeaveRoute /\ UNCHANGED arrivedAt
        \/ /\ navStatus' = "routing" /\ offRoute' = "no"
           /\ KeepParam /\ UNCHANGED <<hasRoute, arrivedAt, isAuto>>

\* The rest of Navigator.update, at some position, with the guess enabled or not: it is made
\* once per drive, and while the window is open.
NavAct ==
  /\ navPc = "act" /\ navPc' = "read" /\ navSaw' = NoPlace
  /\ \E fix, enabled \in BOOLEAN, near \in Destinations :
       LET guesses == navSaw = NoPlace /\ fix /\ enabled /\ ~autoDecided
           guess == IF guesses /\ fixWindow # "closed" THEN Guess(near) ELSE NoPlace
           d == IF navSaw # NoPlace THEN navSaw ELSE guess
       IN /\ fixWindow' = IF fix /\ fixWindow = "waiting" THEN "open" ELSE fixWindow
          /\ autoDecided' = (autoDecided \/ (guesses /\ (fixWindow = "closed" \/ guess # NoPlace)))
          /\ IF guess = NoPlace THEN UNCHANGED <<navPut, autoPlace>>
             ELSE navPut' = guess /\ autoPlace' = guess
          /\ \/ d = NoPlace /\ NoDestination
             \/ d # NoPlace /\ IsNew(d) /\ NewDestination(d, fix, near)
             \/ d # NoPlace /\ ~IsNew(d) /\ SameDestination(fix, near) /\ UNCHANGED dest
  /\ UNCHANGED <<uiPut, navStarts>>

\* Time: the window of the guess, off the route, the banner of an arrival.
NavTime ==
  /\ \/ fixWindow = "open" /\ fixWindow' = "closed" /\ UNCHANGED <<offRoute, arrivedAt>>
     \/ offRoute = "since" /\ offRoute' = "long" /\ UNCHANGED <<fixWindow, arrivedAt>>
     \/ arrivedAt = "shown" /\ arrivedAt' = "past" /\ UNCHANGED <<fixWindow, offRoute>>
  /\ UNCHANGED <<navDestination, setBy, navPut, uiPut, navPc, navSaw, dest, navStatus, hasRoute,
                 autoDecided, autoPlace, isAuto, navStarts>>

\* Another drive: navd starts again, and the param is persistent.
NavRestart ==
  /\ Quiet /\ navStarts < MaxNavStarts /\ navStarts' = navStarts + 1
  /\ dest' = NoPlace /\ navStatus' = "idle" /\ hasRoute' = FALSE /\ offRoute' = "no"
  /\ arrivedAt' = "no" /\ fixWindow' = "waiting"
  /\ autoDecided' = FALSE /\ autoPlace' = NoPlace /\ isAuto' = FALSE
  /\ navPc' = "read" /\ navSaw' = NoPlace
  /\ UNCHANGED <<navDestination, setBy, navPut, uiPut>>

NavNext == DriverGo \/ DriverStop \/ PutLands \/ NavRead \/ NavAct \/ NavTime \/ NavRestart

NavSpec == NavInit /\ [][NavNext]_navVars

-----------------------------------------------------------------------------
\* Properties

\* The values each variable takes.
NavTypeOK ==
  /\ {navDestination, navPut, uiPut, navSaw, dest, autoPlace} \subseteq Destinations
  /\ setBy \in {"none", "driver", "navd"} /\ navPc \in {"read", "act"}
  /\ navStatus \in {"idle", "no_gps", "routing", "off_route", "no_route", "arrived"}
  /\ hasRoute \in BOOLEAN /\ offRoute \in {"no", "since", "long"} /\ arrivedAt \in {"no", "shown", "past"}
  /\ fixWindow \in {"waiting", "open", "closed"} /\ autoDecided \in BOOLEAN
  /\ isAuto \in BOOLEAN /\ navStarts \in 0..MaxNavStarts

\* auto_destination.py "a destination the driver sets is never touched": what the driver has
\* set stays until it is reached or the driver sets another or stops, whatever navd guessed
\* before and however often it starts again.
DriverUntouched ==
  [][setBy = "driver" /\ navDestination # NoPlace /\ navDestination' # navDestination =>
       setBy' = "driver" \/ navStatus' = "arrived"]_navVars

\* navd.py: "active target": navd comes to follow the param, with no destination left once it
\* is gone, and stays with it.
NavFollowsParam ==
  \A d \in Destinations : <>[](navDestination = d /\ uiPut = NoPlace) => <>[](dest = d)
=============================================================================
