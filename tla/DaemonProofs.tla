---------------------------- MODULE DaemonProofs ----------------------------
(***************************************************************************)
(* Proofs about the smaller daemons, each for any constants of its own: a  *)
(* lane change is signalled; with no unlucky timing navd leaves the        *)
(* driver's destination alone; an upload is wanted in one place and is not *)
(* lost; the modem is dialled with the settings read for the SIM at hand;  *)
(* no choice of a setting with two writers is lost to an older one of its  *)
(* writer; a page of the drive browser is told right of a clip that was    *)
(* not encoded twice at once; and, once nothing is on its way, the         *)
(* settings show the network that NetworkManager has.                      *)
(***************************************************************************)
EXTENDS LaneChange, Navigation, Uploads, Modem, Toggles, Clips, Wifi, TLAPS

-----------------------------------------------------------------------------
\* Lane changes

\* While a change waits, its auto timer has run no longer than the signal.
SignalCovers == laneChangeState = "preLaneChange" => autoTimer <= signalled

LaneInv == LaneTypeOK /\ SignalCovers

\* The timers stay in their range, and are what a frame makes of them.
LEMMA LaneTimers ==
  ASSUME LaneTypeOK, NEW freeway \in BOOLEAN, NEW setting \in BOOLEAN,
         autoTimer' = AutoTimer(freeway, setting)
  PROVE  /\ autoTimer' \in 0..AutoStartDelay
         /\ autoTimer' <= autoTimer + 1
         /\ laneChangeState # "preLaneChange" \/ ~freeway \/ ~setting => autoTimer' = 0
BY LaneChangeAssumption DEF LaneTypeOK, AutoTimer

LEMMA LaneInitInv == LaneInit => LaneInv
<1>1. AutoStartDelay \in Nat /\ LaneChangeMax \in Nat
  BY LaneChangeAssumption
<1>2. LaneInit => LaneTypeOK
  <2> SUFFICES ASSUME LaneInit PROVE LaneTypeOK
    OBVIOUS
  <2>1. laneChangeTimer \in 0..(LaneChangeMax + 1) /\ autoTimer \in 0..AutoStartDelay /\ signalled \in 0..AutoStartDelay
    BY <1>1 DEF LaneInit
  <2>2. blinker \in Blinkers /\ laneChangeDirection \in Sides \cup {"none"}
    BY DEF LaneInit, Sides, Blinkers
  <2>3. prevOneBlinker \in BOOLEAN /\ nudged \in BOOLEAN /\ blocked \in BOOLEAN
    BY DEF LaneInit
  <2>4. laneChangeState \in {"off", "preLaneChange", "laneChangeStarting"}
    BY DEF LaneInit
  <2> QED BY <2>1, <2>2, <2>3, <2>4 DEF LaneTypeOK
<1>3. LaneInit => SignalCovers
  BY DEF LaneInit, SignalCovers
<1> QED BY <1>2, <1>3 DEF LaneInv

\* Arm, Await and Changing, and the way off, keep the state, the direction and the timer in
\* their ranges.
LEMMA LaneStateType ==
  ASSUME LaneTypeOK, NEW b \in Blinkers, NEW slow \in BOOLEAN, NEW latActive \in BOOLEAN,
         NEW done \in BOOLEAN,
         IF ~latActive \/ laneChangeTimer > LaneChangeMax THEN LaneOff
         ELSE Arm(b, slow) \/ Await(b, slow) \/ Changing(b, done)
  PROVE  /\ laneChangeState' \in {"off", "preLaneChange", "laneChangeStarting"}
         /\ laneChangeDirection' \in Sides \cup {"none"}
         /\ laneChangeTimer' \in 0..(LaneChangeMax + 1)
<1>1. CASE LaneOff
  BY <1>1, LaneChangeAssumption DEF LaneOff
<1>2. CASE Arm(b, slow)
  BY <1>2, LaneChangeAssumption DEF Arm, LaneTypeOK
<1>3. CASE Await(b, slow)
  BY <1>3, LaneChangeAssumption DEF Await, LaneOff, LaneTypeOK
<1>4. CASE laneChangeTimer <= LaneChangeMax /\ Changing(b, done)
  BY <1>4, LaneChangeAssumption DEF Changing, LaneOff, LaneTypeOK
<1>5. laneChangeTimer <= LaneChangeMax \/ laneChangeTimer > LaneChangeMax
  BY LaneChangeAssumption DEF LaneTypeOK
<1> QED BY <1>1, <1>2, <1>3, <1>4, <1>5

\* A change waits on after a frame only with a blinker on, and only if it waited before or its
\* auto timer begins anew.
LEMMA WaitsSignalled ==
  ASSUME NEW b \in Blinkers, NEW slow \in BOOLEAN, NEW latActive \in BOOLEAN, NEW done \in BOOLEAN,
         IF ~latActive \/ laneChangeTimer > LaneChangeMax THEN LaneOff
         ELSE Arm(b, slow) \/ Await(b, slow) \/ Changing(b, done),
         laneChangeState' \in {"preLaneChange", "laneChangeStarting"},
         laneChangeState = "preLaneChange"
  PROVE  /\ b \in Sides
         /\ laneChangeState' = "laneChangeStarting" =>
              laneChangeDirection' = b /\ ~blocked' /\ (nudged' \/ autoTimer' = AutoStartDelay)
BY DEF LaneOff, Arm, Await, Changing

LEMMA LaneStepInv == LaneInv /\ [LaneFrame]_laneVars => LaneInv'
<1> SUFFICES ASSUME LaneInv, [LaneFrame]_laneVars PROVE LaneInv'
  OBVIOUS
<1>1. CASE UNCHANGED laneVars
  BY <1>1 DEF laneVars, LaneInv, LaneTypeOK, SignalCovers
<1>2. CASE LaneFrame
  <2>1. PICK b \in Blinkers, slow \in BOOLEAN, latActive \in BOOLEAN, freeway \in BOOLEAN,
             setting \in BOOLEAN, done \in BOOLEAN :
          LaneFrame!(b, slow, latActive, freeway, setting, done)
    BY <1>2 DEF LaneFrame
  <2>2. LaneTypeOK'
    <3>1. /\ laneChangeState' \in {"off", "preLaneChange", "laneChangeStarting"}
          /\ laneChangeDirection' \in Sides \cup {"none"}
          /\ laneChangeTimer' \in 0..(LaneChangeMax + 1)
      BY <2>1, LaneStateType DEF LaneInv
    <3>2. autoTimer' \in 0..AutoStartDelay
      BY <2>1, LaneTimers DEF LaneInv
    <3>3. signalled' \in 0..AutoStartDelay
      BY <2>1, LaneChangeAssumption DEF LaneInv, LaneTypeOK
    <3>4. prevOneBlinker' \in BOOLEAN /\ blinker' \in Blinkers /\ nudged' \in BOOLEAN /\ blocked' \in BOOLEAN
      BY <2>1
    <3> QED BY <3>1, <3>2, <3>3, <3>4 DEF LaneTypeOK
  <2>3. SignalCovers'
    <3>1. SUFFICES ASSUME laneChangeState' = "preLaneChange" PROVE autoTimer' <= signalled'
      BY DEF SignalCovers
    <3>2. CASE autoTimer' = 0
      BY <2>2, <3>2 DEF LaneTypeOK
    <3>3. CASE autoTimer' # 0
      <4>1. laneChangeState = "preLaneChange" /\ freeway /\ setting /\ autoTimer' <= autoTimer + 1
        BY <2>1, <3>3, LaneTimers DEF LaneInv
      <4>2. b \in Sides
        BY <2>1, <3>1, <4>1, WaitsSignalled
      <4>3. autoTimer <= signalled /\ autoTimer \in 0..AutoStartDelay /\ signalled \in 0..AutoStartDelay
        BY <4>1 DEF LaneInv, SignalCovers, LaneTypeOK
      <4>4. signalled' = IF signalled < AutoStartDelay THEN signalled + 1 ELSE signalled
        BY <2>1, <4>1, <4>2
      <4>5. autoTimer' \in 0..AutoStartDelay
        BY <2>2 DEF LaneTypeOK
      <4> QED BY <4>1, <4>3, <4>4, <4>5, LaneChangeAssumption
    <3> QED BY <3>2, <3>3
  <2> QED BY <2>2, <2>3 DEF LaneInv
<1> QED BY <1>1, <1>2

\* The timers of DesireHelper and AutoLaneChange stay within their limits, and with them every
\* variable in its type.
THEOREM LaneTypeCorrect == LaneSpec => []LaneTypeOK
<1>1. LaneInv => LaneTypeOK
  BY DEF LaneInv
<1> QED BY LaneInitInv, LaneStepInv, <1>1, PTL DEF LaneSpec

\* A change starts to the signalled and clear side, on a nudge or after the whole delay
\* (DesireHelper.update, AutoLaneChange.update), whatever the delay is.
THEOREM ChangeSignalled == LaneSpec => ChangeIsSignalled
<1>1. LaneInv /\ LaneInv' /\ [LaneFrame]_laneVars
        => [laneChangeState' = "laneChangeStarting" /\ laneChangeState # "laneChangeStarting" =>
              /\ blinker' = laneChangeDirection' /\ ~blocked'
              /\ nudged' \/ signalled' = AutoStartDelay]_laneVars
  <2> SUFFICES ASSUME LaneInv, LaneInv', LaneFrame,
                      laneChangeState' = "laneChangeStarting", laneChangeState # "laneChangeStarting"
               PROVE  /\ blinker' = laneChangeDirection' /\ ~blocked'
                      /\ nudged' \/ signalled' = AutoStartDelay
    OBVIOUS
  <2>1. PICK b \in Blinkers, slow \in BOOLEAN, latActive \in BOOLEAN, freeway \in BOOLEAN,
             setting \in BOOLEAN, done \in BOOLEAN :
          LaneFrame!(b, slow, latActive, freeway, setting, done)
    BY DEF LaneFrame
  <2>2. laneChangeState = "preLaneChange"
    BY <2>1 DEF LaneOff, Arm, Await, Changing
  <2>3. b \in Sides /\ laneChangeDirection' = b /\ ~blocked' /\ (nudged' \/ autoTimer' = AutoStartDelay)
    BY <2>1, <2>2, WaitsSignalled
  <2>4. CASE autoTimer' = AutoStartDelay
    <3>1. autoTimer' # 0
      BY <2>4, LaneChangeAssumption
    <3>2. freeway /\ setting /\ autoTimer' <= autoTimer + 1
      BY <2>1, <3>1, LaneTimers DEF LaneInv
    <3>3. autoTimer <= signalled /\ autoTimer \in 0..AutoStartDelay /\ signalled \in 0..AutoStartDelay
      BY <2>2 DEF LaneInv, SignalCovers, LaneTypeOK
    <3>4. signalled' = IF signalled < AutoStartDelay THEN signalled + 1 ELSE signalled
      BY <2>1, <2>3, <3>2
    <3>5. signalled' = AutoStartDelay
      BY <2>4, <3>2, <3>3, <3>4, LaneChangeAssumption
    <3> QED BY <2>1, <2>3, <3>5
  <2> QED BY <2>1, <2>3, <2>4
<1> QED BY LaneInitInv, LaneStepInv, <1>1, PTL DEF LaneSpec, ChangeIsSignalled

-----------------------------------------------------------------------------
\* Navigation

\* navd acts on the param as it is, alone; a put of its own finds no destination.
NavAlone ==
  /\ navPc \in {"read", "act"}
  /\ navPc = "act" => navSaw = navDestination /\ navPut = NoPlace /\ uiPut = NoPlace
  /\ navPut # NoPlace => navDestination = NoPlace /\ uiPut = NoPlace

\* What the driver has chosen is not the place of the guess.
ChoiceIsOwn ==
  /\ uiPut # NoPlace => navPc = "read" /\ uiPut # autoPlace
  /\ setBy = "driver" /\ navDestination # NoPlace => navDestination # autoPlace

\* is_auto marks a destination that was guessed, once in a drive.
AutoIsGuess ==
  /\ isAuto \in BOOLEAN
  /\ isAuto => autoPlace # NoPlace /\ dest \in {autoPlace, NoPlace}
  /\ autoPlace # NoPlace => autoDecided

NavInv == NavAlone /\ ChoiceIsOwn /\ AutoIsGuess

\* What the guess of an update is, its destination, and its two branches, named.
Guesses(fix, enabled) == navSaw = NoPlace /\ fix /\ enabled /\ ~autoDecided
Guessed(fix, enabled, near) ==
  IF Guesses(fix, enabled) /\ fixWindow # "closed" THEN Guess(near) ELSE NoPlace
Target(fix, enabled, near) == IF navSaw # NoPlace THEN navSaw ELSE Guessed(fix, enabled, near)
Moves(d, fix, near) ==
  \/ d = NoPlace /\ NoDestination
  \/ d # NoPlace /\ IsNew(d) /\ NewDestination(d, fix, near)
  \/ d # NoPlace /\ ~IsNew(d) /\ SameDestination(fix, near) /\ UNCHANGED dest

LEMMA NavActCases ==
  ASSUME NavAct
  PROVE  /\ navPc = "act" /\ navPc' = "read" /\ navSaw' = NoPlace /\ uiPut' = uiPut
         /\ \E fix, enabled \in BOOLEAN, near \in Destinations :
              /\ autoDecided' = (autoDecided \/ (Guesses(fix, enabled)
                                   /\ (fixWindow = "closed" \/ Guessed(fix, enabled, near) # NoPlace)))
              /\ IF Guessed(fix, enabled, near) = NoPlace THEN UNCHANGED <<navPut, autoPlace>>
                 ELSE /\ navPut' = Guessed(fix, enabled, near)
                      /\ autoPlace' = Guessed(fix, enabled, near)
              /\ Moves(Target(fix, enabled, near), fix, near)
BY DEF NavAct, Guesses, Guessed, Target, Moves

\* Where an update goes, the param is kept, or removed on arrival or by giving up a guess.
LEMMA ParamOfMoves ==
  ASSUME NEW d, NEW fix, NEW near, Moves(d, fix, near)
  PROVE  \/ navDestination' = navDestination /\ setBy' = setBy
         \/ navDestination' = NoPlace /\ navStatus' = "arrived" /\ setBy' = "navd"
         \/ navDestination' = NoPlace /\ setBy' = "navd" /\ isAuto /\ d # NoPlace /\ d = dest
<1>1. CASE d = NoPlace /\ NoDestination
  BY <1>1 DEF NoDestination, KeepParam
<1>2. CASE NewDestination(d, fix, near)
  BY <1>2 DEF NewDestination, KeepParam, Arrive, RemoveParam, Clear
<1>3. CASE d # NoPlace /\ ~IsNew(d) /\ SameDestination(fix, near)
  BY <1>3 DEF SameDestination, KeepParam, Arrive, RemoveParam, Clear, LeaveRoute, IsNew
<1> QED BY <1>1, <1>2, <1>3 DEF Moves

\* Where an update goes, is_auto is kept or given up with the destination, or follows the guess.
LEMMA AutoOfMoves ==
  ASSUME NEW d, NEW fix, NEW near, Moves(d, fix, near), isAuto \in BOOLEAN
  PROVE  /\ isAuto' \in BOOLEAN
         /\ \/ isAuto' = isAuto /\ dest' \in {dest, NoPlace}
            \/ isAuto' = FALSE
            \/ d # NoPlace /\ dest' = d /\ autoPlace' = d
<1>1. CASE d = NoPlace /\ NoDestination
  BY <1>1 DEF NoDestination
<1>2. CASE d # NoPlace /\ NewDestination(d, fix, near)
  BY <1>2 DEF NewDestination
<1>3. CASE SameDestination(fix, near) /\ UNCHANGED dest
  BY <1>3 DEF SameDestination, LeaveRoute
<1> QED BY <1>1, <1>2, <1>3 DEF Moves

LEMMA NavInitInv == NavInit => NavInv
BY DEF NavInit, NavInv, NavAlone, ChoiceIsOwn, AutoIsGuess

\* An update alone keeps the invariant, and leaves the driver's destination alone.
LEMMA NavActInv ==
  ASSUME NavInv, NavAct
  PROVE  /\ NavInv'
         /\ setBy = "driver" /\ navDestination # NoPlace /\ navDestination' # navDestination
              => navStatus' = "arrived"
<1>1. PICK fix \in BOOLEAN, enabled \in BOOLEAN, near \in Destinations :
        /\ autoDecided' = (autoDecided \/ (Guesses(fix, enabled)
                             /\ (fixWindow = "closed" \/ Guessed(fix, enabled, near) # NoPlace)))
        /\ IF Guessed(fix, enabled, near) = NoPlace THEN UNCHANGED <<navPut, autoPlace>>
           ELSE /\ navPut' = Guessed(fix, enabled, near)
                /\ autoPlace' = Guessed(fix, enabled, near)
        /\ Moves(Target(fix, enabled, near), fix, near)
  BY NavActCases
<1> DEFINE g == Guessed(fix, enabled, near)
           d == Target(fix, enabled, near)
<1>2. navPc = "act" /\ navPc' = "read" /\ uiPut' = NoPlace /\ navSaw = navDestination /\ navPut = NoPlace
  BY NavActCases DEF NavInv, NavAlone
<1>3. g # NoPlace => navDestination = NoPlace /\ ~autoDecided /\ autoDecided'
  BY <1>1, <1>2 DEF Guessed, Guesses
<1>4. d = IF navDestination # NoPlace THEN navDestination ELSE g
  BY <1>2 DEF Target
<1>5. IF g = NoPlace THEN navPut' = NoPlace /\ autoPlace' = autoPlace ELSE navPut' = g /\ autoPlace' = g
  BY <1>1, <1>2
<1>6. autoDecided => autoDecided'
  BY <1>1
<1>7. \/ navDestination' = navDestination /\ setBy' = setBy
      \/ navDestination' = NoPlace /\ navStatus' = "arrived" /\ setBy' = "navd"
      \/ navDestination' = NoPlace /\ setBy' = "navd" /\ isAuto /\ d # NoPlace /\ d = dest
  BY <1>1, ParamOfMoves
<1>8. /\ isAuto' \in BOOLEAN
      /\ \/ isAuto' = isAuto /\ dest' \in {dest, NoPlace}
         \/ isAuto' = FALSE
         \/ d # NoPlace /\ dest' = d /\ autoPlace' = d
  BY <1>1, AutoOfMoves DEF NavInv, AutoIsGuess
<1> HIDE DEF g, d
<1>9. NavAlone'
  BY <1>2, <1>3, <1>5, <1>7 DEF NavAlone
<1>10. ChoiceIsOwn'
  BY <1>2, <1>3, <1>5, <1>7 DEF ChoiceIsOwn, NavInv
<1>11. AutoIsGuess'
  <2>1. CASE isAuto
    <3>1. autoPlace # NoPlace /\ autoDecided /\ dest \in {autoPlace, NoPlace}
      BY <2>1 DEF NavInv, AutoIsGuess
    <3>2. autoPlace' = autoPlace /\ autoDecided'
      BY <1>3, <1>5, <1>6, <3>1
    <3> QED BY <1>8, <3>1, <3>2 DEF AutoIsGuess
  <2>2. CASE ~isAuto
    <3>1. isAuto' => autoPlace' # NoPlace /\ dest' = autoPlace'
      BY <1>8, <2>2
    <3>2. autoPlace' # NoPlace => autoDecided'
      BY <1>3, <1>5, <1>6 DEF NavInv, AutoIsGuess
    <3> QED BY <1>8, <3>1, <3>2 DEF AutoIsGuess
  <2> QED BY <2>1, <2>2
<1>12. ASSUME setBy = "driver", navDestination # NoPlace, navDestination' # navDestination
       PROVE  navStatus' = "arrived"
  <2>1. d = navDestination /\ navDestination # autoPlace
    BY <1>4, <1>12 DEF NavInv, ChoiceIsOwn
  <2>2. ~(isAuto /\ d # NoPlace /\ d = dest)
    BY <2>1, <1>12 DEF NavInv, AutoIsGuess
  <2> QED BY <1>7, <1>12, <2>2
<1> QED BY <1>9, <1>10, <1>11, <1>12 DEF NavInv

\* So does every step, if none of the unlucky timings happens.
LEMMA NavStepInv ==
  ASSUME "between" \notin NavHappens, "guessed" \notin NavHappens, NavInv, [NavNext]_navVars
  PROVE  /\ NavInv'
         /\ setBy = "driver" /\ navDestination # NoPlace /\ navDestination' # navDestination
              => setBy' = "driver" \/ navStatus' = "arrived"
<1> USE DEF NavInv, NavAlone, ChoiceIsOwn, AutoIsGuess
<1>1. CASE UNCHANGED navVars
  BY <1>1 DEF navVars, navigator
<1>2. CASE DriverGo
  BY <1>2, NavigationAssumption DEF DriverGo, Quiet, navigator
<1>3. CASE DriverStop
  BY <1>3 DEF DriverStop, Quiet, navigator
<1>4. CASE PutLands
  BY <1>4 DEF PutLands, Quiet, navigator
<1>5. CASE NavRead
  BY <1>5 DEF NavRead, navigator
<1>6. CASE NavAct
  BY <1>6, NavActInv
<1>7. CASE NavTime
  BY <1>7 DEF NavTime
<1>8. CASE NavRestart
  BY <1>8 DEF NavRestart, Quiet
<1> QED BY <1>1, <1>2, <1>3, <1>4, <1>5, <1>6, <1>7, <1>8 DEF NavNext

\* auto_destination.py: "a destination the driver sets is never touched", as long as the
\* driver does not choose the guessed place and navd is not amid an update when the driver
\* acts.
THEOREM DriverStaysUntouched ==
  ASSUME "between" \notin NavHappens, "guessed" \notin NavHappens
  PROVE  NavSpec => DriverUntouched
<1>1. NavInv /\ [NavNext]_navVars => NavInv'
  BY NavStepInv
<1>2. NavInv /\ [NavNext]_navVars
        => [setBy = "driver" /\ navDestination # NoPlace /\ navDestination' # navDestination =>
              setBy' = "driver" \/ navStatus' = "arrived"]_navVars
  BY NavStepInv
<1> QED BY NavInitInv, <1>1, <1>2, PTL DEF NavSpec, DriverUntouched

\* NavTypeOK: the flags, which depend on nothing, and the other values.
NavFlags == hasRoute \in BOOLEAN /\ autoDecided \in BOOLEAN /\ isAuto \in BOOLEAN

NavValues ==
  /\ navDestination \in Destinations /\ navPut \in Destinations /\ uiPut \in Destinations
  /\ navSaw \in Destinations /\ dest \in Destinations /\ autoPlace \in Destinations
  /\ setBy \in {"none", "driver", "navd"} /\ navPc \in {"read", "act"}
  /\ navStatus \in {"idle", "no_gps", "routing", "off_route", "no_route", "arrived"}
  /\ offRoute \in {"no", "since", "long"} /\ arrivedAt \in {"no", "shown", "past"}
  /\ fixWindow \in {"waiting", "open", "closed"} /\ navStarts \in 0..MaxNavStarts

LEMMA NavFlagsStep ==
  ASSUME NavFlags, [NavNext]_navVars
  PROVE  NavFlags'
<1>1. CASE DriverGo \/ DriverStop \/ PutLands \/ NavRead
  BY <1>1 DEF DriverGo, DriverStop, PutLands, NavRead, NavFlags, navigator
<1>2. CASE NavAct
  <2>1. autoDecided' \in BOOLEAN
    BY <1>2 DEF NavAct, NavFlags
  <2>2. CASE NoDestination
    BY <2>1, <2>2 DEF NoDestination, Clear, NavFlags
  <2>3. CASE \E d, fix, near : NewDestination(d, fix, near)
    BY <2>1, <2>3 DEF NewDestination, Arrive, Plan, Clear, NavFlags
  <2>4. CASE \E fix, near : SameDestination(fix, near)
    BY <2>1, <2>4 DEF SameDestination, LeaveRoute, Arrive, Plan, Clear, NavFlags
  <2> QED
    BY <1>2, <2>2, <2>3, <2>4 DEF NavAct
<1>3. CASE NavTime \/ NavRestart
  BY <1>3 DEF NavTime, NavRestart, NavFlags
<1>4. CASE UNCHANGED navVars
  BY <1>4 DEF navVars, navigator, NavFlags
<1> QED
  BY <1>1, <1>2, <1>3, <1>4 DEF NavNext

LEMMA NavActValues ==
  ASSUME NavValues, NavAct
  PROVE  NavValues'
<1> USE NavigationAssumption DEF Destinations
<1>1. PICK fix, enabled \in BOOLEAN, near \in Destinations :
        LET guesses == navSaw = NoPlace /\ fix /\ enabled /\ ~autoDecided
            guess == IF guesses /\ fixWindow # "closed" THEN Guess(near) ELSE NoPlace
            d == IF navSaw # NoPlace THEN navSaw ELSE guess
        IN /\ fixWindow' = IF fix /\ fixWindow = "waiting" THEN "open" ELSE fixWindow
           /\ IF guess = NoPlace THEN UNCHANGED <<navPut, autoPlace>>
              ELSE navPut' = guess /\ autoPlace' = guess
           /\ \/ d = NoPlace /\ NoDestination
              \/ d # NoPlace /\ IsNew(d) /\ NewDestination(d, fix, near)
              \/ d # NoPlace /\ ~IsNew(d) /\ SameDestination(fix, near) /\ UNCHANGED dest
  BY DEF NavAct
<1> DEFINE guesses == navSaw = NoPlace /\ fix /\ enabled /\ ~autoDecided
           guess == IF guesses /\ fixWindow # "closed" THEN Guess(near) ELSE NoPlace
           d == IF navSaw # NoPlace THEN navSaw ELSE guess
<1>2. guess \in Destinations /\ d \in Destinations
  BY DEF Guess, NavValues
<1>3. navPut' \in Destinations /\ autoPlace' \in Destinations /\ fixWindow' \in {"waiting", "open", "closed"}
  BY <1>1, <1>2 DEF NavValues
<1>4. navPc' = "read" /\ navSaw' = NoPlace /\ uiPut' = uiPut /\ navStarts' = navStarts
  BY DEF NavAct
<1> HIDE DEF d, guess, guesses
<1> DEFINE Followed ==
      /\ navDestination' \in Destinations /\ dest' \in Destinations /\ setBy' \in {"none", "driver", "navd"}
      /\ navStatus' \in {"idle", "no_gps", "routing", "off_route", "no_route", "arrived"}
      /\ offRoute' \in {"no", "since", "long"} /\ arrivedAt' \in {"no", "shown", "past"}
<1>5. ASSUME NoDestination PROVE Followed
  BY <1>5 DEF NoDestination, KeepParam, Clear, NavValues
<1>6. ASSUME NewDestination(d, fix, near) PROVE Followed
  BY <1>2, <1>6 DEF NewDestination, Arrive, RemoveParam, KeepParam, Plan, Clear, NavValues
<1>7. ASSUME SameDestination(fix, near) /\ UNCHANGED dest PROVE Followed
  BY <1>7 DEF SameDestination, LeaveRoute, Arrive, RemoveParam, KeepParam, Plan, Clear, NavValues
<1>8. Followed
  <2> HIDE DEF Followed
  <2> QED BY <1>1, <1>5, <1>6, <1>7 DEF d, guess, guesses
<1> QED
  BY <1>3, <1>4, <1>8 DEF NavValues

LEMMA NavValuesStep ==
  ASSUME NavValues, [NavNext]_navVars
  PROVE  NavValues'
<1> USE NavigationAssumption DEF Destinations
<1>1. CASE DriverGo \/ DriverStop
  BY <1>1 DEF DriverGo, DriverStop, NavValues, navigator
<1>2. CASE PutLands
  BY <1>2 DEF PutLands, NavValues, navigator
<1>3. CASE NavRead
  BY <1>3 DEF NavRead, NavValues, navigator
<1>4. CASE NavAct
  BY <1>4, NavActValues
<1>5. CASE NavTime
  BY <1>5 DEF NavTime, NavValues
<1>6. CASE NavRestart
  BY <1>6 DEF NavRestart, NavValues
<1>7. CASE UNCHANGED navVars
  BY <1>7 DEF navVars, navigator, NavValues
<1> QED
  BY <1>1, <1>2, <1>3, <1>4, <1>5, <1>6, <1>7 DEF NavNext

\* Type correctness of navigation, whatever the timings.
THEOREM NavTypeCorrect == NavSpec => []NavTypeOK
<1>1. NavInit => NavFlags
  BY DEF NavInit, NavFlags
<1>2. NavInit => NavValues
  BY NavigationAssumption DEF NavInit, NavValues, Destinations
<1>3. NavFlags /\ NavValues => NavTypeOK
  BY DEF NavFlags, NavValues, NavTypeOK
<1> QED
  BY <1>1, <1>2, <1>3, NavFlagsStep, NavValuesStep, PTL DEF NavSpec

-----------------------------------------------------------------------------
\* Uploads

UploadItems == [id: 1..MaxAdds, file: Files, retries: 0..MaxRetryCount]

\* The worker has an item in its hand.
Working(w) == workerPc[w] \in {"taken", "uploading"}

\* A list in which no item is twice, and none that was not added.
ListOK(S) ==
  /\ S \subseteq UploadItems
  /\ \A i \in S : i.id <= added
  /\ \A i, j \in S : i.id = j.id => i = j

\* The queue, the param and the lists on the way to it are such lists; what is in a hand is
\* neither in the queue nor in another hand.
QueueInv == \A S \in {uploadQueue, cachedQueue} \cup cacheWrites : ListOK(S)
HandInv ==
  \A w \in Workers :
    IF Working(w)
    THEN /\ hand[w] \in UploadItems /\ hand[w].id <= added
         /\ \A item \in uploadQueue : item.id # hand[w].id
         /\ \A v \in Workers \ {w} : Working(v) => hand[v].id # hand[w].id
    ELSE hand[w] = NoItem

UploadOnceInv == UploadsTypeOK /\ QueueInv /\ HandInv

LEMMA UploadConstants ==
  /\ MaxRetryCount \in Nat /\ MaxAdds \in Nat /\ MaxUploadChanges \in Nat
  /\ NoItem \notin UploadItems
BY UploadsAssumption DEF UploadItems

LEMMA UploadsInitInv == UploadsInit => UploadOnceInv
<1> SUFFICES ASSUME UploadsInit PROVE UploadOnceInv
  OBVIOUS
<1>1. UploadsTypeOK
  <2>1. /\ hand \in [Workers -> UploadItems \cup {NoItem}]
        /\ workerPc \in [Workers -> {"get", "taken", "uploading", "delay"}]
    BY DEF UploadsInit
  <2>2. uploadQueue = {} /\ cachedQueue = {} /\ cancelledUploads = {} /\ ended = {} /\ cacheWrites = {}
    BY DEF UploadsInit
  <2>3. online \in BOOLEAN /\ metered \in BOOLEAN
    BY DEF UploadsInit
  <2>4. added \in 0..MaxAdds /\ uploadChanges \in 0..MaxUploadChanges
    BY UploadConstants DEF UploadsInit
  <2>5. /\ uploadQueue \subseteq UploadItems /\ cachedQueue \subseteq UploadItems
        /\ \A items \in cacheWrites : items \subseteq UploadItems
        /\ cancelledUploads \subseteq 1..MaxAdds /\ ended \subseteq 1..MaxAdds
    BY <2>2
  <2> QED BY <2>1, <2>3, <2>4, <2>5 DEF UploadsTypeOK, UploadItems
<1>2. QueueInv /\ HandInv
  BY DEF UploadsInit, QueueInv, ListOK, HandInv, Working
<1> QED BY <1>1, <1>2 DEF UploadOnceInv

\* CacheList makes one more list, of items of the queue.
LEMMA CacheListOK ==
  ASSUME NEW S, CacheList(S), ListOK(S)', added' \in Nat, added \in Nat, added' >= added, QueueInv
  PROVE  \A T \in cacheWrites' : ListOK(T)'
<1>1. \A T : ListOK(T) => ListOK(T)'
  BY DEF ListOK, UploadItems
<1>2. \A T \in SUBSET S : ListOK(T)'
  BY DEF ListOK
<1> QED BY <1>1, <1>2 DEF CacheList, QueueInv

\* retry_upload puts back the item of the worker, and no other.
LEMMA RetryPutsBack ==
  ASSUME UploadOnceInv, NEW w \in Workers, Working(w), NEW counts \in {0, 1}, Retry(w, counts),
         hand[w].retries < MaxRetryCount
  PROVE  \E item \in UploadItems :
           /\ item.id = hand[w].id
           /\ uploadQueue' = uploadQueue \cup {item} /\ CacheList(uploadQueue')
           /\ hand' = [hand EXCEPT ![w] = NoItem] /\ workerPc' = [workerPc EXCEPT ![w] = "delay"]
           /\ ended' = ended
<1> DEFINE item == [hand[w] EXCEPT !.retries = @ + counts]
<1>1. hand[w] \in UploadItems
  BY DEF UploadOnceInv, HandInv
<1>2. hand[w].retries + counts \in 0..MaxRetryCount
  BY <1>1, UploadConstants DEF UploadItems
<1>3. item \in UploadItems /\ item.id = hand[w].id
  BY <1>1, <1>2 DEF UploadItems
<1> HIDE DEF item
<1>4. /\ uploadQueue' = uploadQueue \cup {item} /\ CacheList(uploadQueue')
      /\ hand' = [hand EXCEPT ![w] = NoItem] /\ workerPc' = [workerPc EXCEPT ![w] = "delay"]
      /\ ended' = ended
  BY DEF Retry, item
<1> QED BY <1>3, <1>4

\* A hand that is emptied, into the queue or for good, leaves the others as they are.
LEMMA HandEmptied ==
  ASSUME UploadOnceInv, NEW w \in Workers, Working(w), NEW pc \in {"get", "delay"},
         hand' = [hand EXCEPT ![w] = NoItem], workerPc' = [workerPc EXCEPT ![w] = pc],
         added' = added,
         \A item \in uploadQueue' : item \in uploadQueue \/ item.id = hand[w].id
  PROVE  /\ HandInv'
         /\ hand' \in [Workers -> UploadItems \cup {NoItem}]
         /\ workerPc' \in [Workers -> {"get", "taken", "uploading", "delay"}]
<1>1. /\ hand \in [Workers -> UploadItems \cup {NoItem}]
      /\ workerPc \in [Workers -> {"get", "taken", "uploading", "delay"}]
  BY DEF UploadOnceInv, UploadsTypeOK, UploadItems
<1>2. hand'[w] = NoItem /\ ~Working(w)'
  BY <1>1 DEF Working
<1>3. \A v \in Workers \ {w} : hand'[v] = hand[v] /\ (Working(v)' <=> Working(v))
  BY <1>1 DEF Working
<1>4. HandInv'
  BY <1>2, <1>3 DEF UploadOnceInv, HandInv, UploadItems
<1> QED BY <1>1, <1>4

LEMMA RetryKeepsOnce ==
  ASSUME UploadOnceInv, NEW w \in Workers, Working(w), NEW counts \in {0, 1}, Retry(w, counts),
         UNCHANGED <<cachedQueue, online, metered, added, uploadChanges>>, cancelledUploads' \subseteq cancelledUploads
  PROVE  UploadOnceInv'
<1>1. hand[w] \in UploadItems /\ hand[w].id <= added /\ added \in Nat /\ hand[w].id \in 1..MaxAdds
  BY DEF UploadOnceInv, HandInv, UploadsTypeOK, UploadItems
<1>2. CASE hand[w].retries < MaxRetryCount
  <2>1. PICK item \in UploadItems :
          /\ item.id = hand[w].id
          /\ uploadQueue' = uploadQueue \cup {item} /\ CacheList(uploadQueue')
          /\ hand' = [hand EXCEPT ![w] = NoItem] /\ workerPc' = [workerPc EXCEPT ![w] = "delay"]
          /\ ended' = ended
    BY <1>2, RetryPutsBack
  <2>2. /\ HandInv' /\ hand' \in [Workers -> UploadItems \cup {NoItem}]
        /\ workerPc' \in [Workers -> {"get", "taken", "uploading", "delay"}]
    BY <2>1, HandEmptied
  <2>3. \A S : ListOK(S) => ListOK(S)'
    BY DEF ListOK
  <2>4. ListOK(uploadQueue)'
    <3>1. ListOK(uploadQueue) /\ \A i \in uploadQueue : i.id # item.id
      BY <2>1 DEF UploadOnceInv, QueueInv, HandInv
    <3> QED BY <1>1, <2>1, <3>1 DEF ListOK
  <2>5. \A T \in cacheWrites' : ListOK(T)'
    BY <1>1, <2>1, <2>4, CacheListOK DEF UploadOnceInv
  <2>6. QueueInv'
    BY <2>3, <2>4, <2>5 DEF UploadOnceInv, QueueInv
  <2>7. UploadsTypeOK'
    BY <2>1, <2>2, <2>6 DEF UploadOnceInv, UploadsTypeOK, QueueInv, ListOK, UploadItems
  <2> QED BY <2>2, <2>6, <2>7 DEF UploadOnceInv
<1>3. CASE ~(hand[w].retries < MaxRetryCount)
  <2>1. Finish(w) /\ UNCHANGED <<uploadQueue, cacheWrites>>
    BY <1>3 DEF Retry
  <2>2. /\ HandInv' /\ hand' \in [Workers -> UploadItems \cup {NoItem}]
        /\ workerPc' \in [Workers -> {"get", "taken", "uploading", "delay"}]
    BY <2>1, HandEmptied DEF Finish
  <2>3. QueueInv'
    BY <2>1 DEF UploadOnceInv, QueueInv, ListOK
  <2>4. UploadsTypeOK'
    BY <1>1, <2>1, <2>2 DEF UploadOnceInv, UploadsTypeOK, UploadItems, Finish
  <2> QED BY <2>2, <2>3, <2>4 DEF UploadOnceInv
<1> QED BY <1>2, <1>3

\* Calls, the network and the lists that are written.
LEMMA CallsKeepOnce ==
  ASSUME UploadOnceInv,
         CacheLands \/ AddUpload \/ CancelUpload \/ UploadNetwork \/ Reconnect \/ UNCHANGED uploadVars
  PROVE  UploadOnceInv'
<1> USE UploadConstants
<1>0. added \in Nat /\ added <= MaxAdds
  BY DEF UploadOnceInv, UploadsTypeOK
<1>1. CASE CacheLands
  <2>1. UNCHANGED <<uploadQueue, hand, workerPc, added>>
    BY <1>1 DEF CacheLands
  <2>2. QueueInv'
    BY <1>1 DEF CacheLands, UploadOnceInv, QueueInv, ListOK
  <2>3. HandInv'
    BY <2>1 DEF UploadOnceInv, HandInv, Working
  <2>4. UploadsTypeOK'
    BY <1>1 DEF CacheLands, UploadOnceInv, UploadsTypeOK
  <2> QED BY <2>2, <2>3, <2>4 DEF UploadOnceInv
<1>2. CASE AddUpload
  <2>1. PICK file \in Files : uploadQueue' = uploadQueue \cup {[id |-> added + 1, file |-> file, retries |-> 0]}
    BY <1>2 DEF AddUpload
  <2> DEFINE item == [id |-> added + 1, file |-> file, retries |-> 0]
  <2>2. /\ added' = added + 1 /\ added' \in 0..MaxAdds /\ CacheList(uploadQueue')
        /\ UNCHANGED <<hand, workerPc, cancelledUploads, cachedQueue, online, metered, ended, uploadChanges>>
    BY <1>0, <1>2 DEF AddUpload
  <2>3. item \in UploadItems /\ item.id = added + 1
    BY <1>0, <2>2 DEF UploadItems
  <2>4. uploadQueue' = uploadQueue \cup {item}
    BY <2>1
  <2> HIDE DEF item
  <2>5. \A S : ListOK(S) => ListOK(S)' /\ \A i \in S : i.id # added + 1
    BY <1>0, <2>2 DEF ListOK, UploadItems
  <2>6. ListOK(uploadQueue)'
    <3>1. ListOK(uploadQueue)
      BY DEF UploadOnceInv, QueueInv
    <3>2. uploadQueue' \subseteq UploadItems
      BY <2>3, <2>4, <3>1 DEF ListOK
    <3>3. \A i \in uploadQueue : i.id <= added' /\ i.id # item.id
      BY <2>2, <2>3, <2>5, <3>1 DEF ListOK
    <3>4. item.id <= added'
      BY <1>0, <2>2, <2>3
    <3>5. \A i \in uploadQueue' : i.id <= added'
      BY <2>4, <3>3, <3>4
    <3>6. \A i, j \in uploadQueue' : i.id = j.id => i = j
      BY <2>4, <3>1, <3>3 DEF ListOK
    <3> QED BY <3>2, <3>5, <3>6 DEF ListOK
  <2>7. \A T \in cacheWrites' : ListOK(T)'
    BY <1>0, <2>2, <2>6, CacheListOK DEF UploadOnceInv
  <2>8. QueueInv'
    BY <2>2, <2>5, <2>6, <2>7 DEF UploadOnceInv, QueueInv
  <2>9. HandInv'
    <3>1. \A w \in Workers : Working(w)' <=> Working(w)
      BY <2>2 DEF Working
    <3>2. \A w \in Workers : Working(w) => hand[w].id \in Nat /\ hand[w].id <= added
      BY DEF UploadOnceInv, HandInv, UploadItems
    <3>3. \A w \in Workers : Working(w) => hand[w].id # added + 1 /\ hand[w].id <= added'
      BY <1>0, <2>2, <3>2
    <3> QED BY <2>2, <2>3, <2>4, <3>1, <3>3 DEF UploadOnceInv, HandInv
  <2>10. UploadsTypeOK'
    <3>1. \A S \in {uploadQueue', cachedQueue'} \cup cacheWrites' : S \subseteq UploadItems
      BY <2>8 DEF QueueInv, ListOK
    <3> QED BY <2>2, <3>1 DEF UploadOnceInv, UploadsTypeOK, UploadItems
  <2> QED BY <2>8, <2>9, <2>10 DEF UploadOnceInv
<1>3. CASE CancelUpload
  <2>1. UNCHANGED <<uploadQueue, hand, workerPc, added, cachedQueue, cacheWrites>>
    BY <1>3 DEF CancelUpload
  <2>2. QueueInv' /\ HandInv'
    BY <2>1 DEF UploadOnceInv, QueueInv, ListOK, HandInv, Working
  <2>3. PICK item \in uploadQueue :
          cancelledUploads' = cancelledUploads \cup {item.id} /\ ended' = ended \cup {item.id}
    BY <1>3 DEF CancelUpload
  <2>4. item.id \in 1..MaxAdds
    BY DEF UploadOnceInv, QueueInv, ListOK, UploadItems
  <2>5. cancelledUploads' \subseteq 1..MaxAdds /\ ended' \subseteq 1..MaxAdds
    BY <2>3, <2>4 DEF UploadOnceInv, UploadsTypeOK
  <2>6. uploadChanges' \in 0..MaxUploadChanges
    BY <1>3 DEF CancelUpload, UploadChange, UploadOnceInv, UploadsTypeOK
  <2>7. UploadsTypeOK'
    BY <1>3, <2>1, <2>5, <2>6 DEF CancelUpload, UploadOnceInv, UploadsTypeOK
  <2> QED BY <2>2, <2>7 DEF UploadOnceInv
<1>4. CASE UploadNetwork \/ Reconnect \/ UNCHANGED uploadVars
  <2>1. UNCHANGED <<uploadQueue, hand, workerPc, added, cachedQueue, cacheWrites, cancelledUploads, ended>>
    BY <1>4 DEF UploadNetwork, Reconnect, uploadVars
  <2>2. QueueInv' /\ HandInv'
    BY <2>1 DEF UploadOnceInv, QueueInv, ListOK, HandInv, Working
  <2>3. online' \in BOOLEAN /\ metered' \in BOOLEAN
    <3>1. online \in BOOLEAN /\ metered \in BOOLEAN
      BY DEF UploadOnceInv, UploadsTypeOK
    <3>2. CASE UploadNetwork
      BY <3>1, <3>2 DEF UploadNetwork
    <3>3. CASE Reconnect
      BY <3>1, <3>3 DEF Reconnect
    <3> QED BY <1>4, <3>1, <3>2, <3>3 DEF uploadVars
  <2>4. uploadChanges' \in 0..MaxUploadChanges
    BY <1>4 DEF UploadNetwork, Reconnect, uploadVars, UploadChange, UploadOnceInv, UploadsTypeOK
  <2>5. UploadsTypeOK'
    BY <2>1, <2>3, <2>4 DEF UploadOnceInv, UploadsTypeOK
  <2> QED BY <2>2, <2>5 DEF UploadOnceInv
<1> QED BY <1>1, <1>2, <1>3, <1>4

\* Another athenad, with the list of the param and empty hands.
LEMMA RestartKeepsOnce ==
  ASSUME UploadOnceInv, RestartUploads
  PROVE  UploadOnceInv'
<1>1. /\ uploadQueue' = cachedQueue /\ cancelledUploads' = {} /\ cacheWrites' = {} /\ online' = TRUE
      /\ hand' = [w \in Workers |-> NoItem] /\ workerPc' = [w \in Workers |-> "get"]
      /\ UNCHANGED <<cachedQueue, metered, added, ended>> /\ UploadChange
  BY DEF RestartUploads
<1>2. QueueInv'
  BY <1>1 DEF UploadOnceInv, QueueInv, ListOK
<1>3. HandInv'
  BY <1>1 DEF HandInv, Working
<1>4. /\ hand' \in [Workers -> UploadItems \cup {NoItem}]
      /\ workerPc' \in [Workers -> {"get", "taken", "uploading", "delay"}]
  BY <1>1
<1>5. uploadChanges' \in 0..MaxUploadChanges
  BY <1>1, UploadConstants DEF UploadChange, UploadOnceInv, UploadsTypeOK
<1>6. UploadsTypeOK'
  BY <1>1, <1>4, <1>5 DEF UploadOnceInv, UploadsTypeOK, UploadItems
<1> QED BY <1>2, <1>3, <1>6 DEF UploadOnceInv

\* A worker finishes its item, and the queue is cached or not.
LEMMA FinishKeepsOnce ==
  ASSUME UploadOnceInv, NEW w \in Workers, Working(w), Finish(w),
         UNCHANGED <<uploadQueue, cachedQueue, online, metered, added, uploadChanges>>,
         cancelledUploads' \subseteq cancelledUploads,
         CacheList(uploadQueue) \/ UNCHANGED cacheWrites
  PROVE  UploadOnceInv'
<1>1. hand[w] \in UploadItems /\ added \in Nat /\ hand[w].id \in 1..MaxAdds
  BY DEF UploadOnceInv, HandInv, UploadsTypeOK, UploadItems
<1>2. /\ HandInv' /\ hand' \in [Workers -> UploadItems \cup {NoItem}]
      /\ workerPc' \in [Workers -> {"get", "taken", "uploading", "delay"}]
  BY HandEmptied DEF Finish
<1>3. \A S : ListOK(S) => ListOK(S)'
  BY DEF ListOK
<1>4. ListOK(uploadQueue) /\ ListOK(uploadQueue)'
  BY <1>3 DEF UploadOnceInv, QueueInv, ListOK
<1>5. \A T \in cacheWrites' : ListOK(T)'
  <2>1. \A T \in SUBSET uploadQueue : ListOK(T)
    BY <1>4 DEF ListOK
  <2>2. \A T \in cacheWrites' : T \in cacheWrites \/ T \in SUBSET uploadQueue
    BY DEF CacheList
  <2> QED BY <1>3, <2>1, <2>2 DEF UploadOnceInv, QueueInv
<1>6. QueueInv'
  BY <1>3, <1>4, <1>5 DEF UploadOnceInv, QueueInv
<1>7. UploadsTypeOK'
  <2>1. \A S \in {uploadQueue', cachedQueue'} \cup cacheWrites' : S \subseteq UploadItems
    BY <1>6 DEF QueueInv, ListOK
  <2>2. ended' \subseteq 1..MaxAdds
    BY <1>1 DEF Finish, UploadOnceInv, UploadsTypeOK
  <2> QED BY <1>2, <2>1, <2>2 DEF UploadOnceInv, UploadsTypeOK, UploadItems
<1> QED BY <1>2, <1>6, <1>7 DEF UploadOnceInv

LEMMA WorkerKeepsOnce ==
  ASSUME UploadOnceInv, NEW w \in Workers, UploadWorker(w)
  PROVE  UploadOnceInv'
<1> USE UploadConstants
<1>0. /\ hand \in [Workers -> UploadItems \cup {NoItem}]
      /\ workerPc \in [Workers -> {"get", "taken", "uploading", "delay"}]
  BY DEF UploadOnceInv, UploadsTypeOK, UploadItems
<1>1. CASE TakeUpload(w)
  <2>1. PICK item \in uploadQueue :
          hand' = [hand EXCEPT ![w] = item] /\ uploadQueue' = uploadQueue \ {item}
    BY <1>1 DEF TakeUpload
  <2>2. /\ workerPc[w] = "get" /\ workerPc' = [workerPc EXCEPT ![w] = "taken"]
        /\ UNCHANGED <<cancelledUploads, cachedQueue, cacheWrites, online, metered, added, ended, uploadChanges>>
    BY <1>1 DEF TakeUpload
  <2>3. ListOK(uploadQueue) /\ item \in UploadItems /\ item.id <= added
    BY DEF UploadOnceInv, QueueInv, ListOK
  <2>4. /\ ~Working(w) /\ Working(w)' /\ hand'[w] = item
        /\ \A v \in Workers \ {w} : hand'[v] = hand[v] /\ (Working(v)' <=> Working(v))
    BY <1>0, <2>1, <2>2 DEF Working
  <2>5. \A i \in uploadQueue' : i \in uploadQueue /\ i.id # item.id
    BY <2>1, <2>3 DEF ListOK
  <2>6. HandInv'
    <3>1. \A v \in Workers \ {w} : Working(v) => hand[v].id # item.id
      BY DEF UploadOnceInv, HandInv
    <3> QED BY <2>2, <2>3, <2>4, <2>5, <3>1 DEF UploadOnceInv, HandInv
  <2>7. QueueInv'
    BY <2>1, <2>2 DEF UploadOnceInv, QueueInv, ListOK
  <2>8. UploadsTypeOK'
    <3>1. /\ hand' \in [Workers -> UploadItems \cup {NoItem}]
          /\ workerPc' \in [Workers -> {"get", "taken", "uploading", "delay"}]
      BY <1>0, <2>1, <2>2, <2>3
    <3>2. uploadQueue' \subseteq UploadItems
      BY <2>1, <2>3 DEF ListOK
    <3> QED BY <2>2, <3>1, <3>2 DEF UploadOnceInv, UploadsTypeOK, UploadItems
  <2> QED BY <2>6, <2>7, <2>8 DEF UploadOnceInv
<1>2. CASE CheckUpload(w)
  <2>1. /\ Working(w) /\ UNCHANGED <<cachedQueue, online, metered, added, uploadChanges>>
        /\ cancelledUploads' \subseteq cancelledUploads
    BY <1>2 DEF CheckUpload, Working
  <2>2. \/ Finish(w) /\ UNCHANGED <<uploadQueue, cacheWrites>>
        \/ Retry(w, 0)
        \/ /\ workerPc' = [workerPc EXCEPT ![w] = "uploading"]
           /\ UNCHANGED <<uploadQueue, hand, cancelledUploads, cacheWrites, ended>>
    BY <1>2 DEF CheckUpload
  <2>3. CASE /\ workerPc' = [workerPc EXCEPT ![w] = "uploading"]
             /\ UNCHANGED <<uploadQueue, hand, cancelledUploads, cacheWrites, ended>>
    <3>1. \A v \in Workers : Working(v)' <=> Working(v)
      BY <1>0, <2>1, <2>3 DEF Working
    <3>2. QueueInv' /\ HandInv'
      BY <2>1, <2>3, <3>1 DEF UploadOnceInv, QueueInv, ListOK, HandInv
    <3>3. workerPc' \in [Workers -> {"get", "taken", "uploading", "delay"}]
      BY <1>0, <2>3
    <3>4. UploadsTypeOK'
      BY <2>1, <2>3, <3>3 DEF UploadOnceInv, UploadsTypeOK
    <3> QED BY <3>2, <3>4 DEF UploadOnceInv
  <2> QED BY <2>1, <2>2, <2>3, FinishKeepsOnce, RetryKeepsOnce
<1>3. CASE EndUpload(w)
  <2>1. /\ Working(w)
        /\ UNCHANGED <<cancelledUploads, cachedQueue, online, metered, added, uploadChanges>>
    BY <1>3 DEF EndUpload, Working
  <2>2. \/ /\ Finish(w) /\ UNCHANGED uploadQueue
           /\ CacheList(uploadQueue) \/ UNCHANGED cacheWrites
        \/ Retry(w, 0) \/ Retry(w, 1)
    BY <1>3 DEF EndUpload
  <2> QED BY <2>1, <2>2, FinishKeepsOnce, RetryKeepsOnce
<1>4. CASE UploadDelay(w)
  <2>1. /\ workerPc[w] = "delay" /\ workerPc' = [workerPc EXCEPT ![w] = "get"]
        /\ UNCHANGED <<uploadQueue, hand, cancelledUploads, cachedQueue, cacheWrites, online, metered,
                       added, ended, uploadChanges>>
    BY <1>4 DEF UploadDelay
  <2>2. \A v \in Workers : Working(v)' <=> Working(v)
    BY <1>0, <2>1 DEF Working
  <2>3. QueueInv' /\ HandInv'
    BY <2>1, <2>2 DEF UploadOnceInv, QueueInv, ListOK, HandInv
  <2>4. workerPc' \in [Workers -> {"get", "taken", "uploading", "delay"}]
    BY <1>0, <2>1
  <2>5. UploadsTypeOK'
    BY <2>1, <2>4 DEF UploadOnceInv, UploadsTypeOK
  <2> QED BY <2>3, <2>5 DEF UploadOnceInv
<1> QED BY <1>1, <1>2, <1>3, <1>4 DEF UploadWorker

LEMMA UploadOnceInductive == UploadOnceInv /\ [UploadsNext]_uploadVars => UploadOnceInv'
BY CallsKeepOnce, RestartKeepsOnce, WorkerKeepsOnce DEF UploadsNext

\* The values each variable takes (athenad's queue, its workers and the param).
THEOREM UploadsTypes == UploadsSpec => []UploadsTypeOK
<1>1. UploadOnceInv => UploadsTypeOK
  BY DEF UploadOnceInv
<1> QED BY <1>1, UploadsInitInv, UploadOnceInductive, PTL DEF UploadsSpec

\* Two workers never work on the same item, nor does it wait in the queue while one does:
\* whatever is cancelled, put back, cached late or read again by another athenad
\* (upload_handler, retry_upload, UploadQueueCache).
InOnePlace ==
  \A v, w \in Workers : Working(v) /\ Working(w) =>
    /\ \A item \in uploadQueue : item.id # hand[v].id
    /\ hand[v].id = hand[w].id => v = w

\* It follows from what the workers have in hand (HandInv), for any workers and items.
THEOREM UploadedInOnePlace == UploadsSpec => []InOnePlace
<1>1. UploadOnceInv => InOnePlace
  BY DEF UploadOnceInv, HandInv, InOnePlace
<1> QED BY <1>1, UploadsInitInv, UploadOnceInductive, PTL DEF UploadsSpec

\* Where an item may be that has not ended: with a worker, or both in the queue and in what the
\* param is or is about to be.
HeldBy(id) == \E w \in Workers : Working(w) /\ hand[w].id = id
In(id, S) == \E item \in S : item.id = id
LatestLists == IF cacheWrites = {} THEN {cachedQueue} ELSE cacheWrites
Safe(id) ==
  id \in ended \/ HeldBy(id) \/ (In(id, uploadQueue) /\ \A S \in LatestLists : In(id, S))

\* With one list at a time on the way to the param.
UploadKeptInv ==
  /\ \A S, T \in cacheWrites : S = T
  /\ cancelledUploads \subseteq ended
  /\ \A id \in 1..added : Safe(id)

LEMMA UploadsInitKept == UploadsInit => UploadKeptInv
BY DEF UploadsInit, UploadKeptInv

\* CacheList, when no other list is on the way: what waits and has not ended is in it.
LEMMA OneList ==
  ASSUME UploadHappens = {}, UploadKeptInv, NEW S, CacheList(S)
  PROVE  /\ cacheWrites' = {{item \in S : item.id \notin cancelledUploads}}
         /\ \A id : In(id, S) => id \in ended \/ \A T \in cacheWrites' : In(id, T)
<1>1. cacheWrites' = {{item \in S : item.id \notin cancelledUploads}}
  BY DEF CacheList
<1> QED BY <1>1 DEF UploadKeptInv, In

\* A worker gives its item up, or puts it back, and caches the queue or not.
LEMMA HandEmptiedKept ==
  ASSUME UploadHappens = {}, UploadOnceInv, UploadKeptInv, NEW w \in Workers, Working(w),
         NEW pc \in {"get", "delay"},
         hand' = [hand EXCEPT ![w] = NoItem], workerPc' = [workerPc EXCEPT ![w] = pc],
         UNCHANGED <<cachedQueue, added>>, uploadQueue \subseteq uploadQueue',
         cancelledUploads' \subseteq cancelledUploads, ended \subseteq ended',
         CacheList(uploadQueue') \/ UNCHANGED <<cacheWrites, uploadQueue>>,
         hand[w].id \in ended' \/ (In(hand[w].id, uploadQueue') /\ CacheList(uploadQueue'))
  PROVE  UploadKeptInv'
<1>1. \A v \in Workers \ {w} : hand'[v] = hand[v] /\ (Working(v)' <=> Working(v))
  BY DEF UploadOnceInv, UploadsTypeOK, Working
<1>2. CacheList(uploadQueue') =>
        /\ \A S, T \in cacheWrites' : S = T
        /\ cacheWrites' # {}
        /\ \A id : In(id, uploadQueue') => id \in ended \/ \A T \in cacheWrites' : In(id, T)
  BY OneList
<1>3. ASSUME NEW id \in 1..added PROVE Safe(id)'
  <2>1. CASE id \in ended
    BY <2>1 DEF Safe
  <2>2. CASE \E v \in Workers \ {w} : Working(v) /\ hand[v].id = id
    BY <1>1, <2>2 DEF Safe, HeldBy
  <2>3. CASE id = hand[w].id
    BY <1>2, <2>3 DEF Safe, LatestLists, In
  <2>4. CASE In(id, uploadQueue) /\ \A S \in LatestLists : In(id, S)
    <3>1. In(id, uploadQueue')
      BY <2>4 DEF In
    <3>2. CASE CacheList(uploadQueue')
      BY <1>2, <3>1, <3>2 DEF Safe, LatestLists, In
    <3>3. CASE UNCHANGED <<cacheWrites, uploadQueue>>
      BY <2>4, <3>1, <3>3 DEF Safe, LatestLists, In
    <3> QED BY <3>2, <3>3
  <2> QED BY <2>1, <2>2, <2>3, <2>4 DEF UploadKeptInv, Safe, HeldBy
<1>4. \A S, T \in cacheWrites' : S = T
  BY <1>2 DEF UploadKeptInv
<1>5. cancelledUploads' \subseteq ended'
  BY DEF UploadKeptInv
<1> QED BY <1>3, <1>4, <1>5 DEF UploadKeptInv

LEMMA RetryKeepsKept ==
  ASSUME UploadHappens = {}, UploadOnceInv, UploadKeptInv, NEW w \in Workers, Working(w),
         NEW counts \in {0, 1}, Retry(w, counts),
         UNCHANGED <<cachedQueue, added>>, cancelledUploads' \subseteq cancelledUploads
  PROVE  UploadKeptInv'
<1>1. CASE hand[w].retries < MaxRetryCount
  <2>1. PICK item \in UploadItems :
          /\ item.id = hand[w].id
          /\ uploadQueue' = uploadQueue \cup {item} /\ CacheList(uploadQueue')
          /\ hand' = [hand EXCEPT ![w] = NoItem] /\ workerPc' = [workerPc EXCEPT ![w] = "delay"]
          /\ ended' = ended
    BY <1>1, RetryPutsBack
  <2>2. In(hand[w].id, uploadQueue') /\ uploadQueue \subseteq uploadQueue'
    BY <2>1 DEF In
  <2> QED BY <2>1, <2>2, HandEmptiedKept
<1>2. CASE ~(hand[w].retries < MaxRetryCount)
  BY <1>2, HandEmptiedKept DEF Retry, Finish
<1> QED BY <1>1, <1>2

LEMMA WorkerKeepsKept ==
  ASSUME UploadHappens = {}, UploadOnceInv, UploadKeptInv, NEW w \in Workers, UploadWorker(w)
  PROVE  UploadKeptInv'
<1>0. /\ hand \in [Workers -> UploadItems \cup {NoItem}]
      /\ workerPc \in [Workers -> {"get", "taken", "uploading", "delay"}]
  BY DEF UploadOnceInv, UploadsTypeOK, UploadItems
<1>1. CASE TakeUpload(w)
  <2>1. PICK item \in uploadQueue :
          hand' = [hand EXCEPT ![w] = item] /\ uploadQueue' = uploadQueue \ {item}
    BY <1>1 DEF TakeUpload
  <2>2. /\ workerPc[w] = "get" /\ workerPc' = [workerPc EXCEPT ![w] = "taken"]
        /\ UNCHANGED <<cancelledUploads, cachedQueue, cacheWrites, added, ended>>
    BY <1>1 DEF TakeUpload
  <2>3. /\ ~Working(w) /\ Working(w)' /\ hand'[w] = item
        /\ \A v \in Workers \ {w} : hand'[v] = hand[v] /\ (Working(v)' <=> Working(v))
    BY <1>0, <2>1, <2>2 DEF Working
  <2>4. ASSUME NEW id \in 1..added PROVE Safe(id)'
    <3>1. CASE id = item.id
      BY <2>3, <3>1 DEF Safe, HeldBy
    <3>2. CASE id # item.id /\ In(id, uploadQueue)
      <4>1. In(id, uploadQueue')
        BY <2>1, <3>2 DEF In
      <4>2. HeldBy(id) => HeldBy(id)'
        BY <2>3 DEF HeldBy
      <4> QED BY <2>2, <4>1, <4>2 DEF UploadKeptInv, Safe, LatestLists, In
    <3>3. CASE ~In(id, uploadQueue)
      <4>1. HeldBy(id) => HeldBy(id)'
        BY <2>3 DEF HeldBy
      <4> QED BY <2>2, <3>3, <4>1 DEF UploadKeptInv, Safe
    <3> QED BY <3>1, <3>2, <3>3
  <2> QED BY <2>2, <2>4 DEF UploadKeptInv
<1>2. CASE CheckUpload(w)
  <2>1. /\ Working(w) /\ UNCHANGED <<cachedQueue, added>> /\ cancelledUploads' \subseteq cancelledUploads
    BY <1>2 DEF CheckUpload, Working
  <2>2. \/ Finish(w) /\ UNCHANGED <<uploadQueue, cacheWrites>>
        \/ Retry(w, 0)
        \/ /\ workerPc' = [workerPc EXCEPT ![w] = "uploading"]
           /\ UNCHANGED <<uploadQueue, hand, cancelledUploads, cacheWrites, ended>>
    BY <1>2 DEF CheckUpload
  <2>3. CASE /\ workerPc' = [workerPc EXCEPT ![w] = "uploading"]
             /\ UNCHANGED <<uploadQueue, hand, cancelledUploads, cacheWrites, ended>>
    <3>1. \A v \in Workers : Working(v)' <=> Working(v)
      BY <1>0, <2>1, <2>3 DEF Working
    <3> QED BY <2>1, <2>3, <3>1 DEF UploadKeptInv, Safe, HeldBy, LatestLists, In
  <2>4. CASE Finish(w) /\ UNCHANGED <<uploadQueue, cacheWrites>>
    BY <2>1, <2>4, HandEmptiedKept DEF Finish
  <2> QED BY <2>1, <2>2, <2>3, <2>4, RetryKeepsKept
<1>3. CASE EndUpload(w)
  <2>1. Working(w) /\ UNCHANGED <<cancelledUploads, cachedQueue, added>>
    BY <1>3 DEF EndUpload, Working
  <2>2. \/ Finish(w) /\ UNCHANGED uploadQueue /\ (CacheList(uploadQueue') \/ UNCHANGED cacheWrites)
        \/ Retry(w, 0) \/ Retry(w, 1)
    BY <1>3 DEF EndUpload
  <2>3. CASE Finish(w) /\ UNCHANGED uploadQueue /\ (CacheList(uploadQueue') \/ UNCHANGED cacheWrites)
    BY <2>1, <2>3, HandEmptiedKept DEF Finish
  <2> QED BY <2>1, <2>2, <2>3, RetryKeepsKept
<1>4. CASE UploadDelay(w)
  <2>1. /\ workerPc[w] = "delay" /\ workerPc' = [workerPc EXCEPT ![w] = "get"]
        /\ UNCHANGED <<uploadQueue, hand, cancelledUploads, cachedQueue, cacheWrites, added, ended>>
    BY <1>4 DEF UploadDelay
  <2>2. \A v \in Workers : Working(v)' <=> Working(v)
    BY <1>0, <2>1 DEF Working
  <2> QED BY <2>1, <2>2 DEF UploadKeptInv, Safe, HeldBy, LatestLists, In
<1> QED BY <1>1, <1>2, <1>3, <1>4 DEF UploadWorker

LEMMA OthersKeepKept ==
  ASSUME UploadHappens = {}, UploadOnceInv, UploadKeptInv,
         \/ CacheLands \/ AddUpload \/ CancelUpload \/ UploadNetwork \/ Reconnect \/ RestartUploads
         \/ UNCHANGED uploadVars
  PROVE  UploadKeptInv'
<1>1. CASE CacheLands
  <2>1. PICK items \in cacheWrites : cachedQueue' = items /\ cacheWrites' = cacheWrites \ {items}
    BY <1>1 DEF CacheLands
  <2>2. cacheWrites' = {} /\ LatestLists' = LatestLists
    BY <2>1 DEF UploadKeptInv, LatestLists
  <2> QED BY <1>1, <2>2 DEF CacheLands, UploadKeptInv, Safe, HeldBy, Working, In
<1>2. CASE AddUpload
  <2>1. PICK file \in Files : uploadQueue' = uploadQueue \cup {[id |-> added + 1, file |-> file, retries |-> 0]}
    BY <1>2 DEF AddUpload
  <2>2. /\ added' = added + 1 /\ added \in Nat /\ CacheList(uploadQueue')
        /\ UNCHANGED <<hand, workerPc, cancelledUploads, cachedQueue, ended>>
    BY <1>2 DEF AddUpload, UploadOnceInv, UploadsTypeOK
  <2>3. /\ \A S, T \in cacheWrites' : S = T
        /\ cacheWrites' # {}
        /\ \A id : In(id, uploadQueue') => id \in ended \/ \A T \in cacheWrites' : In(id, T)
    BY <2>2, OneList
  <2>4. In(added + 1, uploadQueue') /\ \A id : In(id, uploadQueue) => In(id, uploadQueue')
    <3> DEFINE item == [id |-> added + 1, file |-> file, retries |-> 0]
    <3>1. uploadQueue' = uploadQueue \cup {item} /\ item.id = added + 1
      BY <2>1
    <3> HIDE DEF item
    <3> QED BY <3>1 DEF In
  <2>5. ASSUME NEW id \in 1..(added + 1) PROVE Safe(id)'
    <3>1. CASE In(id, uploadQueue')
      BY <2>2, <2>3, <3>1 DEF Safe, LatestLists, In
    <3>2. CASE ~In(id, uploadQueue')
      <4>1. id \in 1..added /\ ~In(id, uploadQueue)
        BY <2>2, <2>4, <3>2
      <4> QED BY <2>2, <4>1 DEF UploadKeptInv, Safe, HeldBy, Working
    <3> QED BY <3>1, <3>2
  <2> QED BY <2>2, <2>3, <2>5 DEF UploadKeptInv
<1>3. CASE CancelUpload \/ UploadNetwork \/ Reconnect \/ UNCHANGED uploadVars
  <2>1. UNCHANGED <<uploadQueue, hand, workerPc, cachedQueue, cacheWrites, added>> /\ ended \subseteq ended'
    BY <1>3 DEF CancelUpload, UploadNetwork, Reconnect, uploadVars
  <2>2. cancelledUploads' \subseteq ended'
    BY <1>3 DEF CancelUpload, UploadNetwork, Reconnect, uploadVars, UploadKeptInv
  <2> QED BY <2>1, <2>2 DEF UploadKeptInv, Safe, HeldBy, Working, LatestLists, In
<1>4. CASE RestartUploads
  <2>1. /\ cacheWrites = {} /\ \A w \in Workers : hand[w] = NoItem
        /\ uploadQueue' = cachedQueue /\ cancelledUploads' = {} /\ cacheWrites' = {}
        /\ UNCHANGED <<cachedQueue, added, ended>>
    BY <1>4 DEF RestartUploads
  <2>2. \A w \in Workers : ~Working(w)
    BY <2>1, UploadConstants DEF UploadOnceInv, HandInv
  <2>3. \A id : ~HeldBy(id)
    BY <2>2 DEF HeldBy
  <2> QED BY <2>1, <2>3 DEF UploadKeptInv, Safe, LatestLists, In
<1> QED BY <1>1, <1>2, <1>3, <1>4

LEMMA UploadKeptInductive ==
  ASSUME UploadHappens = {}
  PROVE  UploadOnceInv /\ UploadKeptInv /\ [UploadsNext]_uploadVars => UploadKeptInv'
BY OthersKeepKept, WorkerKeepsKept DEF UploadsNext

\* The safety half of UploadsEnd: an accepted file is never lost.  It has ended, waits in the
\* queue or is with a worker, through reconnects, metered networks, retries and another athenad,
\* as long as no athenad dies with an item in its hand and no two threads write the param at once.
NothingLost == \A id \in 1..added : id \in ended \/ HeldBy(id) \/ In(id, uploadQueue)

\* Proved from what the lists on their way to the param hold (UploadKeptInv).
THEOREM UploadsNotLost ==
  ASSUME UploadHappens = {}
  PROVE  UploadsSpec => []NothingLost
<1>1. UploadKeptInv => NothingLost
  BY DEF UploadKeptInv, Safe, NothingLost
<1> QED
  BY <1>1, UploadsInitInv, UploadOnceInductive, UploadsInitKept, UploadKeptInductive, PTL
  DEF UploadsSpec

-----------------------------------------------------------------------------
\* The modem

\* Only a modem that an initialization identified a SIM in, and gave the APN it had read, is
\* past that initialization; and between the identity and the APN nothing changes.
ConfiguredInv ==
  /\ modemPc = "configure" => modemState = "INITIALIZING" /\ AtWorks /\ iccid \in Sims
  /\ modemState \in {"SEARCHING", "CONNECTING", "CONNECTED"} => contextApn = apn /\ iccid \in Sims

\* A pppd that dials or is up was dialled past an initialization.
SessionInv ==
  pppd \in {"dialing", "up"} =>
    modemState \in {"CONNECTED", "DISCONNECTING"} /\ contextApn = apn /\ iccid \in Sims

ModemInv == NoSim \notin Sims /\ iccid \in Sims \cup {NoSim} /\ sim \in Sims \cup {NoSim} /\ ConfiguredInv /\ SessionInv

LEMMA ModemInitInv == ModemInit => ModemInv
BY ModemAssumption DEF ModemInit, ModemInv, ConfiguredInv, SessionInv

\* What surrounds the modem, and an exception, when nothing grabs it between two commands.
LEMMA OutsideKeepsModem ==
  ASSUME "grab" \notin ModemHappens, ModemInv,
         Surroundings \/ Network \/ Dialled \/ ModemError \/ UNCHANGED modemVars
  PROVE  ModemInv'
<1> USE DEF ModemInv, ConfiguredInv, SessionInv, AtWorks, deviceVars, sessionVars, loopVars
<1>1. CASE Surroundings
  <2>1. UNCHANGED <<contextApn, modemState, modemPc, iccid, apn>> /\ sim' \in Sims \cup {NoSim}
    BY <1>1 DEF Surroundings
  <2>2. modemPc = "configure" => UNCHANGED <<port, lpaHolds>>
    BY <1>1 DEF Surroundings, MayInterrupt
  <2>3. pppd' = pppd \/ pppd' = "exited"
    BY <1>1 DEF Surroundings
  <2> QED BY <2>1, <2>2, <2>3
<1>2. CASE Network
  BY <1>2 DEF Network
<1>3. CASE Dialled
  BY <1>3 DEF Dialled
<1>4. CASE ModemError
  BY <1>4 DEF ModemError, Goto
<1>5. CASE UNCHANGED modemVars
  BY <1>5 DEF modemVars
<1> QED BY <1>1, <1>2, <1>3, <1>4, <1>5

LEMMA LoopKeepsModem ==
  ASSUME ModemInv, ModemLoop
  PROVE  ModemInv'
<1> USE DEF ModemInv, ConfiguredInv, SessionInv, AtWorks, deviceVars, sessionVars, loopVars, Goto
<1>1. CASE ModemCheck
  BY <1>1 DEF ModemCheck
<1>2. CASE ModemConfigure
  BY <1>2 DEF ModemConfigure
<1>3. CASE ModemHandle /\ modemState = "INITIALIZING" /\ Initializing
  BY <1>3 DEF ModemHandle, Initializing
<1>4. CASE ModemHandle /\ modemState = "SEARCHING" /\ Searching
  BY <1>4 DEF ModemHandle, Searching
<1>5. CASE ModemHandle /\ modemState = "CONNECTING" /\ Connecting
  BY <1>5 DEF ModemHandle, Connecting
<1>6. CASE ModemHandle /\ modemState = "CONNECTED" /\ Connected
  BY <1>6 DEF ModemHandle, Connected, PppdExit
<1>7. CASE ModemHandle /\ modemState = "DISCONNECTING" /\ Disconnecting
  BY <1>7 DEF ModemHandle, Disconnecting
<1> QED BY <1>1, <1>2, <1>3, <1>4, <1>5, <1>6, <1>7 DEF ModemLoop, ModemHandle

\* A session is dialled, and stays up, only over the data context of the APN that was read and
\* for a SIM that was identified when the modem was initialized last (modem.py): whatever SIM is
\* swapped, port lost, or handler interrupted by an exception, and whatever the settings say
\* meanwhile.
DialledAsRead == pppd \in {"dialing", "up"} => contextApn = apn /\ iccid \in Sims

\* It needs that no other tool grabs the AT port between two commands of an initialization.
THEOREM SessionsAreDialledAsRead ==
  ASSUME "grab" \notin ModemHappens
  PROVE  ModemSpec => []DialledAsRead
<1>1. ModemInv => DialledAsRead
  BY DEF ModemInv, SessionInv, DialledAsRead
<1>2. ModemInv /\ [ModemNext]_modemVars => ModemInv'
  BY OutsideKeepsModem, LoopKeepsModem DEF ModemNext
<1> QED BY <1>1, <1>2, ModemInitInv, PTL DEF ModemSpec

\* ModemTypeOK: the flags, and the other values; pppd is dialled again while it has not failed
\* too often.
ModemFlags ==
  /\ port \in BOOLEAN /\ lpaHolds \in BOOLEAN /\ attached \in BOOLEAN /\ gsmRoaming \in BOOLEAN
  /\ routed \in BOOLEAN /\ simChange \in BOOLEAN /\ roamingAllowed \in BOOLEAN

ModemValues ==
  /\ sim \in Sims \cup {NoSim} /\ iccid \in Sims \cup {NoSim} /\ registration \in {"none", "home", "roaming"}
  /\ gsmApn \in Apns /\ contextApn \in Apns /\ apn \in Apns /\ pppd \in {"none", "dialing", "up", "exited"}
  /\ modemState \in {"INITIALIZING", "SEARCHING", "CONNECTING", "CONNECTED", "DISCONNECTING"}
  /\ modemPc \in {"check", "handle", "configure"} /\ fails \in 0..MaxFails
  /\ modemChanges \in 0..MaxModemChanges
  /\ modemState = "CONNECTED" => fails < MaxFails

LEMMA ModemFlagsStep ==
  ASSUME ModemFlags, [ModemNext]_modemVars
  PROVE  ModemFlags'
<1> USE DEF ModemFlags, deviceVars, sessionVars, loopVars
<1>1. CASE Surroundings \/ Network \/ Dialled
  BY <1>1 DEF Surroundings, Network, Dialled
<1>2. CASE ModemCheck \/ ModemConfigure \/ ModemError
  BY <1>2 DEF ModemCheck, ModemConfigure, ModemError
<1>3. CASE ModemHandle /\ Initializing
  BY <1>3 DEF ModemHandle, Initializing, MayRoam
<1>4. CASE ModemHandle /\ Searching
  BY <1>4 DEF ModemHandle, Searching, MayRoam
<1>5. CASE ModemHandle /\ (Connecting \/ Connected \/ Disconnecting)
  BY <1>5 DEF ModemHandle, Connecting, Connected, PppdExit, Disconnecting
<1>6. CASE UNCHANGED modemVars
  BY <1>6 DEF modemVars
<1> QED
  BY <1>1, <1>2, <1>3, <1>4, <1>5, <1>6 DEF ModemNext, ModemLoop, ModemHandle

LEMMA ModemHandleValues ==
  ASSUME ModemValues, ModemHandle
  PROVE  ModemValues'
<1> USE ModemAssumption DEF ModemValues, Goto
<1>1. UNCHANGED <<deviceVars, modemChanges>>
  BY DEF ModemHandle
<1> USE <1>1 DEF deviceVars
<1>2. CASE Initializing
  BY <1>2 DEF Initializing
<1>3. CASE Searching
  BY <1>3 DEF Searching, sessionVars
<1>4. CASE Connecting
  BY <1>4 DEF Connecting
<1>5. CASE modemState = "CONNECTED" /\ Connected
  BY <1>5 DEF Connected, PppdExit
<1>6. CASE Disconnecting
  BY <1>6 DEF Disconnecting
<1> QED
  BY <1>2, <1>3, <1>4, <1>5, <1>6 DEF ModemHandle

LEMMA ModemValuesStep ==
  ASSUME ModemValues, [ModemNext]_modemVars
  PROVE  ModemValues'
<1> USE ModemAssumption DEF ModemValues, Goto, deviceVars, sessionVars, loopVars
<1>1. CASE Surroundings
  BY <1>1 DEF Surroundings
<1>2. CASE Network
  BY <1>2 DEF Network
<1>3. CASE Dialled
  BY <1>3 DEF Dialled
<1>4. CASE ModemCheck \/ ModemConfigure \/ ModemError
  BY <1>4 DEF ModemCheck, ModemConfigure, ModemError
<1>5. CASE ModemHandle
  BY <1>5, ModemHandleValues
<1>6. CASE UNCHANGED modemVars
  BY <1>6 DEF modemVars
<1> QED
  BY <1>1, <1>2, <1>3, <1>4, <1>5, <1>6 DEF ModemNext, ModemLoop

\* Type correctness of the modem, whatever the timings: among it, that pppd has not failed more
\* than MAX_FAILS times in a row (_handle_pppd_exit).
THEOREM ModemTypeCorrect == ModemSpec => []ModemTypeOK
<1>1. ModemInit => ModemFlags
  BY DEF ModemInit, ModemFlags
<1>2. ModemInit => ModemValues
  BY ModemAssumption DEF ModemInit, ModemValues
<1>3. ModemFlags /\ ModemValues => ModemTypeOK
  BY DEF ModemFlags, ModemValues, ModemTypeOK
<1> QED
  BY <1>1, <1>2, <1>3, ModemFlagsStep, ModemValuesStep, PTL DEF ModemSpec

-----------------------------------------------------------------------------
\* Settings with two writers

\* The last of what each writer still has to write may stand, and so may the value, once nothing
\* waits to be written.
Settles(s) ==
  /\ \A w \in Writers : s.puts[w] # <<>> => Last(s.puts[w]) \in s.chosen
  /\ (\A w \in Writers : s.puts[w] = <<>>) => s.value \in s.chosen

\* The safety half of LastChoiceStands, whatever the screen and the processes write at once: with
\* nothing left to write a param holds the choice made last, by the driver on the screen, the
\* button or the road, or one that another writer still had to write when that was made.
LastChoiceLands == Settles(experimentalMode) /\ Settles(personality)

TogglesValues ==
  /\ experimentalCopy \in Modes /\ wheelMode \in Modes /\ personalityCopy \in Personalities
  /\ road \in {"local", "freeway", "unknown"} /\ lastApplied \in Modes \cup {"none"}
  /\ changes \in 0..MaxChanges

SettingRight(s, V) == SettingOK(s, V) /\ Settles(s)

TogglesInv ==
  /\ SettingRight(experimentalMode, Modes) /\ SettingRight(personality, Personalities)
  /\ TogglesValues /\ autoExperimental \in BOOLEAN

LEMMA SettingStarts ==
  ASSUME NEW V, NEW v \in V
  PROVE  SettingRight(Setting(v), V)
BY DEF SettingRight, SettingOK, Settles, Setting

\* What is appended is last, and a head that goes leaves the last as it is.
LEMMA AppendIsLast ==
  ASSUME NEW V, NEW q \in Seq(V), NEW v \in V
  PROVE  Append(q, v) \in Seq(V) /\ Append(q, v) # <<>> /\ Last(Append(q, v)) = v
BY DEF Last

LEMMA TailEmpty ==
  ASSUME NEW V, NEW q \in Seq(V), Tail(q) = <<>>, Len(Tail(q)) = Len(q) - 1
  PROVE  Len(q) = 1
<1>1. Len(<<>>) = 0 /\ Len(q) \in Nat
  OBVIOUS
<1>2. Len(Tail(q)) = 0
  BY <1>1
<1> QED BY <1>1, <1>2

LEMMA TailKeepsLast ==
  ASSUME NEW V, NEW q \in Seq(V), q # <<>>
  PROVE  /\ Head(q) \in V /\ Tail(q) \in Seq(V) /\ Last(q) \in V
         /\ IF Tail(q) = <<>> THEN Head(q) = Last(q) ELSE Last(Tail(q)) = Last(q)
<1>1. Head(q) \in V /\ Tail(q) \in Seq(V) /\ Last(q) \in V
  BY DEF Last
<1>2. Len(Tail(q)) = Len(q) - 1
  OBVIOUS
<1>3. CASE Tail(q) = <<>>
  <2>1. Len(q) = 1
    BY <1>2, <1>3, TailEmpty
  <2> QED BY <1>1, <1>3, <2>1 DEF Last
<1>4. CASE Tail(q) # <<>>
  <2>1. Len(Tail(q)) > 0
    BY <1>1, <1>4
  <2>2. Tail(q)[Len(Tail(q))] = q[Len(q)]
    BY <1>1, <1>2, <2>1
  <2> QED BY <1>1, <1>4, <2>2 DEF Last
<1> QED BY <1>1, <1>3, <1>4

\* Each of the three operations on a setting keeps it right.
LEMMA PutRight ==
  ASSUME NEW V, NEW s, SettingRight(s, V), NEW v \in V, NEW w \in Writers
  PROVE  SettingRight(Put(s, w, v), V)
<1> DEFINE puts == [s.puts EXCEPT ![w] = Append(@, v)]
<1>1. s.puts \in [Writers -> Seq(V)]
  BY DEF SettingRight, SettingOK
<1>2. puts \in [Writers -> Seq(V)] /\ puts[w] # <<>> /\ Last(puts[w]) = v
  BY <1>1, AppendIsLast
<1>3. \A u \in Writers : puts[u] # <<>> => Last(puts[u]) \in V
  BY <1>2, TailKeepsLast
<1> HIDE DEF puts
<1>4. Chosen(puts, v) \subseteq V /\ \A u \in Writers : puts[u] # <<>> => Last(puts[u]) \in Chosen(puts, v)
  BY <1>3 DEF Chosen
<1>5. Put(s, w, v) = [s EXCEPT !.puts = puts, !.chosen = Chosen(puts, v)]
  BY DEF Put, puts
<1>6. SettingOK(Put(s, w, v), V)
  BY <1>2, <1>4, <1>5 DEF SettingRight, SettingOK
<1>7. Put(s, w, v).puts = puts /\ Put(s, w, v).chosen = Chosen(puts, v)
  BY <1>5 DEF SettingRight, SettingOK
<1> QED BY <1>2, <1>4, <1>6, <1>7 DEF SettingRight, Settles

LEMMA PutAndWaitRight ==
  ASSUME NEW V, NEW s, SettingRight(s, V), NEW v \in V
  PROVE  SettingRight(PutAndWait(s, v), V)
<1>1. s.puts \in [Writers -> Seq(V)]
  BY DEF SettingRight, SettingOK
<1>2. \A u \in Writers : s.puts[u] # <<>> => Last(s.puts[u]) \in V
  BY <1>1, TailKeepsLast
<1>3. /\ Chosen(s.puts, v) \subseteq V /\ v \in Chosen(s.puts, v)
      /\ \A u \in Writers : s.puts[u] # <<>> => Last(s.puts[u]) \in Chosen(s.puts, v)
  BY <1>2 DEF Chosen
<1>4. SettingOK(PutAndWait(s, v), V)
  BY <1>3 DEF PutAndWait, SettingRight, SettingOK
<1>5. /\ PutAndWait(s, v).value = v /\ PutAndWait(s, v).puts = s.puts
      /\ PutAndWait(s, v).chosen = Chosen(s.puts, v)
  BY DEF PutAndWait, SettingRight, SettingOK
<1> QED BY <1>3, <1>4, <1>5 DEF SettingRight, Settles

LEMMA LandsRight ==
  ASSUME NEW V, NEW s, SettingRight(s, V), NEW w \in Writers, s.puts[w] # <<>>
  PROVE  SettingRight(Lands(s, w), V)
<1>1. s.puts[w] \in Seq(V) /\ s.puts \in [Writers -> Seq(V)]
  BY DEF SettingRight, SettingOK
<1>2. PICK v \in V : v = Head(s.puts[w])
  BY <1>1, TailKeepsLast
<1>3. /\ Tail(s.puts[w]) \in Seq(V)
      /\ IF Tail(s.puts[w]) = <<>> THEN v = Last(s.puts[w]) ELSE Last(Tail(s.puts[w])) = Last(s.puts[w])
  BY <1>1, <1>2, TailKeepsLast
<1>4. SettingOK(Lands(s, w), V)
  BY <1>1, <1>2, <1>3 DEF Lands, SettingRight, SettingOK
<1>5. /\ Lands(s, w).value = v /\ Lands(s, w).chosen = s.chosen
      /\ Lands(s, w).puts = [s.puts EXCEPT ![w] = Tail(s.puts[w])]
  BY <1>2 DEF Lands, SettingRight, SettingOK
<1>6. Last(s.puts[w]) \in s.chosen /\ \A u \in Writers : s.puts[u] # <<>> => Last(s.puts[u]) \in s.chosen
  BY DEF SettingRight, Settles
<1>7. \A u \in Writers : Lands(s, w).puts[u] = IF u = w THEN Tail(s.puts[w]) ELSE s.puts[u]
  BY <1>1, <1>5
<1> QED BY <1>3, <1>4, <1>5, <1>6, <1>7 DEF SettingRight, Settles

LEMMA TogglesInitInv == TogglesInit => TogglesInv
<1> SUFFICES ASSUME TogglesInit PROVE TogglesInv
  OBVIOUS
<1>1. SettingRight(experimentalMode, Modes) /\ SettingRight(personality, Personalities)
  BY SettingStarts DEF TogglesInit, Modes, Personalities
<1>2. TogglesValues
  BY TogglesAssumption DEF TogglesInit, TogglesValues, Modes, Personalities
<1> QED BY <1>1, <1>2 DEF TogglesInit, TogglesInv

LEMMA TogglesInductive == TogglesInv /\ [TogglesNext]_toggleVars => TogglesInv'
<1> SUFFICES ASSUME TogglesInv, [TogglesNext]_toggleVars PROVE TogglesInv'
  OBVIOUS
<1> USE TogglesAssumption DEF TogglesInv
<1>1. CASE RoadChanges
  <2>1. autoExperimental' \in BOOLEAN
    BY <1>1 DEF RoadChanges
  <2>2. TogglesValues'
    BY <1>1 DEF RoadChanges, Change, TogglesValues
  <2> QED BY <1>1, <2>1, <2>2 DEF RoadChanges
<1>2. CASE SwitchMode
  <2>1. Desired \in Modes
    BY DEF Desired, Modes
  <2>2. SettingRight(experimentalMode', Modes)
    BY <1>2, <2>1, PutRight DEF SwitchMode, Writers
  <2>3. TogglesValues'
    BY <1>2, <2>1 DEF SwitchMode, TogglesValues
  <2> QED BY <1>2, <2>2, <2>3 DEF SwitchMode
<1>3. CASE PressDistance
  <2>1. personalityCopy' \in Personalities
    BY <1>3 DEF PressDistance, TogglesValues, Personalities
  <2>2. SettingRight(personality', Personalities)
    BY <1>3, <2>1, PutRight DEF PressDistance, Writers
  <2>3. TogglesValues'
    BY <1>3, <2>1 DEF PressDistance, Change, TogglesValues
  <2> QED BY <1>3, <2>2, <2>3 DEF PressDistance
<1>4. CASE TapMode
  <2>1. SettingRight(experimentalMode', Modes)
    BY <1>4, PutRight, PutAndWaitRight DEF TapMode, Writers
  <2>2. TogglesValues'
    BY <1>4 DEF TapMode, Change, TogglesValues
  <2> QED BY <1>4, <2>1, <2>2 DEF TapMode
<1>5. CASE TapPersonality
  <2>1. SettingRight(personality', Personalities)
    BY <1>5, PutRight, PutAndWaitRight DEF TapPersonality, Writers
  <2>2. TogglesValues'
    BY <1>5 DEF TapPersonality, Change, TogglesValues
  <2> QED BY <1>5, <2>1, <2>2 DEF TapPersonality
<1>6. CASE TapWheel
  <2>1. Opposite(wheelMode) \in Modes
    BY DEF Opposite, TogglesValues, Modes
  <2>2. SettingRight(experimentalMode', Modes)
    BY <1>6, <2>1, PutRight DEF TapWheel, Writers
  <2>3. TogglesValues'
    BY <1>6 DEF TapWheel, Change, TogglesValues
  <2> QED BY <1>6, <2>2, <2>3 DEF TapWheel
<1>7. CASE WheelHears
  BY <1>7 DEF WheelHears, TogglesValues
<1>8. CASE ParamsThread
  <2>1. experimentalMode.value \in Modes /\ personality.value \in Personalities
    BY DEF SettingRight, SettingOK
  <2>2. TogglesValues'
    BY <1>8, <2>1 DEF ParamsThread, TogglesValues
  <2> QED BY <1>8, <2>2 DEF ParamsThread
<1>9. ASSUME NEW w \in Writers, ModeLands(w) PROVE TogglesInv'
  <2>1. SettingRight(experimentalMode', Modes)
    BY <1>9, LandsRight DEF ModeLands
  <2>2. TogglesValues'
    BY <1>9 DEF ModeLands, TogglesValues
  <2> QED BY <1>9, <2>1, <2>2 DEF ModeLands
<1>10. ASSUME NEW w \in Writers, PersonalityLands(w) PROVE TogglesInv'
  <2>1. SettingRight(personality', Personalities)
    BY <1>10, LandsRight DEF PersonalityLands
  <2>2. TogglesValues'
    BY <1>10 DEF PersonalityLands, TogglesValues
  <2> QED BY <1>10, <2>1, <2>2 DEF PersonalityLands
<1>11. CASE UNCHANGED toggleVars
  BY <1>11 DEF toggleVars, TogglesValues
<1> QED BY <1>1, <1>2, <1>3, <1>4, <1>5, <1>6, <1>7, <1>8, <1>9, <1>10, <1>11 DEF TogglesNext

\* The values each variable takes, and that no choice is lost to an older one.
THEOREM ChoicesLand == TogglesSpec => [](TogglesTypeOK /\ LastChoiceLands)
<1>1. TogglesInv => TogglesTypeOK /\ LastChoiceLands
  BY DEF TogglesInv, TogglesValues, TogglesTypeOK, LastChoiceLands, SettingRight
<1> QED BY <1>1, TogglesInitInv, TogglesInductive, PTL DEF TogglesSpec

-----------------------------------------------------------------------------
\* Clips

PageStates == {"idle", "path", "sets", "begin", "fetch"} \cup Ends
PageType == [at : PageStates, name : Segments \cup {NoPage.name}]
EncodeType == [name : Segments \cup {NoPage.name},
               pc : {"open", "run", "prune", "done", "unlink", "over"},
               file : {"none", "part", "clip", "gone"}]

ClipsTypes == page \in [Pages -> PageType] /\ encodes \in [Threads -> EncodeType]

\* A segment that was never encoded twice at once has one encode that is not over.
OneEncode ==
  \A e, f \in Threads :
    /\ encodes[e].pc # "over" /\ encodes[f].pc # "over"
    /\ encodes[e].name = encodes[f].name /\ encodes[e].name \notin twins
    => e = f

\* An encoder that runs alone has its file, and only one with company sees it become the clip.
FileInv ==
  \A e \in Threads :
    /\ encodes[e].pc = "run" => encodes[e].name \in part \cup twins
    /\ encodes[e].file # "none" => encodes[e].pc = "run"
    /\ encodes[e].file = "clip" => encodes[e].name \in twins

ClipsInv == ClipsTypes /\ OneEncode /\ FileInv /\ stolen \subseteq twins /\ PagesToldRight

LEMMA ClipsInitInv == ClipsInit => ClipsInv
<1> SUFFICES ASSUME ClipsInit PROVE ClipsInv
  OBVIOUS
<1>1. NoPage = [at |-> "idle", name |-> NoPage.name]
  BY DEF NoPage
<1>2. NoPage \in PageType /\ NoPage.at = "idle"
  BY <1>1 DEF PageType, PageStates
<1>3. NoEncode \in EncodeType /\ NoEncode.pc = "over" /\ NoEncode.file = "none"
  BY DEF NoEncode, EncodeType
<1>4. ClipsTypes
  BY <1>2, <1>3 DEF ClipsInit, ClipsTypes
<1>5. OneEncode /\ FileInv
  BY <1>3 DEF ClipsInit, OneEncode, FileInv
<1>6. PagesToldRight /\ stolen \subseteq twins
  BY <1>2 DEF ClipsInit, PagesToldRight
<1> QED BY <1>4, <1>5, <1>6 DEF ClipsInv

\* A page is told right as long as none is answered: what it was told of only grows.
LEMMA ToldRightStays ==
  ASSUME PagesToldRight, page' = page, stolen' \subseteq twins',
         twins \subseteq twins', deleted \subseteq deleted', failed \subseteq failed'
  PROVE  PagesToldRight'
BY DEF PagesToldRight

\* A page that is told of a clip or of none, rightly.
LEMMA AnswersRight ==
  ASSUME ClipsInv, NEW p \in Pages, NEW at \in PageStates, Answer(p, at),
         at = "torn" => page[p].name \in twins',
         at = "error" => page[p].name \in deleted' \cup (failed' \ stolen') \cup twins',
         stolen' = stolen, twins \subseteq twins', deleted' = deleted, failed \subseteq failed'
  PROVE  page' \in [Pages -> PageType] /\ PagesToldRight'
<1>1. page \in [Pages -> PageType]
  BY DEF ClipsInv, ClipsTypes
<1>2. [page[p] EXCEPT !.at = at] \in PageType
  BY <1>1 DEF PageType
<1>3. page' = [page EXCEPT ![p] = [page[p] EXCEPT !.at = at]]
  BY DEF Answer
<1>4. page' \in [Pages -> PageType]
  BY <1>1, <1>2, <1>3
<1>5. \A q \in Pages : page'[q].name = page[q].name /\ page'[q].at = IF q = p THEN at ELSE page[q].at
  BY <1>1, <1>3 DEF PageType
<1>6. PagesToldRight'
  BY <1>5 DEF PagesToldRight, ClipsInv
<1> QED BY <1>4, <1>6

\* A request answers right, and starts an encode alone or in a segment that counts as encoded
\* twice from then on.
LEMMA RequestsKeepClips ==
  ASSUME ClipsInv, NEW p \in Pages, Request(p)
  PROVE  ClipsInv'
<1> DEFINE n == page[p].name
<1> USE DEF PageStates, Ends
<1>1. ASSUME UNCHANGED <<encodes, part, stolen, twins>>, page' \in [Pages -> PageType], PagesToldRight'
      PROVE  ClipsInv'
  BY <1>1 DEF ClipsInv, ClipsTypes, OneEncode, FileInv
<1>2. CASE LookAtPath(p)
  <2>1. page' \in [Pages -> PageType] /\ PagesToldRight'
    <3> DEFINE a == IF n \in deleted THEN "error" ELSE IF Ready(n) THEN "fetch" ELSE "sets"
    <3>1. Answer(p, a) /\ a \in PageStates /\ a # "torn" /\ (a = "error" => n \in deleted)
      BY <1>2 DEF LookAtPath
    <3> HIDE DEF a
    <3> QED BY <1>2, <3>1, AnswersRight DEF LookAtPath
  <2> QED BY <1>1, <1>2, <2>1 DEF LookAtPath
<1>3. CASE LookAtSets(p)
  <2>1. page' \in [Pages -> PageType] /\ PagesToldRight'
    <3> DEFINE a == IF n \in working THEN "path" ELSE IF n \in failed THEN "error" ELSE "begin"
    <3>1. Answer(p, a) /\ a \in PageStates /\ a # "torn" /\ (a = "error" => n \in failed)
      BY <1>3 DEF LookAtSets
    <3> HIDE DEF a
    <3>2. a = "error" => n \in (failed \ stolen) \cup twins
      BY <3>1 DEF ClipsInv
    <3> QED BY <1>3, <3>1, <3>2, AnswersRight DEF LookAtSets
  <2> QED BY <1>1, <1>3, <2>1 DEF LookAtSets
<1>4. CASE LookAtVideo(p)
  <2>1. page' \in [Pages -> PageType] /\ PagesToldRight'
    <3> DEFINE a == IF n \in deleted \/ ~Ready(n) THEN "notFound" ELSE IF Torn(n) THEN "torn" ELSE "video"
    <3>1. Answer(p, a) /\ a \in PageStates /\ a # "error" /\ (a = "torn" => Torn(n))
      BY <1>4 DEF LookAtVideo
    <3> HIDE DEF a
    <3>2. Torn(n) => n \in twins
      BY DEF Torn, EncodesOf, ClipsInv, FileInv
    <3> QED BY <1>4, <3>1, <3>2, AnswersRight DEF LookAtVideo
  <2> QED BY <1>1, <1>4, <2>1 DEF LookAtVideo
<1>5. CASE Prepare(p)
  <2>1. CASE n \in deleted
    <3>1. page' \in [Pages -> PageType] /\ PagesToldRight'
      BY <1>5, <2>1, AnswersRight DEF Prepare
    <3> QED BY <1>1, <1>5, <2>1, <3>1 DEF Prepare
  <2>2. CASE n \notin deleted
    <3>1. PICK e \in Threads : encodes[e].pc = "over" /\ encodes' = [encodes EXCEPT ![e] = Started(n)]
      BY <1>5, <2>2 DEF Prepare
    <3>2. /\ Answer(p, "path") /\ part' = part /\ stolen' = stolen /\ failed' = failed /\ deleted' = deleted
          /\ twins' = IF EncodesOf(n) = {} THEN twins ELSE twins \cup {n}
      BY <1>5, <2>2 DEF Prepare
    <3>3. page' \in [Pages -> PageType] /\ PagesToldRight'
      BY <3>2, AnswersRight
    <3>4. page \in [Pages -> PageType] /\ encodes \in [Threads -> EncodeType]
      BY DEF ClipsInv, ClipsTypes
    <3>5. Started(n) \in EncodeType /\ Started(n).name = n /\ Started(n).pc = "open" /\ Started(n).file = "none"
      BY <3>4 DEF Started, EncodeType, PageType
    <3>6. ClipsTypes'
      BY <3>1, <3>3, <3>4, <3>5 DEF ClipsTypes
    <3>7. \A f \in Threads : encodes'[f] = IF f = e THEN Started(n) ELSE encodes[f]
      BY <3>1, <3>4
    <3>8. OneEncode'
      BY <3>2, <3>5, <3>7 DEF OneEncode, ClipsInv, EncodesOf
    <3>9. FileInv' /\ stolen' \subseteq twins'
      BY <3>2, <3>5, <3>7 DEF FileInv, ClipsInv
    <3> QED BY <3>3, <3>6, <3>8, <3>9 DEF ClipsInv
  <2> QED BY <2>1, <2>2
<1> QED BY <1>2, <1>3, <1>4, <1>5 DEF Request

\* A step of one encode: its own goes on, no other changes but for where its file is, and a file
\* is moved or removed only by an encode of the same segment or, when it is a clip, by any.
LEMMA EncodeStep ==
  ASSUME ClipsInv, NEW e \in Threads, encodes[e].pc # "over",
         page' = page, twins' = twins, deleted' = deleted, failed \subseteq failed', stolen' \subseteq twins,
         encodes' \in [Threads -> EncodeType],
         \A f \in Threads \ {e} :
           /\ encodes'[f].name = encodes[f].name /\ encodes'[f].pc = encodes[f].pc
           /\ encodes[f].file = "none" => encodes'[f].file = "none"
           /\ encodes'[f].file = "clip" => encodes[f].file = "clip" \/ encodes[f].name = encodes[e].name,
         encodes'[e].pc = "over" \/ encodes'[e].name = encodes[e].name,
         encodes'[e].pc = "run" => encodes[e].name \in part',
         encodes'[e].file = "none" \/ (encodes'[e].file = "part" /\ encodes'[e].pc = "run"),
         part \subseteq part' \cup {encodes[e].name}
  PROVE  ClipsInv'
<1>1. ClipsTypes'
  BY DEF ClipsInv, ClipsTypes
<1>2. OneEncode'
  BY DEF ClipsInv, OneEncode
<1>3. FileInv'
  <2> SUFFICES ASSUME NEW f \in Threads
               PROVE /\ encodes'[f].pc = "run" => encodes'[f].name \in part' \cup twins'
                     /\ encodes'[f].file # "none" => encodes'[f].pc = "run"
                     /\ encodes'[f].file = "clip" => encodes'[f].name \in twins'
    BY DEF FileInv
  <2>1. CASE f = e
    BY <2>1
  <2>2. CASE f # e
    <3>1. encodes[f].name = encodes[e].name /\ encodes[f].pc # "over" => encodes[f].name \in twins
      BY <2>2 DEF ClipsInv, OneEncode
    <3>2. encodes[f].file # "none" => encodes[f].pc = "run"
      BY DEF ClipsInv, FileInv
    <3>3. encodes[f].pc = "run" => encodes[f].name \in part \cup twins
      BY DEF ClipsInv, FileInv
    <3>4. encodes[f].file = "clip" => encodes[f].name \in twins
      BY DEF ClipsInv, FileInv
    <3> QED BY <2>2, <3>1, <3>2, <3>3, <3>4
  <2> QED BY <2>1, <2>2
<1>4. PagesToldRight'
  BY ToldRightStays DEF ClipsInv
<1> QED BY <1>1, <1>2, <1>3, <1>4 DEF ClipsInv

LEMMA EncodesKeepClips ==
  ASSUME ClipsInv, NEW e \in Threads, Encode(e)
  PROVE  ClipsInv'
<1> DEFINE n == encodes[e].name
<1>1. encodes \in [Threads -> EncodeType]
  BY DEF ClipsInv, ClipsTypes
<1>2. stolen \subseteq twins
  BY DEF ClipsInv
<1>3. NoEncode \in EncodeType /\ NoEncode.pc = "over" /\ NoEncode.file = "none"
  BY DEF NoEncode, EncodeType
<1>4. \A pc \in {"run", "prune", "done", "unlink"}, file \in {"none", "part"} :
        /\ [encodes[e] EXCEPT !.pc = pc, !.file = file] \in EncodeType
        /\ [encodes[e] EXCEPT !.pc = pc, !.file = file].name = n
        /\ [encodes[e] EXCEPT !.pc = pc, !.file = file].pc = pc
        /\ [encodes[e] EXCEPT !.pc = pc, !.file = file].file = file
  BY <1>1 DEF EncodeType
<1>5. ASSUME NEW pc \in {"prune", "done", "unlink"}, GoesOn(e, pc)
      PROVE  /\ encodes' \in [Threads -> EncodeType]
             /\ \A f \in Threads \ {e} : encodes'[f] = encodes[f]
             /\ encodes'[e].name = n /\ encodes'[e].pc = pc /\ encodes'[e].file = "none"
  <2>1. encodes' = [encodes EXCEPT ![e] = [encodes[e] EXCEPT !.pc = pc, !.file = "none"]]
    BY <1>5 DEF GoesOn
  <2> QED BY <1>1, <1>4, <2>1
<1>6. \A f \in Threads, file \in {"clip", "gone"} :
        /\ [encodes[f] EXCEPT !.file = file] \in EncodeType
        /\ [encodes[f] EXCEPT !.file = file].name = encodes[f].name
        /\ [encodes[f] EXCEPT !.file = file].pc = encodes[f].pc
        /\ [encodes[f] EXCEPT !.file = file].file = file
  BY <1>1 DEF EncodeType
<1>7. ASSUME NEW names, NEW from \in {"part", "clip"}
      PROVE  /\ Moved(names, from, "gone") \in [Threads -> EncodeType]
             /\ \A f \in Threads :
                  /\ Moved(names, from, "gone")[f].name = encodes[f].name
                  /\ Moved(names, from, "gone")[f].pc = encodes[f].pc
                  /\ Moved(names, from, "gone")[f].file \in {"gone", encodes[f].file}
                  /\ encodes[f].file = "none" => Moved(names, from, "gone")[f].file = "none"
  <2> DEFINE m == Moved(names, from, "gone")
  <2>1. m = [f \in Threads |-> IF encodes[f].name \in names /\ encodes[f].file = from
                               THEN [encodes[f] EXCEPT !.file = "gone"] ELSE encodes[f]]
    BY DEF Moved
  <2>2. \A f \in Threads : (m[f] = [encodes[f] EXCEPT !.file = "gone"] /\ encodes[f].file = from) \/ m[f] = encodes[f]
    BY <2>1
  <2> HIDE DEF m
  <2>3. \A f \in Threads : m[f] \in EncodeType
    BY <1>1, <1>6, <2>2
  <2>4. m \in [Threads -> EncodeType]
    BY <2>1, <2>3
  <2>5. \A f \in Threads :
          /\ m[f].name = encodes[f].name /\ m[f].pc = encodes[f].pc
          /\ m[f].file \in {"gone", encodes[f].file}
          /\ encodes[f].file = "none" => m[f].file = "none"
    BY <1>6, <2>2
  <2> QED BY <2>4, <2>5 DEF m
<1>8. CASE EncoderOpens(e)
  <2>1. encodes' = [encodes EXCEPT ![e] = [encodes[e] EXCEPT !.pc = "run", !.file = "part"]]
    BY <1>8 DEF EncoderOpens
  <2>2. encodes[e].pc = "open" /\ part' = part \cup {n} /\ UNCHANGED <<page, failed, deleted, twins, stolen>>
    BY <1>8 DEF EncoderOpens
  <2> QED BY <1>1, <1>2, <1>4, <2>1, <2>2, EncodeStep
<1>9. CASE Replace(e) /\ n \in part
  <2> DEFINE R(f) == IF f = e THEN [encodes[f] EXCEPT !.pc = "prune", !.file = "none"]
                     ELSE IF encodes[f].name = n /\ encodes[f].file = "part" THEN [encodes[f] EXCEPT !.file = "clip"]
                     ELSE IF encodes[f].name = n /\ encodes[f].file = "clip" THEN [encodes[f] EXCEPT !.file = "gone"]
                     ELSE encodes[f]
  <2>1. encodes' = [f \in Threads |-> R(f)]
    BY <1>9 DEF Replace
  <2>2. encodes[e].pc = "run" /\ part' = part \ {n} /\ UNCHANGED <<page, failed, deleted, twins, stolen>>
    BY <1>9 DEF Replace
  <2>3. \A f \in Threads \ {e} :
          \/ encodes'[f] = [encodes[f] EXCEPT !.file = "clip"] /\ encodes[f].name = n /\ encodes[f].file = "part"
          \/ encodes'[f] = [encodes[f] EXCEPT !.file = "gone"] /\ encodes[f].file = "clip"
          \/ encodes'[f] = encodes[f]
    BY <2>1
  <2>4. encodes'[e] = [encodes[e] EXCEPT !.pc = "prune", !.file = "none"]
    BY <2>1
  <2> HIDE DEF R
  <2>5. \A f \in Threads : encodes'[f] \in EncodeType
    <3>1. \A f \in Threads : encodes[f] \in EncodeType
      BY <1>1
    <3>2. \A f \in Threads \ {e} : encodes'[f] \in EncodeType
      BY <1>6, <2>3, <3>1
    <3>3. encodes'[e] \in EncodeType
      BY <1>4, <2>4
    <3> QED BY <3>2, <3>3
  <2>6. encodes' \in [Threads -> EncodeType]
    BY <2>1, <2>5
  <2>7. \A f \in Threads \ {e} :
          /\ encodes'[f].name = encodes[f].name /\ encodes'[f].pc = encodes[f].pc
          /\ encodes[f].file = "none" => encodes'[f].file = "none"
          /\ encodes'[f].file = "clip" => encodes[f].file = "clip" \/ encodes[f].name = n
    BY <1>6, <2>3
  <2>8. encodes'[e].name = n /\ encodes'[e].pc = "prune" /\ encodes'[e].file = "none"
    BY <1>4, <2>4
  <2> QED BY <1>2, <2>2, <2>6, <2>7, <2>8, EncodeStep
<1>10. CASE Replace(e) /\ n \notin part
  <2>1. GoesOn(e, "done") /\ encodes[e].pc = "run" /\ failed' = failed \cup {n} /\ stolen' = stolen \cup {n}
    BY <1>10 DEF Replace
  <2>2. part' = part /\ UNCHANGED <<page, deleted, twins>>
    BY <1>10 DEF Replace
  <2>3. n \in twins
    BY <1>10, <2>1 DEF ClipsInv, FileInv
  <2>4. /\ encodes' \in [Threads -> EncodeType]
        /\ \A f \in Threads \ {e} : encodes'[f] = encodes[f]
        /\ encodes'[e].name = n /\ encodes'[e].pc = "done" /\ encodes'[e].file = "none"
    BY <1>5, <2>1
  <2> QED BY <1>2, <2>1, <2>2, <2>3, <2>4, EncodeStep
<1>11. CASE Prune(e)
  <2> DEFINE old == ToSet(clips) \ ToSet(Pruned(CacheKeep))
             m == Moved(old, "clip", "gone")
  <2>1. /\ encodes[e].pc = "prune" /\ encodes' = [m EXCEPT ![e].pc = "done"]
        /\ UNCHANGED <<page, part, failed, deleted, twins, stolen>>
    BY <1>11 DEF Prune
  <2>2. /\ m \in [Threads -> EncodeType]
        /\ \A f \in Threads : /\ m[f].name = encodes[f].name /\ m[f].pc = encodes[f].pc
                              /\ m[f].file \in {"gone", encodes[f].file}
                              /\ encodes[f].file = "none" => m[f].file = "none"
    BY <1>7
  <2> HIDE DEF m
  <2>3. encodes[e].file = "none"
    BY <2>1 DEF ClipsInv, FileInv
  <2>4. /\ [m[e] EXCEPT !.pc = "done"] \in EncodeType
        /\ [m[e] EXCEPT !.pc = "done"].name = n
        /\ [m[e] EXCEPT !.pc = "done"].file = "none"
        /\ [m[e] EXCEPT !.pc = "done"].pc = "done"
    BY <2>2, <2>3 DEF EncodeType
  <2>5. encodes' = [m EXCEPT ![e] = [m[e] EXCEPT !.pc = "done"]]
    BY <2>1
  <2>6. encodes' \in [Threads -> EncodeType] /\ encodes'[e] = [m[e] EXCEPT !.pc = "done"]
    BY <2>2, <2>4, <2>5
  <2>7. \A f \in Threads \ {e} : encodes'[f] = m[f]
    BY <2>2, <2>5
  <2> QED BY <1>2, <2>1, <2>2, <2>4, <2>6, <2>7, EncodeStep
<1>12. CASE Fail(e)
  <2>1. GoesOn(e, "done") /\ encodes[e].pc # "over" /\ failed \subseteq failed'
        /\ UNCHANGED <<page, part, deleted, twins, stolen>>
    BY <1>12 DEF Fail
  <2>2. /\ encodes' \in [Threads -> EncodeType]
        /\ \A f \in Threads \ {e} : encodes'[f] = encodes[f]
        /\ encodes'[e].name = n /\ encodes'[e].pc = "done" /\ encodes'[e].file = "none"
    BY <1>5, <2>1
  <2> QED BY <1>2, <2>1, <2>2, EncodeStep
<1>13. CASE Discard(e)
  <2>1. GoesOn(e, "unlink") /\ encodes[e].pc # "over" /\ failed \subseteq failed'
        /\ UNCHANGED <<page, part, deleted, twins, stolen>>
    BY <1>13 DEF Discard
  <2>2. /\ encodes' \in [Threads -> EncodeType]
        /\ \A f \in Threads \ {e} : encodes'[f] = encodes[f]
        /\ encodes'[e].name = n /\ encodes'[e].pc = "unlink" /\ encodes'[e].file = "none"
    BY <1>5, <2>1
  <2> QED BY <1>2, <2>1, <2>2, EncodeStep
<1>14. CASE Unlink(e)
  <2> DEFINE m == Moved({n}, "part", "gone")
  <2>1. /\ encodes[e].pc = "unlink" /\ encodes' = [m EXCEPT ![e] = NoEncode]
        /\ part' = part \ {n} /\ UNCHANGED <<page, failed, deleted, twins, stolen>>
    BY <1>14 DEF Unlink
  <2>2. /\ m \in [Threads -> EncodeType]
        /\ \A f \in Threads : /\ m[f].name = encodes[f].name /\ m[f].pc = encodes[f].pc
                              /\ m[f].file \in {"gone", encodes[f].file}
                              /\ encodes[f].file = "none" => m[f].file = "none"
    BY <1>7
  <2> HIDE DEF m
  <2>3. encodes' \in [Threads -> EncodeType] /\ encodes'[e] = NoEncode /\ \A f \in Threads \ {e} : encodes'[f] = m[f]
    BY <1>3, <2>1, <2>2
  <2> QED BY <1>2, <1>3, <2>1, <2>2, <2>3, EncodeStep
<1> QED BY <1>8, <1>9, <1>10, <1>11, <1>12, <1>13, <1>14 DEF Encode

LEMMA ClipsInductive == ClipsInv /\ [ClipsNext]_clipVars => ClipsInv'
<1> SUFFICES ASSUME ClipsInv, [ClipsNext]_clipVars PROVE ClipsInv'
  OBVIOUS
<1>1. ASSUME UNCHANGED <<encodes, part, stolen, twins>>, page' \in [Pages -> PageType], PagesToldRight'
      PROVE  ClipsInv'
  BY <1>1 DEF ClipsInv, ClipsTypes, OneEncode, FileInv
<1>2. ASSUME NEW p \in Pages, Request(p) PROVE ClipsInv'
  BY <1>2, RequestsKeepClips
<1>3. ASSUME NEW p \in Pages, NEW n \in Segments, Ask(p, n) PROVE ClipsInv'
  <2>1. page \in [Pages -> PageType]
    BY DEF ClipsInv, ClipsTypes
  <2>2. [at |-> "path", name |-> n] \in PageType
    BY DEF PageType, PageStates
  <2>3. page' = [page EXCEPT ![p] = [at |-> "path", name |-> n]] /\ UNCHANGED <<failed, deleted, twins, stolen>>
    BY <1>3 DEF Ask
  <2>4. page' \in [Pages -> PageType]
    BY <2>1, <2>2, <2>3
  <2>5. PagesToldRight'
    BY <2>1, <2>3 DEF PagesToldRight, ClipsInv
  <2> QED BY <1>1, <1>3, <2>4, <2>5 DEF Ask
<1>4. ASSUME NEW n \in Segments, SegmentDeleted(n) PROVE ClipsInv'
  <2>1. PagesToldRight'
    BY <1>4, ToldRightStays DEF SegmentDeleted, ClipsInv
  <2> QED BY <1>1, <1>4, <2>1 DEF SegmentDeleted, ClipsInv, ClipsTypes
<1>5. ASSUME NEW e \in Threads, Encode(e) PROVE ClipsInv'
  BY <1>5, EncodesKeepClips
<1>6. CASE UNCHANGED clipVars
  BY <1>6 DEF clipVars, ClipsInv, ClipsTypes, OneEncode, FileInv, PagesToldRight
<1> QED BY <1>2, <1>3, <1>4, <1>5, <1>6 DEF ClipsNext

\* No page shows a clip that an encoder still writes to, nor says that there is none unless the
\* segment is gone or its encoder did fail (ClipCache, /prepare), but for a segment that two
\* requests found without a clip at once, and so was encoded twice into one .part file: for any
\* number of pages, segments and encodes, and though clips are pruned and segments are deleted
\* meanwhile.
THEOREM PagesAreToldRight == ClipsSpec => []PagesToldRight
<1>1. ClipsInv => PagesToldRight
  BY DEF ClipsInv
<1> QED BY <1>1, ClipsInitInv, ClipsInductive, PTL DEF ClipsSpec

-----------------------------------------------------------------------------
\* Wi-Fi settings

\* An element of a sequence.
LEMMA ElementType ==
  ASSUME NEW R, NEW s \in Seq(R), NEW e \in DOMAIN s
  PROVE  s[e] \in R /\ e \in Nat \ {0}
OBVIOUS

Statuses == {"disconnected", "connecting", "connected"}
ShownNetworks == [ssid : Ssids \cup {NoSsid}, status : Statuses]
NmSignals ==
  [to : {"prepare", "config", "activated", "deactivating", "disconnected", "needAuth", "failed"},
   from : {"any", "disconnected", "config", "needAuth"},
   why : {"none", "newActivation", "userRequested", "connectionRemoved", "supplicantDisconnect",
          "noSecrets", "ssidNotFound"}]

WifiTypes ==
  /\ nmDevice \in {"down", "prepare", "config", "activated"}
  /\ nmActive \in Ssids \cup {NoSsid} /\ nmSaved \subseteq Ssids
  /\ stateSignals \in Seq(NmSignals) /\ connSignals \in Seq([added : BOOLEAN, ssid : Ssids])
  /\ wifiState \in ShownNetworks /\ connections \subseteq Ssids
  /\ monitor \in [pc : {"idle", "preparing", "activated", "write"}, shown : ShownNetworks, fresh : BOOLEAN]
  /\ sync \in [pc : {"idle", "connection", "write"}, shown : ShownNetworks, fresh : BOOLEAN]
  /\ tasks \subseteq [kind : {"connect", "add", "activate", "forget", "deactivate"}, ssid : Ssids]

\* A signal that waits; that the connection has ended, for good or because it was removed.
WaitsIn(signals, s) == \E i \in DOMAIN signals : signals[i] = s
Ended(why) == Signal("disconnected", "any", why)
Endings == {Ended("none"), Ended("userRequested"), Ended("connectionRemoved")}
LastOf(signals) == signals[Len(signals)]
Removing == WaitsIn(stateSignals, Ended("connectionRemoved"))
Clearing == WaitsIn(stateSignals, Ended("none")) \/ WaitsIn(stateSignals, Ended("userRequested"))

\* A worker is on its way to activate what the user tapped.
Activates(task) == task.kind \in {"connect", "add", "activate"}
Activating == \E task \in tasks : Activates(task)

\* NetworkManager: the last signal that waits tells the state of the device.
DeviceInv ==
  /\ nmActive = NoSsid <=> nmDevice = "down"
  /\ nmActive # NoSsid => nmActive \in nmSaved
  /\ stateSignals # <<>> =>
       IF nmDevice = "down" THEN LastOf(stateSignals) \in Endings ELSE LastOf(stateSignals).to = nmDevice

\* The signals that wait are what WifiManager does not know yet of the connections; a new one comes
\* with an activation.
ConnInv ==
  /\ \A i, j \in DOMAIN connSignals : connSignals[i].ssid = connSignals[j].ssid => i = j
  /\ \A i \in DOMAIN connSignals :
       IF connSignals[i].added
       THEN connSignals[i].ssid \in nmSaved /\ connSignals[i].ssid \notin connections
       ELSE connSignals[i].ssid \notin nmSaved /\ connSignals[i].ssid \in connections
  /\ \A ssid \in Ssids : (\A i \in DOMAIN connSignals : connSignals[i].ssid # ssid)
                          => (ssid \in connections <=> ssid \in nmSaved)
  /\ stateSignals = <<>> \/ (monitor.pc # "idle" /\ monitor.fresh)
       => \A i \in DOMAIN connSignals : ~connSignals[i].added

\* One worker at a time, and no signal waits; what the user tapped is shown, and no lookup
\* begun before will overwrite it.
TasksInv ==
  /\ tasks # {} => stateSignals = <<>>
  /\ \A t, u \in tasks : t = u
  /\ \A t \in tasks : t.kind \in {"connect", "add"} => t.ssid \notin connections
  /\ \A t \in tasks : Activates(t) =>
       /\ wifiState.ssid = t.ssid
       /\ monitor.pc = "idle" \/ ~monitor.fresh
       /\ sync.pc = "idle" \/ ~sync.fresh

\* A worker looks up a device that does not change.
SyncInv ==
  sync.pc # "idle" =>
    /\ stateSignals = <<>> /\ monitor.pc = "idle"
    /\ IF sync.fresh
       THEN sync.shown.status = StatusOf[nmDevice] /\ (sync.pc = "write" => sync.shown.ssid = nmActive)
       ELSE Activating

\* What the signals that wait will make right: nothing, the active network, or one that was removed.
Fits(ssid) == ssid \in {NoSsid, nmActive} \/ (Removing /\ ssid \notin nmSaved)
FitsInv ==
  (sync.pc = "idle" \/ ~sync.fresh) /\ ~Activating /\ ~Clearing =>
    /\ Fits(wifiState.ssid)
    /\ monitor.pc # "idle" /\ monitor.fresh => Fits(monitor.shown.ssid)

\* With no signal left, what is shown or about to be is the device's state.
RestInv ==
  stateSignals = <<>> /\ sync.pc = "idle" /\ ~Activating =>
    IF monitor.pc = "idle" THEN wifiState = Shown(nmActive, StatusOf[nmDevice])
    ELSE /\ monitor.fresh /\ nmDevice # "down" /\ monitor.shown.status = StatusOf[nmDevice]
         /\ monitor.pc = "write" => monitor.shown.ssid = nmActive

WifiInv == WifiTypes /\ DeviceInv /\ ConnInv /\ TasksInv /\ SyncInv /\ FitsInv /\ RestInv

LEMMA ShownEqual ==
  ASSUME NEW x \in ShownNetworks
  PROVE  x = Shown(x.ssid, x.status)
BY DEF ShownNetworks, Shown

\* Signals are appended: what waits, and which is the last.
LEMMA SignalsJoined ==
  ASSUME NEW q \in Seq(NmSignals), NEW r \in Seq(NmSignals), r # <<>>
  PROVE  /\ q \o r \in Seq(NmSignals) /\ q \o r # <<>>
         /\ LastOf(q \o r) = LastOf(r)
         /\ \A s : WaitsIn(q \o r, s) <=> WaitsIn(q, s) \/ WaitsIn(r, s)
<1> DEFINE z == q \o r
<1>1. /\ z \in Seq(NmSignals) /\ Len(z) = Len(q) + Len(r) /\ Len(q) \in Nat /\ Len(r) \in Nat /\ Len(r) # 0
      /\ \A i \in 1..Len(q) : z[i] = q[i]
      /\ \A i \in 1..Len(r) : z[Len(q) + i] = r[i]
      /\ DOMAIN z = 1..Len(z) /\ DOMAIN q = 1..Len(q) /\ DOMAIN r = 1..Len(r)
  OBVIOUS
<1> HIDE DEF z
<1>2. z # <<>> /\ LastOf(z) = LastOf(r)
  BY <1>1 DEF LastOf
<1>3. ASSUME NEW s, WaitsIn(z, s) PROVE WaitsIn(q, s) \/ WaitsIn(r, s)
  <2>1. PICK i \in 1..Len(z) : z[i] = s
    BY <1>1, <1>3 DEF WaitsIn
  <2>2. CASE i <= Len(q)
    <3>1. i \in DOMAIN q /\ q[i] = s
      BY <1>1, <2>1, <2>2
    <3> QED BY <3>1 DEF WaitsIn
  <2>3. CASE i > Len(q)
    <3>1. i - Len(q) \in DOMAIN r /\ i = Len(q) + (i - Len(q))
      BY <1>1, <2>1, <2>3
    <3>2. r[i - Len(q)] = s
      BY <1>1, <2>1, <3>1
    <3> QED BY <3>1, <3>2 DEF WaitsIn
  <2> QED BY <1>1, <2>1, <2>2, <2>3
<1>4. ASSUME NEW s, WaitsIn(q, s) PROVE WaitsIn(z, s)
  <2>1. PICK i \in 1..Len(q) : q[i] = s
    BY <1>1, <1>4 DEF WaitsIn
  <2>2. i \in DOMAIN z /\ z[i] = s
    BY <1>1, <2>1
  <2> QED BY <2>2 DEF WaitsIn
<1>5. ASSUME NEW s, WaitsIn(r, s) PROVE WaitsIn(z, s)
  <2>1. PICK i \in 1..Len(r) : r[i] = s
    BY <1>1, <1>5 DEF WaitsIn
  <2>2. Len(q) + i \in DOMAIN z /\ z[Len(q) + i] = s
    BY <1>1, <2>1
  <2> QED BY <2>2 DEF WaitsIn
<1> QED BY <1>1, <1>2, <1>3, <1>4, <1>5 DEF z

\* The first signal is handled.
LEMMA SignalTaken ==
  ASSUME NEW q \in Seq(NmSignals), q # <<>>
  PROVE  /\ Head(q) \in NmSignals /\ Tail(q) \in Seq(NmSignals)
         /\ Tail(q) = <<>> => LastOf(q) = Head(q)
         /\ Tail(q) # <<>> => LastOf(Tail(q)) = LastOf(q)
         /\ \A s : WaitsIn(q, s) <=> Head(q) = s \/ WaitsIn(Tail(q), s)
<1> DEFINE z == Tail(q)
<1>0. /\ Len(q) \in Nat \ {0} /\ Head(q) = q[1] /\ DOMAIN q = 1..Len(q)
      /\ z \in Seq(NmSignals) /\ Len(z) = Len(q) - 1 /\ DOMAIN z = 1..Len(z)
  OBVIOUS
<1>1. /\ Len(q) \in Nat \ {0} /\ Head(q) = q[1] /\ q[1] \in NmSignals
      /\ z \in Seq(NmSignals) /\ Len(z) = Len(q) - 1
      /\ \A i \in 1..Len(z) : z[i] = q[i + 1]
      /\ DOMAIN z = 1..Len(z) /\ DOMAIN q = 1..Len(q)
  <2>1. q[1] \in NmSignals
    BY <1>0
  <2>2. \A i \in 1..Len(z) : z[i] = q[i + 1]
    OBVIOUS
  <2> QED BY <1>0, <2>1, <2>2
<1> HIDE DEF z
<1>2. z = <<>> <=> Len(q) = 1
  <2>1. z = <<>> <=> Len(z) = 0
    BY <1>1
  <2> QED BY <1>1, <2>1
<1>3. z = <<>> => LastOf(q) = Head(q)
  BY <1>1, <1>2 DEF LastOf
<1>4. z # <<>> => LastOf(z) = LastOf(q)
  <2>1. z # <<>> => Len(z) \in 1..Len(z) /\ Len(z) + 1 = Len(q)
    BY <1>1, <1>2
  <2> QED BY <1>1, <2>1 DEF LastOf
<1>5. ASSUME NEW s, WaitsIn(q, s), Head(q) # s PROVE WaitsIn(z, s)
  <2>1. PICK i \in 1..Len(q) : q[i] = s
    BY <1>1, <1>5 DEF WaitsIn
  <2>2. i - 1 \in 1..Len(z) /\ (i - 1) + 1 = i
    BY <1>1, <1>5, <2>1
  <2>3. z[i - 1] = s
    BY <1>1, <2>1, <2>2
  <2> QED BY <1>1, <2>2, <2>3 DEF WaitsIn
<1>6. ASSUME NEW s, WaitsIn(z, s) PROVE WaitsIn(q, s)
  <2>1. PICK i \in 1..Len(z) : z[i] = s
    BY <1>1, <1>6 DEF WaitsIn
  <2>2. i + 1 \in DOMAIN q /\ q[i + 1] = s
    BY <1>1, <2>1
  <2> QED BY <2>2 DEF WaitsIn
<1>7. ASSUME NEW s, Head(q) = s PROVE WaitsIn(q, s)
  <2>1. 1 \in DOMAIN q /\ q[1] = s
    BY <1>1, <1>7
  <2> QED BY <2>1 DEF WaitsIn
<1> QED BY <1>1, <1>3, <1>4, <1>5, <1>6, <1>7 DEF z

\* What NetworkManager does: it goes on with a connection, or ends one.
NmUp ==
  /\ nmDevice' \in {"prepare", "config", "activated"} /\ nmActive' \in Ssids /\ nmActive' # NoSsid
  /\ stateSignals' \in Seq(NmSignals) /\ stateSignals' # <<>> /\ LastOf(stateSignals').to = nmDevice'
  /\ Clearing' = Clearing /\ Removing' = Removing
NmDown(why) ==
  /\ nmDevice' = "down" /\ nmActive' = NoSsid
  /\ stateSignals' \in Seq(NmSignals) /\ stateSignals' # <<>> /\ LastOf(stateSignals') = Ended(why)
  /\ Clearing \/ why # "connectionRemoved" => Clearing'
  /\ Removing \/ why = "connectionRemoved" => Removing'

LEMMA SignalTypes ==
  /\ \A to \in {"prepare", "config", "activated"} : Signal(to, "any", "none") \in NmSignals
  /\ Signal("deactivating", "any", "newActivation") \in NmSignals
  /\ Signal("disconnected", "any", "newActivation") \in NmSignals
  /\ Signal("needAuth", "disconnected", "supplicantDisconnect") \in NmSignals
  /\ \A s \in {Refused[1], Refused[2], Vanished[1], Lost[1]} : s \in NmSignals
  /\ \A why \in {"none", "userRequested", "connectionRemoved"} :
       Ended(why) \in NmSignals /\ Signal("deactivating", "any", why) \in NmSignals
BY DEF Signal, NmSignals, Ended, Refused, Vanished, Lost

\* Signals none of which is of an end, or the last of which is.
LEMMA EmitsNoEnd ==
  ASSUME WifiTypes, NEW r \in Seq(NmSignals), r # <<>>, stateSignals' = stateSignals \o r,
         \A s \in Endings : ~WaitsIn(r, s)
  PROVE  /\ stateSignals' \in Seq(NmSignals) /\ stateSignals' # <<>> /\ LastOf(stateSignals') = LastOf(r)
         /\ Clearing' = Clearing /\ Removing' = Removing
<1>1. /\ stateSignals' \in Seq(NmSignals) /\ stateSignals' # <<>> /\ LastOf(stateSignals') = LastOf(r)
      /\ \A s \in Endings : WaitsIn(stateSignals', s) <=> WaitsIn(stateSignals, s)
  BY SignalsJoined DEF WifiTypes
<1>2. (Clearing' <=> Clearing) /\ (Removing' <=> Removing)
  BY <1>1 DEF Clearing, Removing, Endings
<1>3. Clearing' = Clearing /\ Removing' = Removing
  BY <1>2 DEF Clearing, Removing, WaitsIn
<1> QED BY <1>1, <1>3

LEMMA EmitsEnd ==
  ASSUME WifiTypes, NEW r \in Seq(NmSignals), r # <<>>, stateSignals' = stateSignals \o r,
         NEW why \in {"none", "userRequested", "connectionRemoved"}, LastOf(r) = Ended(why), Down
  PROVE  NmDown(why)
<1>1. /\ stateSignals' \in Seq(NmSignals) /\ stateSignals' # <<>> /\ LastOf(stateSignals') = Ended(why)
      /\ \A s : WaitsIn(stateSignals', s) <=> WaitsIn(stateSignals, s) \/ WaitsIn(r, s)
  BY SignalsJoined DEF WifiTypes
<1>2. WaitsIn(r, Ended(why))
  <2>1. Len(r) \in DOMAIN r
    OBVIOUS
  <2> QED BY <2>1 DEF WaitsIn, LastOf
<1>3. (Clearing \/ why # "connectionRemoved" => Clearing') /\ (Removing \/ why = "connectionRemoved" => Removing')
  BY <1>1, <1>2 DEF Clearing, Removing
<1> QED BY <1>1, <1>3 DEF NmDown, Down

LEMMA BeginsUp ==
  ASSUME WifiTypes, NEW ssid \in Ssids, Begin(ssid)
  PROVE  NmUp /\ nmActive' = ssid
<1> DEFINE x == Signal("deactivating", "any", "newActivation")
           y == Signal("disconnected", "any", "newActivation")
           a == Signal("needAuth", "disconnected", "supplicantDisconnect")
           p == Signal("prepare", "any", "none")
<1>1. ssid # NoSsid
  BY WifiAssumption
<1>2. /\ nmActive' = ssid /\ nmDevice' = "prepare"
      /\ \/ stateSignals' = stateSignals \o <<p>>
         \/ stateSignals' = stateSignals \o (<<x, y>> \o <<>> \o <<p>>)
         \/ stateSignals' = stateSignals \o (<<x, y>> \o <<a>> \o <<p>>)
  BY DEF Begin, Emit
<1>3. /\ p \in NmSignals /\ a \in NmSignals /\ x \in NmSignals /\ y \in NmSignals
      /\ p.to = "prepare"
  BY SignalTypes DEF Signal
<1>4. \A s \in {p, a, x, y} : s \notin Endings
  BY DEF Signal, Endings, Ended
<1> HIDE DEF p, a, x, y
<1>5. ASSUME NEW q \in Seq(NmSignals), \A i \in DOMAIN q : q[i] \in {x, y, a}
      PROVE  /\ q \o <<p>> \in Seq(NmSignals) /\ q \o <<p>> # <<>> /\ LastOf(q \o <<p>>) = p
             /\ \A s \in Endings : ~WaitsIn(q \o <<p>>, s)
  <2>1. <<p>> \in Seq(NmSignals) /\ <<p>> # <<>> /\ LastOf(<<p>>) = p /\ DOMAIN <<p>> = {1} /\ <<p>>[1] = p
    BY <1>3 DEF LastOf
  <2> DEFINE one == <<p>>
  <2> HIDE DEF one
  <2>2. /\ q \o one \in Seq(NmSignals) /\ q \o one # <<>> /\ LastOf(q \o one) = p
        /\ \A s : WaitsIn(q \o one, s) <=> WaitsIn(q, s) \/ WaitsIn(one, s)
    BY <2>1, SignalsJoined DEF one
  <2>3. \A s \in Endings : ~WaitsIn(q, s) /\ ~WaitsIn(one, s)
    BY <1>4, <1>5, <2>1 DEF WaitsIn, one
  <2> QED BY <2>2, <2>3 DEF one
<1>6. /\ <<x, y>> \o <<>> \in Seq(NmSignals) /\ \A i \in DOMAIN (<<x, y>> \o <<>>) : (<<x, y>> \o <<>>)[i] \in {x, y, a}
      /\ <<x, y>> \o <<a>> \in Seq(NmSignals) /\ \A i \in DOMAIN (<<x, y>> \o <<a>>) : (<<x, y>> \o <<a>>)[i] \in {x, y, a}
  BY <1>3
<1>7. /\ <<p>> \in Seq(NmSignals) /\ <<p>> # <<>> /\ LastOf(<<p>>) = p
      /\ \A s \in Endings : ~WaitsIn(<<p>>, s)
  BY <1>3, <1>4 DEF LastOf, WaitsIn
<1>8. CASE stateSignals' = stateSignals \o <<p>>
  BY <1>1, <1>2, <1>3, <1>7, <1>8, EmitsNoEnd DEF NmUp
<1>9. ASSUME NEW q \in {<<x, y>> \o <<>>, <<x, y>> \o <<a>>}, stateSignals' = stateSignals \o (q \o <<p>>)
      PROVE  NmUp /\ nmActive' = ssid
  <2>1. /\ q \o <<p>> \in Seq(NmSignals) /\ q \o <<p>> # <<>> /\ LastOf(q \o <<p>>) = p
        /\ \A s \in Endings : ~WaitsIn(q \o <<p>>, s)
    BY <1>5, <1>6
  <2> QED BY <1>1, <1>2, <1>3, <1>9, <2>1, EmitsNoEnd DEF NmUp
<1> QED BY <1>2, <1>8, <1>9

LEMMA EndsDown ==
  ASSUME WifiTypes, Down, NEW s \in NmSignals, NEW why \in {"none", "userRequested", "connectionRemoved"},
         \/ stateSignals' = stateSignals \o <<s, Ended(why)>>
         \/ \E t \in NmSignals : stateSignals' = stateSignals \o <<s, t, Ended(why)>>
  PROVE  NmDown(why)
<1>1. Ended(why) \in NmSignals
  BY SignalTypes
<1> DEFINE e == Ended(why)
<1> HIDE DEF e
<1>2. <<s, e>> \in Seq(NmSignals) /\ <<s, e>> # <<>> /\ LastOf(<<s, e>>) = e
  BY <1>1 DEF LastOf, e
<1>3. ASSUME NEW t \in NmSignals
      PROVE  <<s, t, e>> \in Seq(NmSignals) /\ <<s, t, e>> # <<>> /\ LastOf(<<s, t, e>>) = e
  BY <1>1 DEF LastOf, e
<1> QED BY <1>2, <1>3, EmitsEnd DEF e

\* What ends an activation.
LEMMA LossesDown ==
  ASSUME WifiTypes, Down, Emit(Refused) \/ Emit(Vanished) \/ Emit(Lost)
  PROVE  NmDown("none")
<1>1. \A s \in {Refused[1], Refused[2], Vanished[1], Lost[1]} : s \in NmSignals
  BY SignalTypes
<1>2. /\ Refused = <<Refused[1], Refused[2], Ended("none")>>
      /\ Vanished = <<Vanished[1], Ended("none")>> /\ Lost = <<Lost[1], Ended("none")>>
  BY DEF Refused, Vanished, Lost, Ended
<1>3. \/ stateSignals' = stateSignals \o <<Refused[1], Refused[2], Ended("none")>>
      \/ stateSignals' = stateSignals \o <<Vanished[1], Ended("none")>>
      \/ stateSignals' = stateSignals \o <<Lost[1], Ended("none")>>
  BY <1>2 DEF Emit
<1> QED BY <1>1, <1>3, EndsDown

LEMMA DeletesDown ==
  ASSUME WifiTypes, NEW ssid, Delete(ssid), nmActive = ssid
  PROVE  NmDown("connectionRemoved")
<1>1. /\ Down
      /\ stateSignals' = stateSignals \o <<Signal("deactivating", "any", "connectionRemoved"), Ended("connectionRemoved")>>
  BY DEF Delete, Emit, Ended
<1> QED BY <1>1, SignalTypes, EndsDown

LEMMA DeactivatesDown ==
  ASSUME WifiTypes, NEW ssid, Deactivate(ssid), nmActive = ssid
  PROVE  NmDown("userRequested")
<1>1. /\ Down
      /\ stateSignals' = stateSignals \o <<Signal("deactivating", "any", "userRequested"), Ended("userRequested")>>
  BY DEF Deactivate, Emit, Ended
<1> QED BY <1>1, SignalTypes, EndsDown

\* The types stay, whatever the timings.
LEMMA WifiTypesStep ==
  ASSUME WifiTypes, WifiNext
  PROVE  WifiTypes'
<1> DEFINE Monitors == [pc : {"idle", "preparing", "activated", "write"}, shown : ShownNetworks, fresh : BOOLEAN]
           Syncs == [pc : {"idle", "connection", "write"}, shown : ShownNetworks, fresh : BOOLEAN]
           Conns == [added : BOOLEAN, ssid : Ssids]
           Tasks == [kind : {"connect", "add", "activate", "forget", "deactivate"}, ssid : Ssids]
           NmTypes == /\ nmDevice \in {"down", "prepare", "config", "activated"}
                      /\ nmActive \in Ssids \cup {NoSsid} /\ stateSignals \in Seq(NmSignals)
           SavedTypes == nmSaved \subseteq Ssids /\ connSignals \in Seq(Conns)
<1>1. /\ NmTypes /\ SavedTypes
      /\ wifiState \in ShownNetworks /\ connections \subseteq Ssids
      /\ monitor \in Monitors /\ sync \in Syncs /\ tasks \subseteq Tasks
  BY DEF WifiTypes
<1> HIDE DEF Monitors, Syncs, Conns, Tasks
<1>2. ASSUME UNCHANGED <<nmDevice, nmActive, stateSignals>> PROVE NmTypes'
  BY <1>1, <1>2
<1>3. ASSUME UNCHANGED <<nmSaved, connSignals>> PROVE SavedTypes'
  BY <1>1, <1>3
<1>4. ASSUME NEW ssid \in Ssids, Begin(ssid) PROVE NmTypes'
  BY <1>4, BeginsUp DEF NmUp
<1>5. \A why \in {"none", "userRequested", "connectionRemoved"} : NmDown(why) => NmTypes'
  BY DEF NmDown
<1>6. ASSUME NEW ssid \in Ssids, NEW status \in Statuses
      PROVE  /\ Shown(ssid, status) \in ShownNetworks /\ Shown(NoSsid, status) \in ShownNetworks
  BY DEF Shown, ShownNetworks
<1>7. /\ Shown(NoSsid, "disconnected") \in ShownNetworks /\ Shown(NoSsid, "connecting") \in ShownNetworks
      /\ Shown(NoSsid, StatusOf[nmDevice]) \in ShownNetworks
      /\ Shown(wifiState.ssid, "connected") \in ShownNetworks
  BY <1>1 DEF Shown, ShownNetworks, Statuses, StatusOf
<1>8. /\ \A shown \in ShownNetworks, pc \in {"preparing", "activated"} : Lookup(pc, shown) \in Monitors
      /\ \A shown \in ShownNetworks : Lookup("connection", shown) \in Syncs
      /\ NoLookup \in Monitors /\ NoLookup \in Syncs
  BY <1>7 DEF Lookup, NoLookup, Monitors, Syncs
<1>9. Stale(sync) \in Syncs /\ Stale(monitor) \in Monitors
  BY <1>1 DEF Stale, Syncs, Monitors
<1>10. ASSUME NEW ssid \in Ssids \cup {NoSsid}, SetConnecting(ssid)
       PROVE  wifiState' \in ShownNetworks /\ sync' \in Syncs /\ monitor' \in Monitors
  BY <1>9, <1>10 DEF SetConnecting, Shown, ShownNetworks, Statuses
<1>11. ASSUME BeginSync PROVE sync' \in Syncs
  BY <1>7, <1>8, <1>11 DEF BeginSync
<1>12. CASE NmProgress \/ NmChange
  <2>1. SavedTypes' /\ UNCHANGED <<wifiState, connections, monitor, sync, tasks>>
    BY <1>3, <1>12 DEF NmProgress, NmChange
  <2>2. NmTypes'
    <3>1. CASE NmProgress
      <4>1. PICK d \in {"config", "activated"} :
              nmDevice' = d /\ stateSignals' = stateSignals \o <<Signal(d, "any", "none")>> /\ nmActive' = nmActive
        BY <3>1 DEF NmProgress, Emit
      <4>2. Signal(d, "any", "none") \in NmSignals
        BY SignalTypes
      <4>3. stateSignals' \in Seq(NmSignals)
        BY <1>1, <4>1, <4>2
      <4> QED BY <1>1, <4>1, <4>3
    <3>2. CASE NmChange
      <4>1. CASE Down /\ (Emit(Refused) \/ Emit(Vanished) \/ Emit(Lost))
        BY <1>5, <4>1, LossesDown
      <4>2. CASE \E ssid \in nmSaved : Begin(ssid)
        BY <1>1, <1>4, <4>2
      <4> QED BY <3>2, <4>1, <4>2 DEF NmChange
    <3> QED BY <1>12, <3>1, <3>2
  <2> QED BY <1>1, <2>1, <2>2 DEF WifiTypes, Monitors, Syncs, Conns, Tasks
<1>13. CASE Tap
  <2>1. PICK ssid \in Ssids, kind \in {"connect", "activate", "forget", "deactivate"} :
          /\ tasks' = tasks \cup {[kind |-> kind, ssid |-> ssid]}
          /\ SetConnecting(ssid) \/ UNCHANGED <<wifiState, monitor, sync>>
    BY <1>13 DEF Tap
  <2>2. NmTypes' /\ SavedTypes' /\ connections' = connections
    BY <1>2, <1>3, <1>13 DEF Tap, nmVars, signalVars
  <2>3. tasks' \subseteq Tasks
    BY <1>1, <2>1 DEF Tasks
  <2>4. wifiState' \in ShownNetworks /\ sync' \in Syncs /\ monitor' \in Monitors
    BY <1>1, <1>10, <2>1
  <2> QED BY <1>1, <2>2, <2>3, <2>4 DEF WifiTypes, Monitors, Syncs, Conns, Tasks
<1>14. CASE OpenSettings
  <2>1. NmTypes' /\ SavedTypes' /\ UNCHANGED <<wifiState, connections, monitor, tasks>> /\ sync' \in Syncs
    BY <1>2, <1>3, <1>11, <1>14 DEF OpenSettings, nmVars, signalVars
  <2> QED BY <1>1, <2>1 DEF WifiTypes, Monitors, Syncs, Conns, Tasks
<1>15. CASE SyncStep
  <2>1. NmTypes' /\ SavedTypes' /\ UNCHANGED <<connections, monitor, tasks>>
    BY <1>2, <1>3, <1>15 DEF SyncStep, nmVars, signalVars
  <2>2. sync' \in Syncs
    <3>1. \A ssid \in Ssids \cup {NoSsid} : [sync EXCEPT !.pc = "write", !.shown.ssid = ssid] \in Syncs
      BY <1>1 DEF Syncs, ShownNetworks
    <3>2. (IF nmActive \in connections THEN nmActive ELSE NoSsid) \in Ssids \cup {NoSsid}
      BY <1>1
    <3> QED BY <1>8, <1>15, <3>1, <3>2 DEF SyncStep
  <2>3. wifiState' \in ShownNetworks
    BY <1>1, <1>15 DEF SyncStep, Syncs
  <2> QED BY <1>1, <2>1, <2>2, <2>3 DEF WifiTypes, Monitors, Syncs, Conns, Tasks
<1>16. ASSUME NEW task \in tasks, WorkerStep(task) PROVE WifiTypes'
  <2>1. /\ task \in Tasks /\ task.ssid \in Ssids /\ [task EXCEPT !.kind = "add"] \in Tasks
    BY <1>1 DEF Tasks
  <2>2. tasks' \subseteq Tasks
    BY <1>1, <1>16, <2>1 DEF WorkerStep
  <2>3. UNCHANGED <<wifiState, connections, monitor>>
    BY <1>16 DEF WorkerStep
  <2>4. CASE UNCHANGED <<nmVars, signalVars>> /\ (BeginSync \/ UNCHANGED sync)
    <3>1. NmTypes' /\ SavedTypes' /\ sync' \in Syncs
      BY <1>1, <1>2, <1>3, <1>11, <2>4 DEF nmVars, signalVars
    <3> QED BY <1>1, <2>2, <2>3, <3>1 DEF WifiTypes, Monitors, Syncs, Conns, Tasks
  <2>5. CASE Delete(task.ssid) /\ UNCHANGED sync
    <3>1. SavedTypes'
      <4>1. [added |-> FALSE, ssid |-> task.ssid] \in Conns
        BY <2>1 DEF Conns
      <4> QED BY <1>1, <2>5, <4>1 DEF Delete
    <3>2. NmTypes'
      BY <1>2, <1>5, <2>5, DeletesDown DEF Delete
    <3> QED BY <1>1, <2>2, <2>3, <2>5, <3>1, <3>2 DEF WifiTypes, Monitors, Syncs, Conns, Tasks
  <2>6. CASE AddConnection(task.ssid) /\ Begin(task.ssid) /\ UNCHANGED sync
    <3>1. SavedTypes'
      <4>1. [added |-> TRUE, ssid |-> task.ssid] \in Conns
        BY <2>1 DEF Conns
      <4> QED BY <1>1, <2>1, <2>6, <4>1 DEF AddConnection
    <3>2. NmTypes'
      BY <1>4, <2>1, <2>6
    <3> QED BY <1>1, <2>2, <2>3, <2>6, <3>1, <3>2 DEF WifiTypes, Monitors, Syncs, Conns, Tasks
  <2>7. CASE Begin(task.ssid) /\ UNCHANGED <<nmSaved, connSignals, sync>>
    <3>1. SavedTypes' /\ NmTypes'
      BY <1>3, <1>4, <2>1, <2>7
    <3> QED BY <1>1, <2>2, <2>3, <2>7, <3>1 DEF WifiTypes, Monitors, Syncs, Conns, Tasks
  <2>8. CASE Deactivate(task.ssid) /\ UNCHANGED <<nmSaved, connSignals, sync>>
    <3>1. SavedTypes' /\ NmTypes'
      BY <1>2, <1>3, <1>5, <2>8, DeactivatesDown DEF Deactivate
    <3> QED BY <1>1, <2>2, <2>3, <2>8, <3>1 DEF WifiTypes, Monitors, Syncs, Conns, Tasks
  <2> QED BY <1>16, <2>4, <2>5, <2>6, <2>7, <2>8 DEF WorkerStep
<1>17. CASE ConnectionSignal
  <2>1. NmTypes' /\ UNCHANGED <<wifiState, monitor, sync, tasks>> /\ nmSaved' = nmSaved
    BY <1>2, <1>17 DEF ConnectionSignal, nmVars
  <2>2. connSignals \in Seq(Conns) /\ connSignals # <<>> /\ connSignals' = Tail(connSignals)
    BY <1>1, <1>17 DEF ConnectionSignal
  <2>3. connSignals' \in Seq(Conns) /\ Head(connSignals) \in Conns
    <3>1. Head(connSignals) = connSignals[1] /\ 1 \in DOMAIN connSignals
      BY <2>2
    <3> QED BY <2>2, <3>1, ElementType
  <2>4. connections' \subseteq Ssids
    BY <1>1, <1>17, <2>3 DEF ConnectionSignal, Conns
  <2> QED BY <1>1, <2>1, <2>3, <2>4 DEF WifiTypes, Monitors, Syncs, Conns, Tasks
<1>18. CASE StateSignal
  <2>1. SavedTypes' /\ UNCHANGED <<nmDevice, nmActive, connections, tasks>>
    BY <1>3, <1>18 DEF StateSignal, nmVars
  <2>2. stateSignals' \in Seq(NmSignals)
    BY <1>1, <1>18, SignalTaken DEF StateSignal
  <2>3. wifiState' \in ShownNetworks /\ sync' \in Syncs /\ monitor' \in Monitors
    <3>1. CASE ClearShown
      BY <1>10, <3>1 DEF ClearShown
    <3>2. CASE Ignore
      BY <1>1, <3>2 DEF Ignore
    <3>3. CASE Preparing
      <4>1. [wifiState EXCEPT !.status = "connecting"] \in ShownNetworks
        BY <1>1 DEF ShownNetworks, Statuses
      <4> QED BY <1>1, <1>7, <1>8, <3>3, <4>1 DEF Preparing
    <3>4. CASE Activated
      BY <1>1, <1>7, <1>8, <3>4 DEF Activated
    <3>5. ClearShown \/ Ignore \/ Preparing \/ Activated
      BY <1>18 DEF StateSignal, Disconnected, Deactivating
    <3> QED BY <3>1, <3>2, <3>3, <3>4, <3>5
  <2> QED BY <1>1, <2>1, <2>2, <2>3 DEF WifiTypes, Monitors, Syncs, Conns, Tasks
<1>19. CASE MonitorLookup
  <2>1. NmTypes' /\ SavedTypes' /\ UNCHANGED <<connections, sync, tasks>>
    BY <1>2, <1>3, <1>19 DEF MonitorLookup, nmVars, signalVars
  <2>2. monitor' \in Monitors
    <3>1. \A ssid \in Ssids \cup {NoSsid} : [monitor EXCEPT !.pc = "write", !.shown.ssid = ssid] \in Monitors
      BY <1>1 DEF Monitors, ShownNetworks
    <3>2. /\ monitor.shown.ssid \in Ssids \cup {NoSsid}
          /\ (IF nmActive \in connections THEN nmActive ELSE NoSsid) \in Ssids \cup {NoSsid}
      BY <1>1 DEF Monitors, ShownNetworks
    <3>3. \/ monitor' = NoLookup
          \/ \E ssid \in Ssids \cup {NoSsid} : monitor' = [monitor EXCEPT !.pc = "write", !.shown.ssid = ssid]
      BY <1>1, <1>19, <3>2 DEF MonitorLookup, Monitors
    <3> QED BY <1>8, <3>1, <3>3
  <2>3. wifiState' \in ShownNetworks
    BY <1>1, <1>19 DEF MonitorLookup, Monitors
  <2> QED BY <1>1, <2>1, <2>2, <2>3 DEF WifiTypes, Monitors, Syncs, Conns, Tasks
<1> QED BY <1>12, <1>13, <1>14, <1>15, <1>16, <1>17, <1>18, <1>19 DEF WifiNext

LEMMA WifiInitInv == WifiInit => WifiInv
<1> SUFFICES ASSUME WifiInit PROVE WifiInv
  OBVIOUS
<1>1. /\ nmDevice = "down" /\ nmActive = NoSsid /\ nmSaved \subseteq Ssids /\ connections = nmSaved
      /\ stateSignals = <<>> /\ connSignals = <<>> /\ tasks = {}
      /\ wifiState = Shown(NoSsid, "disconnected") /\ monitor = NoLookup /\ sync = NoLookup
  BY DEF WifiInit
<1>2. Shown(NoSsid, "disconnected") \in ShownNetworks
  BY DEF Shown, ShownNetworks, Statuses
<1>3. /\ NoLookup \in [pc : {"idle", "preparing", "activated", "write"}, shown : ShownNetworks, fresh : BOOLEAN]
      /\ NoLookup \in [pc : {"idle", "connection", "write"}, shown : ShownNetworks, fresh : BOOLEAN]
      /\ NoLookup.pc = "idle"
  BY <1>2 DEF NoLookup
<1>4. WifiTypes
  BY <1>1, <1>2, <1>3 DEF WifiTypes
<1>5. DeviceInv /\ ConnInv /\ TasksInv /\ SyncInv
  BY <1>1, <1>3 DEF DeviceInv, ConnInv, TasksInv, SyncInv
<1>6. FitsInv /\ RestInv
  BY <1>1, <1>3 DEF FitsInv, RestInv, Fits, Shown, StatusOf
<1> QED BY <1>4, <1>5, <1>6 DEF WifiInv

\* NetworkManager by itself.
LEMMA NmKeepsWifi ==
  ASSUME WifiInv, WifiHappens = {}, NmProgress \/ NmChange
  PROVE  WifiInv'
<1>1. /\ tasks = {} /\ sync.pc = "idle"
      /\ UNCHANGED <<nmSaved, connSignals, wifiState, connections, monitor, sync, tasks>>
  BY DEF NmProgress, NmChange, ByItself, Quieten
<1>2. \/ NmUp /\ nmActive' = nmActive
      \/ NmUp /\ nmDevice = "down" /\ nmActive' \in nmSaved
      \/ NmDown("none")
  <2>1. CASE NmProgress
    <3>1. PICK d \in {"config", "activated"} :
            /\ nmDevice' = d /\ stateSignals' = stateSignals \o <<Signal(d, "any", "none")>>
            /\ nmActive' = nmActive /\ nmDevice # "down"
      BY <2>1 DEF NmProgress, Emit
    <3>2. Signal(d, "any", "none") \in NmSignals /\ Signal(d, "any", "none").to = d
      BY SignalTypes DEF Signal
    <3>3. Signal(d, "any", "none") \notin Endings
      BY DEF Signal, Endings, Ended
    <3> DEFINE p == Signal(d, "any", "none")
    <3> HIDE DEF p
    <3>4. /\ <<p>> \in Seq(NmSignals) /\ <<p>> # <<>> /\ LastOf(<<p>>) = p
          /\ \A s \in Endings : ~WaitsIn(<<p>>, s)
      BY <3>2, <3>3 DEF LastOf, WaitsIn, p
    <3>5. /\ stateSignals' \in Seq(NmSignals) /\ stateSignals' # <<>> /\ LastOf(stateSignals') = p
          /\ Clearing' = Clearing /\ Removing' = Removing
      BY <3>1, <3>4, EmitsNoEnd DEF WifiInv, p
    <3>6. nmActive \in Ssids /\ nmActive # NoSsid
      BY <3>1 DEF WifiInv, WifiTypes, DeviceInv
    <3> QED BY <3>1, <3>2, <3>5, <3>6 DEF NmUp, p
  <2>2. CASE NmChange
    <3>1. CASE Down /\ (Emit(Refused) \/ Emit(Vanished) \/ Emit(Lost))
      BY <3>1, LossesDown DEF WifiInv
    <3>2. CASE nmDevice = "down" /\ \E ssid \in nmSaved : Begin(ssid)
      <4>1. PICK ssid \in nmSaved : Begin(ssid)
        BY <3>2
      <4>2. ssid \in Ssids
        BY DEF WifiInv, WifiTypes
      <4> QED BY <3>2, <4>1, <4>2, BeginsUp DEF WifiInv
    <3> QED BY <2>2, <3>1, <3>2 DEF NmChange
  <2> QED BY <2>1, <2>2
<1>3. stateSignals' # <<>>
  BY <1>2 DEF NmUp, NmDown
<1>4. WifiTypes'
  BY WifiTypesStep DEF WifiInv, WifiNext
<1>5. DeviceInv'
  BY <1>1, <1>2 DEF WifiInv, DeviceInv, NmUp, NmDown, Endings
<1>6. ConnInv'
  BY <1>1, <1>3 DEF WifiInv, ConnInv
<1>7. TasksInv' /\ SyncInv' /\ RestInv'
  BY <1>1, <1>3 DEF TasksInv, SyncInv, RestInv
<1>8. FitsInv'
  <2>1. ~Activating
    BY <1>1 DEF Activating
  <2> SUFFICES ASSUME ~Clearing'
               PROVE  /\ Fits(wifiState.ssid)'
                      /\ monitor.pc # "idle" /\ monitor.fresh => Fits(monitor.shown.ssid)'
    BY <1>1 DEF FitsInv
  <2>2. NmUp /\ ~Clearing /\ Removing' = Removing
    BY <1>2 DEF NmUp, NmDown
  <2>3. /\ Fits(wifiState.ssid)
        /\ monitor.pc # "idle" /\ monitor.fresh => Fits(monitor.shown.ssid)
    BY <1>1, <2>1, <2>2 DEF WifiInv, FitsInv
  <2>4. nmActive \in {NoSsid, nmActive'}
    BY <1>2, <2>2 DEF WifiInv, DeviceInv, NmDown
  <2>5. \A ssid : Fits(ssid) => ssid \in {NoSsid, nmActive'} \/ (Removing' /\ ssid \notin nmSaved')
    BY <1>1, <2>2, <2>4 DEF Fits
  <2> QED BY <1>1, <2>3, <2>5 DEF Fits
<1> QED BY <1>4, <1>5, <1>6, <1>7, <1>8 DEF WifiInv

\* What the user taps; and the settings being opened.
LEMMA UserKeepsWifi ==
  ASSUME WifiInv, WifiHappens = {}, Tap \/ OpenSettings
  PROVE  WifiInv'
<1>1. /\ tasks = {} /\ stateSignals = <<>>
      /\ UNCHANGED <<nmVars, signalVars, connections>>
  BY DEF Tap, OpenSettings, Settled
<1>2. DeviceInv'
  BY <1>1 DEF WifiInv, DeviceInv, nmVars, signalVars
<1>3. ConnInv'
  BY <1>1 DEF WifiInv, ConnInv, nmVars, signalVars
<1>4. CASE OpenSettings
  <2>1. /\ monitor.pc = "idle" /\ UNCHANGED <<monitor, wifiState, tasks>>
        /\ sync' = Lookup("connection", Shown(NoSsid, StatusOf[nmDevice]))
    BY <1>4 DEF OpenSettings, Settled, BeginSync
  <2>2. StatusOf[nmDevice] \in Statuses
    BY DEF WifiInv, WifiTypes, StatusOf, Statuses
  <2>3. /\ sync'.pc = "connection" /\ sync'.fresh /\ sync'.shown.status = StatusOf[nmDevice]
    BY <2>1, <2>2 DEF Lookup, Shown, ShownNetworks
  <2>4. WifiTypes'
    BY WifiTypesStep DEF WifiInv, WifiNext
  <2>5. TasksInv' /\ SyncInv' /\ FitsInv' /\ RestInv'
    BY <1>1, <2>1, <2>3 DEF TasksInv, SyncInv, FitsInv, RestInv, nmVars, signalVars
  <2> QED BY <1>2, <1>3, <2>4, <2>5 DEF WifiInv
<1>5. CASE Tap
  <2>1. PICK ssid \in Ssids, kind \in {"connect", "activate", "forget", "deactivate"} :
          /\ (kind = "connect") <=> ssid \notin connections
          /\ tasks' = {[kind |-> kind, ssid |-> ssid]}
          /\ IF kind \in {"connect", "activate"}
             THEN SetConnecting(ssid)
             ELSE UNCHANGED <<wifiState, monitor, sync>>
    BY <1>1, <1>5 DEF Tap
  <2> DEFINE task == [kind |-> kind, ssid |-> ssid]
  <2>2. /\ tasks' = {task} /\ task.kind = kind /\ task.ssid = ssid
        /\ task \in [kind : {"connect", "add", "activate", "forget", "deactivate"}, ssid : Ssids]
    BY <2>1
  <2> HIDE DEF task
  <2>3. ~Activating /\ (Activating' <=> kind \in {"connect", "activate"})
    BY <1>1, <2>1, <2>2 DEF Activating, Activates
  <2>4. CASE kind \in {"connect", "activate"}
    <3>1. /\ wifiState' = Shown(ssid, "connecting") /\ sync' = Stale(sync) /\ monitor' = Stale(monitor)
      BY <2>1, <2>4, WifiAssumption DEF SetConnecting
    <3>2. wifiState' \in ShownNetworks /\ wifiState'.ssid = ssid
      BY <3>1 DEF Shown, ShownNetworks, Statuses
    <3>3. /\ sync' \in [pc : {"idle", "connection", "write"}, shown : ShownNetworks, fresh : BOOLEAN]
          /\ sync'.pc = sync.pc /\ (sync.pc # "idle" => ~sync'.fresh)
      <4>1. sync \in [pc : {"idle", "connection", "write"}, shown : ShownNetworks, fresh : BOOLEAN]
        BY DEF WifiInv, WifiTypes
      <4> QED BY <3>1, <4>1 DEF Stale
    <3>4. /\ monitor' \in [pc : {"idle", "preparing", "activated", "write"}, shown : ShownNetworks, fresh : BOOLEAN]
          /\ monitor'.pc = monitor.pc /\ (monitor.pc # "idle" => ~monitor'.fresh)
      <4>1. monitor \in [pc : {"idle", "preparing", "activated", "write"}, shown : ShownNetworks, fresh : BOOLEAN]
        BY DEF WifiInv, WifiTypes
      <4> QED BY <3>1, <4>1 DEF Stale
    <3>5. WifiTypes'
      BY WifiTypesStep DEF WifiInv, WifiNext
    <3>6. TasksInv'
      BY <1>1, <2>1, <2>2, <3>2, <3>3, <3>4 DEF TasksInv, Activates, nmVars, signalVars
    <3>7. SyncInv'
      BY <1>1, <2>3, <2>4, <3>3, <3>4 DEF WifiInv, SyncInv, nmVars, signalVars
    <3>8. FitsInv' /\ RestInv'
      BY <2>3, <2>4 DEF FitsInv, RestInv
    <3> QED BY <1>2, <1>3, <3>5, <3>6, <3>7, <3>8 DEF WifiInv
  <2>5. CASE kind \notin {"connect", "activate"}
    <3>1. UNCHANGED <<wifiState, monitor, sync>> /\ ~Activating'
      BY <2>1, <2>3, <2>5
    <3>2. WifiTypes'
      BY WifiTypesStep DEF WifiInv, WifiNext
    <3>3. TasksInv'
      BY <1>1, <2>1, <2>2, <2>5 DEF TasksInv, Activates, nmVars, signalVars
    <3>4. SyncInv' /\ RestInv'
      BY <1>1, <2>3, <3>1 DEF WifiInv, SyncInv, RestInv, nmVars, signalVars
    <3>5. FitsInv'
      BY <1>1, <2>3, <3>1 DEF WifiInv, FitsInv, Fits, Clearing, Removing, nmVars, signalVars
    <3> QED BY <1>2, <1>3, <3>2, <3>3, <3>4, <3>5 DEF WifiInv
  <2> QED BY <2>4, <2>5
<1> QED BY <1>4, <1>5

\* What a lookup finds: with no new connection on its way, the active one is known.
LEMMA ActiveIsKnown ==
  ASSUME WifiInv, nmActive # NoSsid, \A i \in DOMAIN connSignals : ~connSignals[i].added
  PROVE  nmActive \in connections
<1>1. nmActive \in Ssids /\ nmActive \in nmSaved
  BY DEF WifiInv, WifiTypes, DeviceInv
<1>2. \A i \in DOMAIN connSignals : connSignals[i].ssid # nmActive
  BY <1>1 DEF WifiInv, ConnInv
<1> QED BY <1>1, <1>2 DEF WifiInv, ConnInv

\* _init_wifi_state goes on.
LEMMA SyncKeepsWifi ==
  ASSUME WifiInv, SyncStep
  PROVE  WifiInv'
<1>1. /\ stateSignals = <<>> /\ monitor.pc = "idle" /\ sync.pc # "idle"
      /\ UNCHANGED <<nmVars, signalVars, connections, monitor, tasks>>
  BY DEF SyncStep, WifiInv, SyncInv
<1>2. sync \in [pc : {"idle", "connection", "write"}, shown : ShownNetworks, fresh : BOOLEAN]
  BY DEF WifiInv, WifiTypes
<1>3. DeviceInv' /\ ConnInv'
  BY <1>1 DEF WifiInv, DeviceInv, ConnInv, nmVars, signalVars
<1>4. Activating' <=> Activating
  BY <1>1 DEF Activating
<1>5. CASE sync.pc = "connection"
  <2> DEFINE ssid == IF nmActive \in connections THEN nmActive ELSE NoSsid
  <2>1. sync' = [sync EXCEPT !.pc = "write", !.shown.ssid = ssid] /\ UNCHANGED wifiState
    BY <1>5 DEF SyncStep
  <2>2. ssid = nmActive
    <3>1. \A i \in DOMAIN connSignals : ~connSignals[i].added
      BY <1>1 DEF WifiInv, ConnInv
    <3> QED BY <3>1, ActiveIsKnown
  <2>3. ssid \in Ssids \cup {NoSsid}
    BY <2>2 DEF WifiInv, WifiTypes
  <2> HIDE DEF ssid
  <2>4. /\ sync' \in [pc : {"idle", "connection", "write"}, shown : ShownNetworks, fresh : BOOLEAN]
        /\ sync'.pc = "write" /\ sync'.fresh = sync.fresh
        /\ sync'.shown.ssid = ssid /\ sync'.shown.status = sync.shown.status
    BY <1>2, <2>1, <2>3 DEF ShownNetworks
  <2>5. WifiTypes'
    BY WifiTypesStep DEF WifiInv, WifiNext
  <2>6. TasksInv'
    BY <1>1, <2>1, <2>4 DEF WifiInv, TasksInv, nmVars, signalVars
  <2>7. SyncInv'
    BY <1>1, <1>4, <2>2, <2>4 DEF WifiInv, SyncInv, nmVars, signalVars
  <2>8. FitsInv' /\ RestInv'
    <3>1. ~sync'.fresh => Activating'
      BY <1>1, <1>4, <2>4 DEF WifiInv, SyncInv
    <3> QED BY <2>4, <3>1 DEF FitsInv, RestInv
  <2> QED BY <1>3, <2>5, <2>6, <2>7, <2>8 DEF WifiInv
<1>6. CASE sync.pc = "write"
  <2>1. sync' = NoLookup /\ wifiState' = IF sync.fresh THEN sync.shown ELSE wifiState
    BY <1>6 DEF SyncStep
  <2>2. /\ sync'.pc = "idle"
    BY <2>1 DEF NoLookup, Shown, ShownNetworks, Statuses
  <2>3. WifiTypes'
    BY WifiTypesStep DEF WifiInv, WifiNext
  <2>4. SyncInv'
    BY <2>2 DEF SyncInv
  <2>5. CASE sync.fresh
    <3>1. ~Activating
      BY <1>1, <2>5 DEF WifiInv, TasksInv, Activating
    <3>2. TasksInv'
      BY <1>1, <3>1, <1>4 DEF WifiInv, TasksInv, Activating, nmVars, signalVars
    <3>3. wifiState' = Shown(nmActive, StatusOf[nmDevice])
      <4>1. sync.shown.status = StatusOf[nmDevice] /\ sync.shown.ssid = nmActive
        BY <1>6, <2>5 DEF WifiInv, SyncInv
      <4>2. sync.shown \in ShownNetworks
        BY <1>2
      <4> QED BY <2>1, <2>5, <4>1, <4>2, ShownEqual
    <3>4. FitsInv' /\ RestInv'
      BY <1>1, <3>3 DEF FitsInv, RestInv, Fits, Shown, nmVars, signalVars
    <3> QED BY <1>3, <2>3, <2>4, <3>2, <3>4 DEF WifiInv
  <2>6. CASE ~sync.fresh
    <3>1. Activating'
      BY <1>1, <1>4, <2>6 DEF WifiInv, SyncInv
    <3>2. TasksInv'
      BY <1>1, <2>1, <2>2, <2>6 DEF WifiInv, TasksInv, nmVars, signalVars
    <3>3. FitsInv' /\ RestInv'
      BY <3>1 DEF FitsInv, RestInv
    <3> QED BY <1>3, <2>3, <2>4, <3>2, <3>3 DEF WifiInv
  <2> QED BY <2>5, <2>6
<1> QED BY <1>1, <1>2, <1>5, <1>6 DEF SyncStep

\* The monitor's own lookup goes on.
LEMMA LookupKeepsWifi ==
  ASSUME WifiInv, MonitorLookup
  PROVE  WifiInv'
<1>1. /\ monitor.pc # "idle" /\ UNCHANGED <<nmVars, signalVars, connections, sync, tasks>>
  BY DEF MonitorLookup
<1>2. monitor \in [pc : {"idle", "preparing", "activated", "write"}, shown : ShownNetworks, fresh : BOOLEAN]
  BY DEF WifiInv, WifiTypes
<1>3. sync.pc = "idle"
  BY <1>1 DEF WifiInv, SyncInv
<1>4. DeviceInv' /\ SyncInv'
  BY <1>1, <1>3 DEF WifiInv, DeviceInv, SyncInv, nmVars, signalVars
<1>5. (Activating' <=> Activating) /\ (Clearing' <=> Clearing) /\ \A ssid : Fits(ssid)' <=> Fits(ssid)
  BY <1>1 DEF Activating, Clearing, Removing, Fits, nmVars, signalVars
<1>6. CASE monitor.pc \in {"preparing", "activated"}
  <2> DEFINE ssid == IF nmActive = NoSsid THEN monitor.shown.ssid
                     ELSE IF nmActive \in connections THEN nmActive ELSE NoSsid
  <2>1. monitor' = [monitor EXCEPT !.pc = "write", !.shown.ssid = ssid] /\ UNCHANGED wifiState
    BY <1>2, <1>6 DEF MonitorLookup
  <2>2. ssid \in Ssids \cup {NoSsid} /\ ssid \in {monitor.shown.ssid, NoSsid, nmActive}
    BY <1>2 DEF WifiInv, WifiTypes, ShownNetworks
  <2>3. stateSignals = <<>> /\ ~Activating /\ nmDevice # "down" => ssid = nmActive
    <3>1. stateSignals = <<>> => \A i \in DOMAIN connSignals : ~connSignals[i].added
      BY DEF WifiInv, ConnInv
    <3>2. nmDevice # "down" => nmActive # NoSsid
      BY DEF WifiInv, DeviceInv
    <3> QED BY <3>1, <3>2, ActiveIsKnown
  <2> HIDE DEF ssid
  <2>4. /\ monitor' \in [pc : {"idle", "preparing", "activated", "write"}, shown : ShownNetworks, fresh : BOOLEAN]
        /\ monitor'.pc = "write" /\ monitor'.fresh = monitor.fresh
        /\ monitor'.shown.ssid = ssid /\ monitor'.shown.status = monitor.shown.status
    BY <1>2, <2>1, <2>2 DEF ShownNetworks
  <2>5. WifiTypes'
    BY WifiTypesStep DEF WifiInv, WifiNext
  <2>6. TasksInv' /\ ConnInv'
    BY <1>1, <2>1, <2>4 DEF WifiInv, TasksInv, ConnInv, nmVars, signalVars
  <2>7. FitsInv'
    <3>1. Fits(NoSsid) /\ Fits(nmActive)
      BY DEF Fits
    <3> QED BY <1>1, <1>3, <1>5, <2>1, <2>2, <2>4, <3>1 DEF WifiInv, FitsInv
  <2>8. RestInv'
    BY <1>1, <1>3, <1>5, <2>3, <2>4 DEF WifiInv, RestInv, nmVars, signalVars
  <2> QED BY <1>4, <2>5, <2>6, <2>7, <2>8 DEF WifiInv
<1>7. CASE monitor.pc = "write"
  <2>1. monitor' = NoLookup /\ wifiState' = IF monitor.fresh THEN monitor.shown ELSE wifiState
    BY <1>7 DEF MonitorLookup
  <2>2. /\ monitor'.pc = "idle"
    BY <2>1 DEF NoLookup, Shown, ShownNetworks, Statuses
  <2>3. WifiTypes'
    BY WifiTypesStep DEF WifiInv, WifiNext
  <2>4. ConnInv'
    BY <1>1, <2>2 DEF WifiInv, ConnInv, nmVars, signalVars
  <2>5. TasksInv'
    BY <1>1, <2>1, <2>2 DEF WifiInv, TasksInv, nmVars, signalVars
  <2>6. FitsInv'
    BY <1>1, <1>3, <1>5, <2>1, <2>2 DEF WifiInv, FitsInv
  <2>7. RestInv'
    <3> SUFFICES ASSUME stateSignals = <<>>, ~Activating
                 PROVE  wifiState' = Shown(nmActive, StatusOf[nmDevice])
      BY <1>1, <1>5, <2>2 DEF RestInv, nmVars, signalVars
    <3>1. /\ monitor.fresh /\ monitor.shown.status = StatusOf[nmDevice] /\ monitor.shown.ssid = nmActive
      BY <1>3, <1>7 DEF WifiInv, RestInv
    <3>2. monitor.shown \in ShownNetworks
      BY <1>2
    <3> QED BY <2>1, <3>1, <3>2, ShownEqual
  <2> QED BY <1>4, <2>3, <2>4, <2>5, <2>6, <2>7 DEF WifiInv
<1> QED BY <1>1, <1>2, <1>6, <1>7

\* A signal of the connections.
LEMMA ConnectionsKeepWifi ==
  ASSUME WifiInv, ConnectionSignal
  PROVE  WifiInv'
<1> DEFINE R == [added : BOOLEAN, ssid : Ssids]
           h == connSignals[1]
<1>1. /\ connSignals \in Seq(R) /\ connSignals # <<>> /\ connSignals' = Tail(connSignals)
      /\ UNCHANGED <<nmVars, stateSignals, wifiState, monitor, sync, tasks>>
  BY DEF ConnectionSignal, WifiInv, WifiTypes
<1>2. /\ Head(connSignals) = h /\ Len(connSignals) \in Nat \ {0} /\ DOMAIN connSignals = 1..Len(connSignals)
      /\ connSignals' \in Seq(R) /\ Len(connSignals') = Len(connSignals) - 1
      /\ DOMAIN connSignals' = 1..Len(connSignals')
  BY <1>1
<1>3. h \in R
  <2>1. 1 \in DOMAIN connSignals
    BY <1>2
  <2> QED BY <1>1, <2>1, ElementType
<1>4. \A i \in DOMAIN connSignals' : /\ connSignals'[i] = connSignals[i + 1]
                                     /\ i + 1 \in DOMAIN connSignals /\ i + 1 # 1
  <2>1. \A i \in 1..Len(connSignals') : connSignals'[i] = connSignals[i + 1]
    BY <1>1
  <2> QED BY <1>2, <2>1
<1>5. \A i \in DOMAIN connSignals : i = 1 \/ (i - 1 \in DOMAIN connSignals' /\ connSignals'[i - 1] = connSignals[i])
  <2>1. \A i \in DOMAIN connSignals : i = 1 \/ (i - 1 \in DOMAIN connSignals' /\ (i - 1) + 1 = i)
    BY <1>2
  <2> QED BY <1>4, <2>1
<1>6. connections' = IF h.added THEN connections \cup {h.ssid} ELSE connections \ {h.ssid}
  BY <1>2 DEF ConnectionSignal
<1>7. h.ssid \in Ssids /\ 1 \in DOMAIN connSignals
  BY <1>2, <1>3
<1> HIDE DEF h, R
<1>8. WifiTypes'
  BY WifiTypesStep DEF WifiInv, WifiNext
<1>9. \A i \in DOMAIN connSignals' : connSignals'[i].ssid # h.ssid
  BY <1>4, <1>7 DEF WifiInv, ConnInv, h
<1>10. ConnInv'
  <2>1. \A i, j \in DOMAIN connSignals' : connSignals'[i].ssid = connSignals'[j].ssid => i = j
    <3> SUFFICES ASSUME NEW i \in DOMAIN connSignals', NEW j \in DOMAIN connSignals',
                        connSignals'[i].ssid = connSignals'[j].ssid
                 PROVE  i = j
      OBVIOUS
    <3>1. i + 1 = j + 1
      BY <1>4 DEF WifiInv, ConnInv
    <3> QED BY <3>1, <1>2
  <2>2. \A i \in DOMAIN connSignals' :
          IF connSignals'[i].added
          THEN connSignals'[i].ssid \in nmSaved /\ connSignals'[i].ssid \notin connections'
          ELSE connSignals'[i].ssid \notin nmSaved /\ connSignals'[i].ssid \in connections'
    BY <1>4, <1>6, <1>9 DEF WifiInv, ConnInv
  <2>3. ASSUME NEW ssid \in Ssids, \A i \in DOMAIN connSignals' : connSignals'[i].ssid # ssid
        PROVE  ssid \in connections' <=> ssid \in nmSaved
    <3>1. CASE ssid = h.ssid
      BY <3>1, <1>6, <1>7 DEF WifiInv, ConnInv, h
    <3>2. CASE ssid # h.ssid
      <4>1. \A i \in DOMAIN connSignals : connSignals[i].ssid # ssid
        BY <1>5, <2>3, <3>2 DEF h
      <4> QED BY <3>2, <4>1, <1>6 DEF WifiInv, ConnInv
    <3> QED BY <3>1, <3>2
  <2>4. stateSignals' = <<>> \/ (monitor'.pc # "idle" /\ monitor'.fresh)
          => \A i \in DOMAIN connSignals' : ~connSignals'[i].added
    BY <1>1, <1>4 DEF WifiInv, ConnInv
  <2>5. nmSaved' = nmSaved
    BY <1>1 DEF nmVars
  <2> QED BY <2>1, <2>2, <2>3, <2>4, <2>5 DEF ConnInv
<1>11. TasksInv'
  <2>1. tasks # {} => connections' \subseteq connections
    BY <1>6, <1>7 DEF WifiInv, TasksInv, ConnInv, h
  <2> QED BY <1>1, <2>1 DEF WifiInv, TasksInv
<1>12. DeviceInv' /\ SyncInv' /\ FitsInv' /\ RestInv'
  <2>1. DeviceInv'
    BY <1>1 DEF WifiInv, DeviceInv, nmVars
  <2>2. SyncInv'
    BY <1>1 DEF WifiInv, SyncInv, Activating, nmVars
  <2>3. FitsInv'
    BY <1>1 DEF WifiInv, FitsInv, Fits, Activating, Clearing, Removing, nmVars
  <2>4. RestInv'
    BY <1>1 DEF WifiInv, RestInv, Activating, nmVars
  <2> QED BY <2>1, <2>2, <2>3, <2>4
<1> QED BY <1>8, <1>10, <1>11, <1>12 DEF WifiInv

\* A signal of the device: what is shown stays, is cleared, or is that of the network shown.
LEMMA SignalShows ==
  ASSUME WifiInv, WifiHappens = {}, StateSignal
  PROVE  /\ stateSignals # <<>> /\ stateSignals' = Tail(stateSignals) /\ connSignals = <<>>
         /\ tasks = {} /\ sync.pc = "idle" /\ monitor.pc = "idle"
         /\ UNCHANGED <<nmVars, connSignals, connections, tasks>>
         /\ sync' = sync
         /\ LET s == Head(stateSignals) IN
            \/ wifiState' = Shown(NoSsid, "disconnected") /\ monitor' = monitor
               /\ s.to \notin {"prepare", "config", "activated"}
            \/ wifiState' = wifiState /\ monitor' = monitor /\ s \notin {Ended("none"), Ended("userRequested")}
               /\ (s = Ended("connectionRemoved") => wifiState.ssid \in connections)
               /\ s.to \notin {"prepare", "config", "activated"}
            \/ wifiState' = [wifiState EXCEPT !.status = "connecting"] /\ monitor' = monitor
               /\ wifiState.ssid # NoSsid /\ s.to \in {"prepare", "config"}
            \/ wifiState' = wifiState /\ monitor' = Lookup("preparing", Shown(NoSsid, "connecting"))
               /\ wifiState.ssid = NoSsid /\ s.to \in {"prepare", "config"}
            \/ wifiState' = wifiState /\ monitor' = Lookup("activated", Shown(wifiState.ssid, "connected"))
               /\ s.to = "activated"
<1>1. /\ stateSignals # <<>> /\ stateSignals' = Tail(stateSignals) /\ connSignals = <<>> /\ monitor.pc = "idle"
      /\ UNCHANGED <<nmVars, connSignals, connections, tasks>>
  BY DEF StateSignal
<1>2. tasks = {} /\ sync.pc = "idle"
  BY <1>1 DEF WifiInv, TasksInv, SyncInv
<1> DEFINE s == Head(stateSignals)
<1>3. /\ Ended("none").to = "disconnected" /\ Ended("none").why = "none"
      /\ Ended("userRequested").to = "disconnected" /\ Ended("userRequested").why = "userRequested"
      /\ Ended("connectionRemoved").to = "disconnected" /\ Ended("connectionRemoved").why = "connectionRemoved"
  BY DEF Ended, Signal
<1>4. Stale(sync) = sync /\ Stale(monitor) = monitor
  BY <1>1, <1>2 DEF Stale
<1>5. ClearShown => wifiState' = Shown(NoSsid, "disconnected") /\ sync' = sync /\ monitor' = monitor
  BY <1>4 DEF ClearShown, SetConnecting
<1>6. Ignore => wifiState' = wifiState /\ sync' = sync /\ monitor' = monitor
  BY DEF Ignore
<1>7. \/ s.to = "disconnected" /\ Disconnected(s.why)
      \/ s.to \in {"prepare", "config"} /\ Preparing
      \/ s.to \in {"needAuth", "failed", "deactivating"} /\ (ClearShown \/ Ignore)
      \/ s.to = "activated" /\ Activated
  BY DEF StateSignal, Refusal, Deactivating
<1> HIDE DEF s
<1>8. CASE s.to = "disconnected" /\ Disconnected(s.why)
  <2>1. ClearShown \/ (Ignore /\ (s.why = "newActivation" \/ (s.why = "connectionRemoved" /\ wifiState.ssid \in connections)))
    BY <1>8 DEF Disconnected
  <2>2. CASE ClearShown
    BY <2>2, <1>1, <1>2, <1>5, <1>8 DEF s
  <2>3. CASE Ignore /\ s.why = "newActivation"
    <3>1. s \notin {Ended("none"), Ended("userRequested"), Ended("connectionRemoved")}
      BY <2>3, <1>3
    <3> QED BY <2>3, <3>1, <1>1, <1>2, <1>6, <1>8 DEF s
  <2>4. CASE Ignore /\ s.why = "connectionRemoved" /\ wifiState.ssid \in connections
    <3>1. s \notin {Ended("none"), Ended("userRequested")}
      BY <2>4, <1>3
    <3> QED BY <2>4, <3>1, <1>1, <1>2, <1>6, <1>8 DEF s
  <2> QED BY <2>1, <2>2, <2>3, <2>4
<1>9. CASE s.to \in {"prepare", "config"} /\ Preparing
  BY <1>9, <1>1, <1>2 DEF Preparing, s
<1>10. CASE s.to \in {"needAuth", "failed", "deactivating"} /\ (ClearShown \/ Ignore)
  <2>1. s \notin {Ended("none"), Ended("userRequested"), Ended("connectionRemoved")}
    BY <1>3, <1>10
  <2> QED BY <2>1, <1>1, <1>2, <1>5, <1>6, <1>10 DEF s
<1>11. CASE s.to = "activated" /\ Activated
  BY <1>11, <1>1, <1>2 DEF Activated, s
<1> QED BY <1>7, <1>8, <1>9, <1>10, <1>11

LEMMA SignalsKeepWifi ==
  ASSUME WifiInv, WifiHappens = {}, StateSignal
  PROVE  WifiInv'
<1> DEFINE s == Head(stateSignals)
<1>1. /\ stateSignals # <<>> /\ stateSignals' = Tail(stateSignals) /\ connSignals = <<>>
      /\ tasks = {} /\ sync.pc = "idle" /\ monitor.pc = "idle"
      /\ UNCHANGED <<nmVars, connSignals, connections, tasks>>
      /\ sync' = sync
  BY SignalShows
<1>2. \/ wifiState' = Shown(NoSsid, "disconnected") /\ monitor' = monitor
         /\ s.to \notin {"prepare", "config", "activated"}
      \/ wifiState' = wifiState /\ monitor' = monitor /\ s \notin {Ended("none"), Ended("userRequested")}
         /\ (s = Ended("connectionRemoved") => wifiState.ssid \in connections)
         /\ s.to \notin {"prepare", "config", "activated"}
      \/ wifiState' = [wifiState EXCEPT !.status = "connecting"] /\ monitor' = monitor
         /\ wifiState.ssid # NoSsid /\ s.to \in {"prepare", "config"}
      \/ wifiState' = wifiState /\ monitor' = Lookup("preparing", Shown(NoSsid, "connecting"))
         /\ wifiState.ssid = NoSsid /\ s.to \in {"prepare", "config"}
      \/ wifiState' = wifiState /\ monitor' = Lookup("activated", Shown(wifiState.ssid, "connected"))
         /\ s.to = "activated"
  BY SignalShows
<1>3. /\ s \in NmSignals /\ stateSignals' \in Seq(NmSignals)
      /\ stateSignals' = <<>> => LastOf(stateSignals) = s
      /\ stateSignals' # <<>> => LastOf(stateSignals') = LastOf(stateSignals)
      /\ \A e : WaitsIn(stateSignals, e) <=> s = e \/ WaitsIn(stateSignals', e)
  BY <1>1, SignalTaken DEF WifiInv, WifiTypes
<1> HIDE DEF s
<1>4. connections = nmSaved
  <2>1. connections \subseteq Ssids /\ nmSaved \subseteq Ssids
    BY DEF WifiInv, WifiTypes
  <2>2. \A ssid \in Ssids : ssid \in connections <=> ssid \in nmSaved
    BY <1>1 DEF WifiInv, ConnInv
  <2> QED BY <2>1, <2>2
<1>5. /\ wifiState \in ShownNetworks /\ nmActive \in Ssids \cup {NoSsid} /\ NoSsid \notin Ssids
      /\ nmSaved \subseteq Ssids
      /\ monitor \in [pc : {"idle", "preparing", "activated", "write"}, shown : ShownNetworks, fresh : BOOLEAN]
  BY WifiAssumption DEF WifiInv, WifiTypes
<1>6. wifiState' \in ShownNetworks /\ wifiState'.ssid \in {NoSsid, wifiState.ssid}
  <2>1. CASE wifiState' = Shown(NoSsid, "disconnected")
    BY <2>1 DEF ShownNetworks, Shown, Statuses
  <2>2. CASE wifiState' = [wifiState EXCEPT !.status = "connecting"]
    BY <2>2, <1>5 DEF ShownNetworks, Statuses
  <2>3. CASE wifiState' = wifiState
    BY <2>3, <1>5
  <2> QED BY <1>2, <2>1, <2>2, <2>3
<1>7. \/ monitor' = monitor
      \/ /\ monitor'.fresh /\ monitor'.shown \in ShownNetworks /\ monitor'.shown.ssid \in {NoSsid, wifiState.ssid}
         /\ monitor'.pc \in {"preparing", "activated"}
  <2>1. \A ssid \in Ssids \cup {NoSsid}, status \in Statuses :
           Shown(ssid, status) \in ShownNetworks /\ Shown(ssid, status).ssid = ssid
    BY DEF Shown, ShownNetworks
  <2>2. wifiState.ssid \in Ssids \cup {NoSsid} /\ {"connecting", "connected"} \subseteq Statuses
    BY <1>5 DEF ShownNetworks, Statuses
  <2>3. \A shown \in ShownNetworks, pc \in {"preparing", "activated"} :
          /\ Lookup(pc, shown).fresh /\ Lookup(pc, shown).shown = shown /\ Lookup(pc, shown).pc = pc
          /\ Lookup(pc, shown) \in [pc : {"idle", "preparing", "activated", "write"}, shown : ShownNetworks, fresh : BOOLEAN]
    BY DEF Lookup
  <2> QED BY <1>2, <2>1, <2>2, <2>3
<1>8. WifiTypes'
  BY WifiTypesStep DEF WifiInv, WifiNext
<1>9. DeviceInv'
  BY <1>1, <1>3 DEF WifiInv, DeviceInv, nmVars
<1>10. ConnInv'
  BY <1>1, <1>4 DEF ConnInv, nmVars
<1>11. TasksInv' /\ SyncInv'
  BY <1>1 DEF TasksInv, SyncInv
<1>12. ~Activating /\ ~Activating'
  BY <1>1 DEF Activating
<1>13. ASSUME ~Clearing'
       PROVE  Fits(wifiState.ssid)' \/ (wifiState' = Shown(NoSsid, "disconnected") /\ monitor' = monitor)
  <2> SUFFICES ASSUME ~(wifiState' = Shown(NoSsid, "disconnected") /\ monitor' = monitor)
               PROVE  wifiState'.ssid \in {NoSsid, nmActive} \/ (Removing' /\ wifiState'.ssid \notin nmSaved)
    BY <1>1 DEF Fits, nmVars
  <2>1. s \notin {Ended("none"), Ended("userRequested")}
    BY <1>2 DEF Ended, Signal
  <2>2. ~Clearing
    BY <1>3, <1>13, <2>1 DEF Clearing
  <2>3. Fits(wifiState.ssid)
    BY <1>1, <1>12, <2>2 DEF WifiInv, FitsInv
  <2>4. CASE s = Ended("connectionRemoved")
    <3>1. wifiState' = wifiState /\ wifiState.ssid \in nmSaved
      BY <1>2, <1>4, <2>4 DEF Ended, Signal
    <3> QED BY <2>3, <3>1 DEF Fits
  <2>5. CASE s # Ended("connectionRemoved")
    <3>1. Removing' <=> Removing
      BY <1>3, <2>5 DEF Removing
    <3> QED BY <1>6, <2>3, <3>1 DEF Fits
  <2> QED BY <2>4, <2>5
<1>14. FitsInv'
  <2> SUFFICES ASSUME ~Clearing'
               PROVE  /\ Fits(wifiState.ssid)'
                      /\ monitor'.pc # "idle" /\ monitor'.fresh => Fits(monitor.shown.ssid)'
    BY DEF FitsInv
  <2>1. Fits(NoSsid)'
    BY DEF Fits
  <2>2. Fits(wifiState.ssid)'
    BY <1>13, <2>1 DEF Shown, Fits
  <2>3. monitor'.pc # "idle" => monitor'.shown.ssid \in {NoSsid, wifiState.ssid} /\ wifiState' = wifiState
    BY <1>1, <1>2, <1>7 DEF Lookup
  <2>4. monitor'.pc # "idle" => Fits(monitor.shown.ssid)'
    BY <2>2, <2>3 DEF Fits
  <2> QED BY <2>2, <2>4
<1>15. RestInv'
  <2> SUFFICES ASSUME stateSignals' = <<>>
               PROVE  IF monitor'.pc = "idle" THEN wifiState' = Shown(nmActive, StatusOf[nmDevice])
                      ELSE /\ monitor'.fresh /\ nmDevice # "down" /\ monitor'.shown.status = StatusOf[nmDevice]
                           /\ monitor'.pc = "write" => monitor'.shown.ssid = nmActive
    BY <1>1 DEF RestInv, nmVars
  <2>1. ~Clearing' /\ ~Removing'
    BY DEF Clearing, Removing, WaitsIn
  <2>2. IF nmDevice = "down" THEN s \in Endings ELSE s.to = nmDevice
    BY <1>1, <1>3 DEF WifiInv, DeviceInv
  <2>3. wifiState'.ssid \in {NoSsid, nmActive} \/ (wifiState' = Shown(NoSsid, "disconnected") /\ monitor' = monitor)
    BY <1>1, <1>13, <2>1 DEF Fits, nmVars
  <2>4. CASE nmDevice = "down"
    <3>1. nmActive = NoSsid
      BY <2>4 DEF WifiInv, DeviceInv
    <3>2. s.to = "disconnected"
      BY <2>2, <2>4 DEF Endings, Ended, Signal
    <3>3. wifiState' = Shown(NoSsid, "disconnected") /\ monitor' = monitor
      <4> SUFFICES ASSUME ~(wifiState' = Shown(NoSsid, "disconnected") /\ monitor' = monitor)
                   PROVE  FALSE
        OBVIOUS
      <4>1. wifiState' = wifiState /\ s \notin {Ended("none"), Ended("userRequested")}
        BY <1>2, <3>2
      <4>2. s = Ended("connectionRemoved")
        BY <2>2, <2>4, <4>1 DEF Endings
      <4>3. wifiState.ssid \in Ssids
        BY <1>2, <1>4, <1>5, <3>2, <4>2
      <4> QED BY <1>5, <2>3, <3>1, <4>1, <4>3
    <3> QED BY <1>1, <2>4, <3>1, <3>3 DEF StatusOf
  <2>5. CASE nmDevice # "down"
    <3>1. nmDevice \in {"prepare", "config", "activated"} /\ s.to = nmDevice
      BY <2>2, <2>5 DEF WifiInv, WifiTypes
    <3>2. CASE wifiState' = [wifiState EXCEPT !.status = "connecting"] /\ monitor' = monitor
               /\ wifiState.ssid # NoSsid /\ s.to \in {"prepare", "config"}
      <4>1. wifiState'.status = "connecting" /\ wifiState'.ssid = wifiState.ssid
        BY <1>5, <3>2 DEF ShownNetworks
      <4>2. wifiState'.ssid = nmActive
        BY <2>3, <3>2, <4>1 DEF Shown
      <4>3. wifiState' = Shown(nmActive, "connecting")
        BY <1>6, <4>1, <4>2, ShownEqual
      <4> QED BY <1>1, <3>1, <3>2, <4>3 DEF StatusOf
    <3>3. CASE monitor' = Lookup("preparing", Shown(NoSsid, "connecting")) /\ s.to \in {"prepare", "config"}
      BY <3>1, <3>3 DEF Lookup, Shown, StatusOf
    <3>4. CASE monitor' = Lookup("activated", Shown(wifiState.ssid, "connected")) /\ s.to = "activated"
      BY <3>1, <3>4 DEF Lookup, Shown, StatusOf
    <3> QED BY <1>2, <3>1, <3>2, <3>3, <3>4
  <2> QED BY <2>4, <2>5
<1> QED BY <1>8, <1>9, <1>10, <1>11, <1>14, <1>15 DEF WifiInv

\* A connection is added or removed: a signal more.
LEMMA ConnectionAppended ==
  ASSUME WifiInv, NEW r \in [added : BOOLEAN, ssid : Ssids], connSignals' = Append(connSignals, r),
         UNCHANGED connections,
         IF r.added THEN r.ssid \notin nmSaved /\ r.ssid \notin connections /\ nmSaved' = nmSaved \cup {r.ssid}
                    ELSE r.ssid \in nmSaved /\ r.ssid \in connections /\ nmSaved' = nmSaved \ {r.ssid},
         stateSignals = <<>>,
         r.added => stateSignals' # <<>> /\ (monitor'.pc = "idle" \/ ~monitor'.fresh)
  PROVE  ConnInv'
<1> DEFINE R == [added : BOOLEAN, ssid : Ssids]
           n == Len(connSignals) + 1
<1>1. connSignals \in Seq(R)
  BY DEF WifiInv, WifiTypes
<1>2. r.ssid \in Ssids /\ r.added \in BOOLEAN
  OBVIOUS
<1> HIDE DEF R
<1>3. /\ connSignals' \in Seq(R) /\ DOMAIN connSignals' = 1..n /\ DOMAIN connSignals = 1..Len(connSignals)
      /\ connSignals'[n] = r /\ Len(connSignals) \in Nat
      /\ \A i \in DOMAIN connSignals : connSignals'[i] = connSignals[i]
  BY <1>1 DEF R
<1>4. DOMAIN connSignals' = DOMAIN connSignals \cup {n} /\ n \notin DOMAIN connSignals
  BY <1>3
<1> HIDE DEF n
<1>5. \A i \in DOMAIN connSignals : ~connSignals[i].added
  BY DEF WifiInv, ConnInv
<1>6. \A i \in DOMAIN connSignals : connSignals[i].ssid # r.ssid
  BY <1>5 DEF WifiInv, ConnInv
<1>7. \A i, j \in DOMAIN connSignals' : connSignals'[i].ssid = connSignals'[j].ssid => i = j
  BY <1>3, <1>4, <1>6 DEF WifiInv, ConnInv
<1>8. \A i \in DOMAIN connSignals' :
        IF connSignals'[i].added
        THEN connSignals'[i].ssid \in nmSaved' /\ connSignals'[i].ssid \notin connections'
        ELSE connSignals'[i].ssid \notin nmSaved' /\ connSignals'[i].ssid \in connections'
  <2>1. ASSUME NEW i \in DOMAIN connSignals
        PROVE  ~connSignals'[i].added /\ connSignals'[i].ssid \notin nmSaved' /\ connSignals'[i].ssid \in connections'
    BY <1>3, <1>5, <1>6 DEF WifiInv, ConnInv
  <2>2. IF connSignals'[n].added
        THEN connSignals'[n].ssid \in nmSaved' /\ connSignals'[n].ssid \notin connections'
        ELSE connSignals'[n].ssid \notin nmSaved' /\ connSignals'[n].ssid \in connections'
    BY <1>3
  <2> QED BY <1>4, <2>1, <2>2
<1>9. ASSUME NEW ssid \in Ssids, \A i \in DOMAIN connSignals' : connSignals'[i].ssid # ssid
      PROVE  ssid \in connections' <=> ssid \in nmSaved'
  <2>1. ssid # r.ssid /\ \A i \in DOMAIN connSignals : connSignals[i].ssid # ssid
    BY <1>3, <1>4, <1>9
  <2>2. ssid \in connections <=> ssid \in nmSaved
    BY <2>1 DEF WifiInv, ConnInv
  <2> QED BY <2>1, <2>2
<1>10. stateSignals' = <<>> \/ (monitor'.pc # "idle" /\ monitor'.fresh)
       => \A i \in DOMAIN connSignals' : ~connSignals'[i].added
  BY <1>3, <1>4, <1>5
<1> QED BY <1>7, <1>8, <1>9, <1>10 DEF ConnInv

\* A worker asks NetworkManager; or, refused, for its state.
LEMMA WorkersKeepWifi ==
  ASSUME WifiInv, WifiHappens = {}, NEW task \in tasks, WorkerStep(task)
  PROVE  WifiInv'
<1>1. /\ stateSignals = <<>> /\ sync.pc = "idle" /\ tasks = {task}
      /\ UNCHANGED <<wifiState, connections, monitor>>
  BY DEF WorkerStep, Quieten, WifiInv, TasksInv
<1>2. /\ task.kind \in {"connect", "add", "activate", "forget", "deactivate"} /\ task.ssid \in Ssids
      /\ task \in [kind : {"connect", "add", "activate", "forget", "deactivate"}, ssid : Ssids]
  BY DEF WifiInv, WifiTypes
<1>3. Activating <=> Activates(task)
  BY <1>1 DEF Activating
<1>4. ~Clearing /\ ~Removing
  BY <1>1 DEF Clearing, Removing, WaitsIn
<1>5. ~Activates(task) =>
        /\ wifiState.ssid \in {NoSsid, nmActive}
        /\ monitor.pc # "idle" /\ monitor.fresh => monitor.shown.ssid \in {NoSsid, nmActive}
  BY <1>1, <1>3, <1>4 DEF WifiInv, FitsInv, Fits
<1>6. CASE task.kind = "connect"
  <2> DEFINE other == [task EXCEPT !.kind = "add"]
  <2>1. /\ UNCHANGED <<nmVars, signalVars, sync>> /\ tasks' = {other}
    BY <1>1, <1>6 DEF WorkerStep, WifiInv, TasksInv
  <2>2. /\ other.kind = "add" /\ other.ssid = task.ssid
        /\ other \in [kind : {"connect", "add", "activate", "forget", "deactivate"}, ssid : Ssids]
    BY <1>2
  <2> HIDE DEF other
  <2>3. Activates(task) /\ Activating'
    BY <1>6, <2>1, <2>2 DEF Activating, Activates
  <2>4. WifiTypes'
    BY WifiTypesStep DEF WifiInv, WifiNext
  <2>5. DeviceInv' /\ ConnInv'
    BY <1>1, <2>1 DEF WifiInv, DeviceInv, ConnInv, nmVars, signalVars
  <2>6. TasksInv'
    BY <1>1, <1>6, <2>1, <2>2, <2>3 DEF WifiInv, TasksInv, signalVars
  <2>7. SyncInv' /\ FitsInv' /\ RestInv'
    BY <1>1, <2>1, <2>3 DEF SyncInv, FitsInv, RestInv
  <2> QED BY <2>4, <2>5, <2>6, <2>7 DEF WifiInv
<1>7. ASSUME task.kind # "connect", tasks' = {}, BeginSync, Settled, UNCHANGED <<nmVars, signalVars>>
      PROVE  WifiInv'
  <2>1. monitor.pc = "idle"
    BY <1>7 DEF Settled
  <2>2. StatusOf[nmDevice] \in Statuses
    BY DEF WifiInv, WifiTypes, StatusOf, Statuses
  <2>3. /\ sync'.pc = "connection" /\ sync'.fresh /\ sync'.shown.status = StatusOf[nmDevice]
    BY <1>7, <2>2 DEF BeginSync, Lookup, Shown, ShownNetworks
  <2>4. WifiTypes'
    BY WifiTypesStep DEF WifiInv, WifiNext
  <2>5. DeviceInv' /\ ConnInv'
    BY <1>1, <1>7 DEF WifiInv, DeviceInv, ConnInv, nmVars, signalVars
  <2>6. TasksInv' /\ SyncInv' /\ FitsInv' /\ RestInv'
    BY <1>1, <1>7, <2>1, <2>3 DEF TasksInv, SyncInv, FitsInv, RestInv, nmVars, signalVars
  <2> QED BY <2>4, <2>5, <2>6 DEF WifiInv
\* What is common to an activation that begins and to one that ends.
<1>8. ASSUME tasks' = {}, UNCHANGED sync, stateSignals' # <<>>
      PROVE  TasksInv' /\ SyncInv' /\ RestInv'
  BY <1>1, <1>8 DEF TasksInv, SyncInv, RestInv
<1>9. ASSUME Activates(task), tasks' = {}, UNCHANGED sync, Begin(task.ssid), task.ssid \in nmSaved', ConnInv'
      PROVE  WifiInv'
  <2>1. NmUp /\ nmActive' = task.ssid
    BY <1>2, <1>9, BeginsUp DEF WifiInv
  <2>2. TasksInv' /\ SyncInv' /\ RestInv'
    BY <1>8, <1>9, <2>1 DEF NmUp
  <2>3. WifiTypes'
    BY WifiTypesStep DEF WifiInv, WifiNext
  <2>4. DeviceInv'
    BY <1>9, <2>1 DEF DeviceInv, NmUp
  <2>5. FitsInv'
    BY <1>1, <1>9, <2>1 DEF WifiInv, TasksInv, FitsInv, Fits
  <2> QED BY <1>9, <2>2, <2>3, <2>4, <2>5 DEF WifiInv
<1>10. ASSUME ~Activates(task), tasks' = {}, UNCHANGED sync, ConnInv',
              \/ UNCHANGED <<nmDevice, nmActive, stateSignals>> /\ (nmActive # NoSsid => nmActive \in nmSaved')
              \/ NmDown("userRequested")
              \/ NmDown("connectionRemoved") /\ nmActive \notin nmSaved'
       PROVE  WifiInv'
  <2>1. ~Activating /\ ~Activating'
    BY <1>3, <1>10 DEF Activating
  <2>2. CASE UNCHANGED <<nmDevice, nmActive, stateSignals>> /\ (nmActive # NoSsid => nmActive \in nmSaved')
    <3>1. WifiTypes' /\ DeviceInv'
      BY <1>10, <2>2, WifiTypesStep DEF WifiInv, WifiNext, DeviceInv
    <3>2. TasksInv' /\ SyncInv'
      BY <1>1, <1>10 DEF TasksInv, SyncInv
    <3>3. RestInv'
      BY <1>1, <1>10, <2>1, <2>2 DEF WifiInv, RestInv
    <3>4. FitsInv'
      BY <1>1, <1>5, <1>10, <2>2 DEF FitsInv, Fits
    <3> QED BY <1>10, <3>1, <3>2, <3>3, <3>4 DEF WifiInv
  <2>3. ASSUME NEW why \in {"userRequested", "connectionRemoved"}, NmDown(why),
               why = "connectionRemoved" => nmActive \notin nmSaved'
        PROVE  WifiInv'
    <3>1. TasksInv' /\ SyncInv' /\ RestInv'
      BY <1>8, <1>10, <2>3 DEF NmDown
    <3>2. WifiTypes'
      BY WifiTypesStep DEF WifiInv, WifiNext
    <3>3. DeviceInv'
      BY <2>3 DEF DeviceInv, NmDown, Endings
    <3>4. FitsInv'
      <4>1. Clearing' \/ (Removing' /\ nmActive \notin nmSaved')
        BY <2>3 DEF NmDown
      <4> QED BY <1>1, <1>5, <1>10, <4>1 DEF FitsInv, Fits
    <3> QED BY <1>10, <3>1, <3>2, <3>3, <3>4 DEF WifiInv
  <2> QED BY <1>10, <2>2, <2>3
<1>11. CASE task.kind = "forget"
  <2>1. tasks' = {} /\ UNCHANGED sync /\ ~Activates(task)
    BY <1>1, <1>11 DEF WorkerStep, Activates
  <2>2. nmActive # NoSsid => nmActive \in nmSaved
    BY DEF WifiInv, DeviceInv
  <2>3. CASE UNCHANGED <<nmVars, signalVars>>
    <3>1. ConnInv'
      BY <1>1, <2>3 DEF WifiInv, ConnInv, nmVars, signalVars
    <3> QED BY <1>10, <2>1, <2>2, <2>3, <3>1 DEF nmVars, signalVars
  <2>4. CASE task.ssid \in connections /\ Delete(task.ssid)
    <3>1. nmSaved' = nmSaved \ {task.ssid}
      BY <2>4 DEF Delete
    <3>2. ConnInv'
      <4>1. CASE task.ssid \in nmSaved
        <5> DEFINE r == [added |-> FALSE, ssid |-> task.ssid]
        <5>1. connSignals' = Append(connSignals, r)
          BY <2>4, <4>1 DEF Delete
        <5>2. r \in [added : BOOLEAN, ssid : Ssids] /\ ~r.added /\ r.ssid = task.ssid
          BY <1>2
        <5> HIDE DEF r
        <5> QED BY <1>1, <2>4, <3>1, <4>1, <5>1, <5>2, ConnectionAppended
      <4>2. CASE task.ssid \notin nmSaved
        <5>1. connSignals' = connSignals /\ nmSaved' = nmSaved
          BY <2>4, <3>1, <4>2 DEF Delete
        <5> QED BY <1>1, <5>1 DEF WifiInv, ConnInv
      <4> QED BY <4>1, <4>2
    <3>3. CASE nmActive # task.ssid
      <4>1. UNCHANGED <<nmDevice, nmActive, stateSignals>> /\ (nmActive # NoSsid => nmActive \in nmSaved')
        BY <2>2, <2>4, <3>1, <3>3 DEF Delete
      <4> QED BY <1>10, <2>1, <3>2, <4>1
    <3>4. CASE nmActive = task.ssid
      <4>1. NmDown("connectionRemoved")
        BY <2>4, <3>4, DeletesDown DEF WifiInv
      <4> QED BY <1>10, <2>1, <3>1, <3>2, <3>4, <4>1
    <3> QED BY <3>3, <3>4
  <2> QED BY <1>11, <2>3, <2>4 DEF WorkerStep
<1>12. CASE task.kind = "deactivate"
  <2>1. tasks' = {} /\ UNCHANGED <<sync, nmSaved, connSignals>> /\ ~Activates(task) /\ Deactivate(task.ssid)
    BY <1>1, <1>12 DEF WorkerStep, Activates
  <2>2. nmActive # NoSsid => nmActive \in nmSaved
    BY DEF WifiInv, DeviceInv
  <2>3. ConnInv'
    BY <1>1, <2>1 DEF WifiInv, ConnInv
  <2>4. UNCHANGED <<nmDevice, nmActive, stateSignals>> \/ NmDown("userRequested")
    BY <2>1, DeactivatesDown DEF WifiInv, Deactivate
  <2> QED BY <1>10, <2>1, <2>2, <2>3, <2>4
<1>13. CASE task.kind = "add"
  <2>1. tasks' = {} /\ Activates(task) /\ task.ssid \notin connections
    BY <1>1, <1>13 DEF WorkerStep, Activates, WifiInv, TasksInv
  <2>2. CASE AddConnection(task.ssid) /\ Begin(task.ssid) /\ UNCHANGED sync
    <3> DEFINE r == [added |-> TRUE, ssid |-> task.ssid]
    <3>1. r \in [added : BOOLEAN, ssid : Ssids] /\ r.added /\ r.ssid = task.ssid
      BY <1>2
    <3>2. connSignals' = Append(connSignals, r) /\ nmSaved' = nmSaved \cup {task.ssid}
      BY <2>2 DEF AddConnection
    <3> HIDE DEF r
    <3>3. task.ssid \notin nmSaved
      <4>1. \A i \in DOMAIN connSignals : ~connSignals[i].added
        BY <1>1 DEF WifiInv, ConnInv
      <4>2. \A i \in DOMAIN connSignals : connSignals[i].ssid # task.ssid
        BY <2>1, <4>1 DEF WifiInv, ConnInv
      <4> QED BY <1>2, <2>1, <4>2 DEF WifiInv, ConnInv
    <3>4. stateSignals' # <<>>
      BY <1>2, <2>2, BeginsUp DEF WifiInv, NmUp
    <3>5. monitor'.pc = "idle" \/ ~monitor'.fresh
      BY <1>1, <2>1 DEF WifiInv, TasksInv
    <3>6. ConnInv'
      BY <1>1, <2>1, <3>1, <3>2, <3>3, <3>4, <3>5, ConnectionAppended
    <3>7. task.ssid \in nmSaved'
      BY <3>2
    <3> QED BY <1>9, <2>1, <2>2, <3>6, <3>7
  <2>3. CASE Settled /\ BeginSync /\ UNCHANGED <<nmVars, signalVars>>
    BY <1>7, <1>13, <2>1, <2>3
  <2> QED BY <1>13, <2>2, <2>3 DEF WorkerStep
<1>14. CASE task.kind = "activate"
  <2>1. tasks' = {} /\ Activates(task)
    BY <1>1, <1>14 DEF WorkerStep, Activates
  <2>2. CASE task.ssid \in nmSaved /\ Begin(task.ssid) /\ UNCHANGED <<nmSaved, connSignals, sync>>
    <3>1. stateSignals' # <<>>
      BY <1>2, <2>2, BeginsUp DEF WifiInv, NmUp
    <3>2. ConnInv'
      BY <1>1, <2>2, <3>1 DEF WifiInv, ConnInv
    <3> QED BY <1>9, <2>1, <2>2, <3>2
  <2>3. CASE Settled /\ BeginSync /\ UNCHANGED <<nmVars, signalVars>>
    BY <1>7, <1>14, <2>1, <2>3
  <2> QED BY <1>14, <2>2, <2>3 DEF WorkerStep
<1> QED BY <1>2, <1>6, <1>11, <1>12, <1>13, <1>14

LEMMA WifiInductive ==
  ASSUME WifiHappens = {}, WifiInv, [WifiNext]_wifiVars
  PROVE  WifiInv'
<1>1. CASE UNCHANGED wifiVars
  <2>1. UNCHANGED <<nmDevice, nmActive, nmSaved, stateSignals, connSignals, wifiState, connections, monitor, sync, tasks>>
    BY <1>1 DEF wifiVars, nmVars, signalVars
  <2>2. WifiTypes' /\ DeviceInv' /\ ConnInv' /\ TasksInv'
    BY <2>1 DEF WifiInv, WifiTypes, DeviceInv, ConnInv, TasksInv
  <2>3. SyncInv' /\ RestInv'
    BY <2>1 DEF WifiInv, SyncInv, RestInv, Activating
  <2>4. FitsInv'
    BY <2>1 DEF WifiInv, FitsInv, Fits, Activating, Clearing, Removing
  <2> QED BY <2>2, <2>3, <2>4 DEF WifiInv
<1> QED BY <1>1, NmKeepsWifi, UserKeepsWifi, SyncKeepsWifi, WorkersKeepWifi, ConnectionsKeepWifi,
           SignalsKeepWifi, LookupKeepsWifi DEF WifiNext

\* Type correctness, whatever the timings.
THEOREM WifiTypeCorrect == WifiSpec => []WifiTypeOK
<1> DEFINE Inv == WifiTypes /\ taps \in 0..MaxTaps /\ networkChanges \in 0..MaxNetworkChanges
<1>1. WifiInit => Inv
  BY WifiInitInv, WifiAssumption DEF WifiInit, WifiInv
<1>2. Inv /\ [WifiNext]_wifiVars => Inv'
  <2> SUFFICES ASSUME Inv, [WifiNext]_wifiVars PROVE Inv'
    OBVIOUS
  <2>1. CASE UNCHANGED wifiVars
    BY <2>1 DEF WifiTypes, wifiVars, nmVars, signalVars
  <2>2. CASE WifiNext
    <3>1. WifiTypes'
      BY <2>2, WifiTypesStep
    <3>2. taps' = taps \/ (taps < MaxTaps /\ taps' = taps + 1)
      BY <2>2 DEF WifiNext, NmProgress, NmChange, Tap, OpenSettings, SyncStep, WorkerStep, ConnectionSignal,
           StateSignal, MonitorLookup
    <3>3. networkChanges' = networkChanges \/ (networkChanges < MaxNetworkChanges /\ networkChanges' = networkChanges + 1)
      BY <2>2 DEF WifiNext, NmProgress, NmChange, Tap, OpenSettings, SyncStep, WorkerStep, ConnectionSignal,
           StateSignal, MonitorLookup
    <3> QED BY <3>1, <3>2, <3>3, WifiAssumption
  <2> QED BY <2>1, <2>2
<1>3. Inv => WifiTypeOK
  BY DEF WifiTypes, WifiTypeOK, StatusOf, ShownNetworks, Statuses
<1> QED BY <1>1, <1>2, <1>3, PTL DEF WifiSpec

\* Whenever no signal, worker or lookup is on its way, the screen shows the network and the status
\* that NetworkManager has, whatever the user tapped and the network did, in any order
\* (_user_epoch, _handle_state_change, _init_wifi_state): WifiSettles without its liveness.
THEOREM ScreenIsRight ==
  ASSUME WifiHappens = {}
  PROVE  WifiSpec => [](NothingWaits => ShowsDevice)
<1>1. WifiInit => WifiInv
  BY WifiInitInv
<1>2. WifiInv /\ [WifiNext]_wifiVars => WifiInv'
  BY WifiInductive
<1>3. WifiInv => (NothingWaits => ShowsDevice)
  BY DEF WifiInv, RestInv, ShowsDevice, NothingWaits, Activating
<1> QED BY <1>1, <1>2, <1>3, PTL DEF WifiSpec
=============================================================================
