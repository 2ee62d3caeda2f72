-------------------------- MODULE LifecycleProofs --------------------------
(***************************************************************************)
(* Proofs about Lifecycle, for any processes and number of drives: types,  *)
(* that no process runs twice, and, where neither pandad nor the manager   *)
(* is early or misses an offroad period, that the car's mode is that of    *)
(* the drive; and, whatever the timings, that the relay is open only in a  *)
(* drive.                                                                  *)
(***************************************************************************)
EXTENDS Lifecycle, TLAPS

TypeInv == TypeOK /\ OneInstance

\* The types in groups, each of which an action keeps or disturbs as a whole.
FlagsType ==
  /\ ignition \in BOOLEAN /\ pandaStates \in BOOLEAN /\ pandaUnread \in BOOLEAN
  /\ ignitionSeen \in BOOLEAN /\ started \in BOOLEAN /\ doShutdown \in BOOLEAN
  /\ devPandad \in BOOLEAN /\ devManager \in BOOLEAN /\ mStarted \in BOOLEAN /\ hindered \in BOOLEAN
Pandads == [up: BOOLEAN, isOnroad: BOOLEAN, initialized: BOOLEAN, configured: BOOLEAN, prevObd: BOOLEAN]
SafetyModes == {Mode(m) : m \in {"silent", "noOutput", "elm327"}} \cup {CarMode(d) : d \in Drives}
PandaType ==
  /\ mode \in SafetyModes /\ pandad \in Pandads
  /\ pandaPc \in {"tick", "FirmwareQueryDone", "ControlsReady", "CarParams"}
ManagerType ==
  /\ managerPc \in {"poll", "clear", "procs", "cleanup", "off"}
  /\ toClear \subseteq DOMAIN NoParams /\ todo \subseteq Procs
ProcsType ==
  /\ child \in [Procs -> BOOLEAN] /\ shuttingDown \in [Procs -> BOOLEAN] /\ alive \in [Procs -> Nat]
  /\ OneInstance
CardType ==
  /\ cardPc \in {"none", "can", "obdOn", "queried", "obdOff", "fw", "params", "ready", "run"}
  /\ drive \in Drives /\ cardDrive \in Drives
ParamsType ==
  /\ DOMAIN params = DOMAIN NoParams /\ params.CarParams \in Drives
  /\ \A k \in DOMAIN NoParams \ {"CarParams"} : params[k] \in BOOLEAN

LEMMA TypeGroups ==
  /\ TypeInv <=> FlagsType /\ PandaType /\ ManagerType /\ ProcsType /\ CardType /\ ParamsType
  /\ TypeInv' <=> FlagsType' /\ PandaType' /\ ManagerType' /\ ProcsType' /\ CardType' /\ ParamsType'
BY DEF TypeInv, TypeOK, FlagsType, PandaType, ManagerType, ProcsType, CardType, ParamsType,
       Pandads, SafetyModes

LEMMA DrivesType == MaxDrives \in Nat /\ 0 \in Drives /\ Drives \subseteq Nat
BY LifecycleAssumption DEF Drives

LEMMA ParamNames ==
  /\ DOMAIN NoParams = {"FirmwareQueryDone", "ControlsReady", "CarParams", "ObdMultiplexingEnabled",
                        "ObdMultiplexingChanged"}
  /\ NoParams.CarParams = 0
  /\ \A k \in DOMAIN NoParams \ {"CarParams"} : NoParams[k] = FALSE
BY DEF NoParams

LEMMA NewPandadType == NewPandad \in Pandads
BY DEF NewPandad, Pandads

LEMMA ModesType ==
  /\ \A m \in {"silent", "noOutput", "elm327"} : Mode(m) \in SafetyModes
  /\ \A d \in Drives : CarMode(d) \in SafetyModes
  /\ \A m \in SafetyModes : \A onroad : Closed(m, onroad) \in SafetyModes
BY DEF SafetyModes, Closed

\* The processes that a step of the manager leaves.
LEMMA StartStop ==
  ASSUME ProcsType, NEW p \in Procs, Start(p) \/ Stop(p)
  PROVE  ProcsType'
<1>1. CASE Start(p)
  BY <1>1 DEF Start, ProcsType, OneInstance
<1>2. CASE child[p] /\ shuttingDown' = [shuttingDown EXCEPT ![p] = TRUE] /\ UNCHANGED <<child, alive>>
  BY <1>2 DEF ProcsType, OneInstance
<1>3. CASE /\ shuttingDown' = [shuttingDown EXCEPT ![p] = FALSE]
           /\ child' = [child EXCEPT ![p] = FALSE] /\ alive' = [alive EXCEPT ![p] = 0]
  BY <1>3 DEF ProcsType, OneInstance
<1>4. CASE UNCHANGED procVars
  BY <1>4 DEF ProcsType, OneInstance, procVars
<1> QED BY <1>1, <1>2, <1>3, <1>4 DEF Stop

LEMMA OneGone ==
  ASSUME ProcsType, NEW p \in Procs, alive' = [alive EXCEPT ![p] = 0], UNCHANGED <<child, shuttingDown>>
  PROVE  ProcsType'
<1>1. alive' \in [Procs -> Nat] /\ child' \in [Procs -> BOOLEAN] /\ shuttingDown' \in [Procs -> BOOLEAN]
  BY DEF ProcsType
<1>2. ASSUME NEW q \in Procs PROVE alive'[q] <= 1 /\ (alive'[q] = 1 => child'[q])
  <2>1. alive[q] <= 1 /\ (alive[q] = 1 => child[q])
    BY DEF ProcsType, OneInstance
  <2>2. alive'[q] = IF q = p THEN 0 ELSE alive[q]
    BY DEF ProcsType
  <2> QED BY <2>1, <2>2
<1> QED BY <1>1, <1>2 DEF ProcsType, OneInstance

LEMMA InitTypes == Init => TypeInv
<1> SUFFICES ASSUME Init PROVE TypeInv
  OBVIOUS
<1>1. FlagsType /\ ManagerType
  BY DEF Init, FlagsType, ManagerType
<1>2. PandaType
  BY NewPandadType, ModesType DEF Init, PandaType
<1>3. ProcsType
  BY DEF Init, ProcsType, OneInstance
<1>4. CardType
  BY DrivesType DEF Init, CardType
<1>5. ParamsType
  BY DrivesType, ParamNames DEF Init, ParamsType
<1> QED BY <1>1, <1>2, <1>3, <1>4, <1>5, TypeGroups

LEMMA PandadTypes ==
  ASSUME TypeInv, Pandad \/ PandadExit \/ PandadStart
  PROVE  TypeInv'
<1> USE TypeGroups
<1>1. CASE PandadTick
  <2>1. FlagsType'
    BY <1>1 DEF PandadTick, FlagsType, hardwareVars, managerVars, procVars, cardVars
  <2>2. PICK onroad \in BOOLEAN, configures \in BOOLEAN, switches \in BOOLEAN, obd \in BOOLEAN :
          /\ pandaPc' = IF configures THEN "FirmwareQueryDone" ELSE "tick"
          /\ mode' = IF configures /\ (~pandad.initialized \/ switches) THEN Mode("elm327")
                     ELSE Closed(mode, onroad)
          /\ pandad' = IF configures
                       THEN [pandad EXCEPT !.isOnroad = TRUE, !.initialized = TRUE, !.prevObd = obd]
                       ELSE [pandad EXCEPT !.isOnroad = onroad, !.initialized = onroad /\ @,
                                           !.configured = onroad /\ @]
          /\ params' = IF switches THEN [params EXCEPT !.ObdMultiplexingChanged = TRUE] ELSE params
    <3> DEFINE onroad == IF devPandad THEN started ELSE pandad.isOnroad
               configures == onroad /\ ~pandad.configured
               obd == params.ObdMultiplexingEnabled
               switches == configures /\ obd # (pandad.initialized /\ pandad.prevObd)
    <3>1. /\ onroad \in BOOLEAN /\ configures \in BOOLEAN /\ switches \in BOOLEAN /\ obd \in BOOLEAN
      BY ParamNames DEF FlagsType, PandaType, Pandads, ParamsType
    <3>2. /\ pandaPc' = IF configures THEN "FirmwareQueryDone" ELSE "tick"
          /\ mode' = IF configures /\ (~pandad.initialized \/ switches) THEN Mode("elm327")
                     ELSE Closed(mode, onroad)
          /\ pandad' = IF configures
                       THEN [pandad EXCEPT !.isOnroad = TRUE, !.initialized = TRUE, !.prevObd = obd]
                       ELSE [pandad EXCEPT !.isOnroad = onroad, !.initialized = onroad /\ @,
                                           !.configured = onroad /\ @]
          /\ params' = IF switches THEN [params EXCEPT !.ObdMultiplexingChanged = TRUE] ELSE params
      BY <1>1 DEF PandadTick
    <3> QED BY <3>1, <3>2
  <2>3. mode' \in SafetyModes
    BY <2>2, ModesType DEF PandaType
  <2>4. pandad' \in Pandads
    BY <2>2 DEF PandaType, Pandads
  <2>5. ParamsType'
    BY <2>2, ParamNames DEF ParamsType, CardType
  <2>6. ManagerType' /\ ProcsType' /\ CardType'
    BY <1>1 DEF PandadTick, ManagerType, ProcsType, CardType, OneInstance, hardwareVars, managerVars, procVars, cardVars
  <2> QED BY <2>1, <2>2, <2>3, <2>4, <2>5, <2>6 DEF PandaType
<1>2. CASE PandadFetch
  <2>1. FlagsType' /\ ManagerType' /\ ProcsType' /\ CardType' /\ ParamsType'
    BY <1>2 DEF PandadFetch, FlagsType, ManagerType, ProcsType, CardType, ParamsType, OneInstance,
                hardwareVars, managerVars, procVars, cardVars
  <2>2. PandaType'
    BY <1>2 DEF PandadFetch, PandaType
  <2> QED BY <2>1, <2>2
<1>3. CASE PandadConfigure
  <2>1. FlagsType' /\ ManagerType' /\ ProcsType' /\ CardType' /\ ParamsType'
    BY <1>3 DEF PandadConfigure, FlagsType, ManagerType, ProcsType, CardType, ParamsType, OneInstance,
                hardwareVars, managerVars, procVars, cardVars
  <2>2. mode' \in SafetyModes /\ pandad' \in Pandads
    BY <1>3, ModesType DEF PandadConfigure, PandaType, ParamsType, Pandads
  <2> QED BY <1>3, <2>1, <2>2 DEF PandadConfigure, PandaType
<1>4. CASE PandadExit \/ PandadStart
  <2>1. FlagsType' /\ ManagerType' /\ ProcsType' /\ CardType' /\ ParamsType'
    <3>1. FlagsType' /\ CardType'
      <4>1. CASE PandadExit
        BY <4>1 DEF PandadExit, FlagsType, CardType, hardwareVars, managerVars, cardVars
      <4>2. CASE PandadStart
        BY <4>2 DEF PandadStart, FlagsType, CardType, hardwareVars, managerVars, cardVars
      <4> QED BY <1>4, <4>1, <4>2
    <3>2. ManagerType' /\ ProcsType' /\ ParamsType'
      BY <1>4 DEF PandadExit, PandadStart, ManagerType, ProcsType, ParamsType, OneInstance, managerVars, procVars
    <3> QED BY <3>1, <3>2
  <2>2. [NewPandad EXCEPT !.up = FALSE] \in Pandads
    BY NewPandadType DEF Pandads
  <2>3. mode' \in SafetyModes /\ pandad' \in Pandads
    BY <1>4, <2>2, NewPandadType, ModesType DEF PandadExit, PandadStart, PandaType
  <2>4. pandaPc' = pandaPc
    BY <1>4 DEF PandadExit, PandadStart
  <2> QED BY <2>1, <2>3, <2>4 DEF PandaType
<1> QED BY <1>1, <1>2, <1>3, <1>4 DEF Pandad

LEMMA HardwaredTypes ==
  ASSUME TypeInv, Ignition \/ HardwaredRead \/ HardwaredDecide
  PROVE  TypeInv'
<1> USE TypeGroups
<1>1. CASE Ignition
  BY <1>1 DEF Ignition, FlagsType, PandaType, ManagerType, ProcsType, CardType, ParamsType, OneInstance,
              pandaVars, hardwareVars, managerVars, procVars, cardVars
<1>2. CASE HardwaredRead \/ HardwaredDecide
  <2>1. ReadPandaStates
    BY <1>2 DEF HardwaredRead, HardwaredDecide
  <2>2. PandaType' /\ ManagerType' /\ ProcsType' /\ ParamsType'
    BY <2>1 DEF ReadPandaStates, PandaType, ManagerType, ProcsType, ParamsType, OneInstance, managerVars, procVars
  <2>3. ignition' \in BOOLEAN /\ pandaStates' \in BOOLEAN /\ pandaUnread' \in BOOLEAN
        /\ ignitionSeen' \in BOOLEAN /\ mStarted' \in BOOLEAN
    BY <2>1 DEF ReadPandaStates, FlagsType, managerVars
  <2>4. started' \in BOOLEAN /\ doShutdown' \in BOOLEAN /\ hindered' \in BOOLEAN
        /\ devPandad' \in BOOLEAN /\ devManager' \in BOOLEAN
    BY <1>2, <2>3 DEF HardwaredRead, HardwaredDecide, FlagsType, PandaType, Pandads
  <2>5. drive' \in Drives
    <3>1. drive' = drive \/ (drive' = drive + 1 /\ drive < MaxDrives)
      BY <1>2 DEF HardwaredRead, HardwaredDecide
    <3> QED BY <3>1, DrivesType DEF CardType, Drives
  <2>6. CardType'
    BY <2>1, <2>5 DEF ReadPandaStates, CardType
  <2> QED BY <2>2, <2>3, <2>4, <2>6 DEF FlagsType
<1> QED BY <1>1, <1>2

LEMMA ManagerTypes ==
  ASSUME TypeInv, Manager \/ Boot
  PROVE  TypeInv'
<1> USE TypeGroups
<1>1. CASE ManagerPoll
  <2>1. PandaType' /\ ProcsType' /\ CardType' /\ ParamsType'
    BY <1>1 DEF ManagerPoll, PandaType, ProcsType, CardType, ParamsType, OneInstance, pandaVars,
                hardwareVars, procVars, cardVars
  <2>2. FlagsType'
    BY <1>1 DEF ManagerPoll, FlagsType, pandaVars, hardwareVars, cardVars
  <2>3. ManagerType'
    BY <1>1 DEF ManagerPoll, ManagerType, ClearedOnroad
  <2> QED BY <2>1, <2>2, <2>3
<1>2. CASE ManagerClear
  <2>1. FlagsType' /\ PandaType' /\ ProcsType' /\ CardType'
    BY <1>2 DEF ManagerClear, FlagsType, PandaType, ProcsType, CardType, OneInstance, pandaVars,
                hardwareVars, procVars, cardVars
  <2>2. ManagerType'
    BY <1>2 DEF ManagerClear, ManagerType
  <2>3. PICK k \in toClear : params' = [params EXCEPT ![k] = NoParams[k]]
    BY <1>2 DEF ManagerClear
  <2>4. k \in DOMAIN NoParams
    BY DEF ManagerType
  <2>5. ParamsType'
    BY <2>3, <2>4, ParamNames, DrivesType DEF ParamsType
  <2> QED BY <2>1, <2>2, <2>5
<1>3. CASE ManagerProcs
  <2>1. FlagsType' /\ PandaType' /\ ParamsType'
    BY <1>3 DEF ManagerProcs, FlagsType, PandaType, ParamsType, pandaVars, hardwareVars
  <2>2. ManagerType'
    BY <1>3 DEF ManagerProcs, ManagerType
  <2>3. PICK p \in todo : Start(p) \/ Stop(p)
    BY <1>3 DEF ManagerProcs
  <2>4. ProcsType'
    BY <2>3, StartStop DEF ManagerType
  <2>5. CardType'
    BY <1>3, DrivesType DEF ManagerProcs, CardType, NoCard, hardwareVars
  <2> QED BY <2>1, <2>2, <2>4, <2>5
<1>4. CASE ManagerLoop
  BY <1>4 DEF ManagerLoop, FlagsType, PandaType, ManagerType, ProcsType, CardType, ParamsType, OneInstance,
              pandaVars, hardwareVars, procVars, cardVars
<1>5. CASE ManagerCleanup
  <2>1. FlagsType' /\ ManagerType' /\ ParamsType'
    BY <1>5 DEF ManagerCleanup, FlagsType, ManagerType, ParamsType, hardwareVars
  <2>2. PandaType'
    <3>1. [NewPandad EXCEPT !.up = FALSE] \in Pandads
      BY NewPandadType DEF Pandads
    <3> QED BY <1>5, <3>1, ModesType DEF ManagerCleanup, PandaType
  <2>3. ProcsType'
    BY <1>5 DEF ManagerCleanup, ProcsType, OneInstance
  <2>4. CardType'
    BY <1>5, DrivesType DEF ManagerCleanup, CardType, NoCard, hardwareVars
  <2> QED BY <2>1, <2>2, <2>3, <2>4
<1>6. CASE Boot
  <2>1. FlagsType' /\ ManagerType'
    BY <1>6 DEF Boot, FlagsType, ManagerType
  <2>2. PandaType'
    BY <1>6, NewPandadType, ModesType DEF Boot, PandaType
  <2>3. ProcsType'
    BY <1>6 DEF Boot, ProcsType, OneInstance
  <2>4. CardType' /\ ParamsType'
    BY <1>6, DrivesType, ParamNames DEF Boot, CardType, ParamsType
  <2> QED BY <2>1, <2>2, <2>3, <2>4
<1> QED BY <1>1, <1>2, <1>3, <1>4, <1>5, <1>6 DEF Manager

LEMMA CardTypes ==
  ASSUME TypeInv, CardStep \/ CrashCard \/ \E p \in Procs : Exit(p)
  PROVE  TypeInv'
<1> USE TypeGroups
<1>1. CASE CardStep
  <2>1. FlagsType' /\ PandaType' /\ ManagerType' /\ ProcsType'
    BY <1>1 DEF CardStep, FlagsType, PandaType, ManagerType, ProcsType, OneInstance, pandaVars,
                hardwareVars, managerVars, procVars
  <2>2. CASE CardWrite
    <3>1. cardPc \in {"fw", "params", "ready"}
      BY <2>2 DEF CardWrite, Written
    <3>2. CardType'
      BY <1>1, <2>2, <3>1 DEF CardStep, CardWrite, AfterWrite, CardType, hardwareVars
    <3>3. /\ cardPc = "fw" => params' = [params EXCEPT !["FirmwareQueryDone"] = TRUE]
          /\ cardPc = "params" => params' = [params EXCEPT !["CarParams"] = cardDrive]
          /\ cardPc = "ready" => params' = [params EXCEPT !["ControlsReady"] = TRUE]
      <4>1. Written["fw"] = "FirmwareQueryDone" /\ Written["params"] = "CarParams"
            /\ Written["ready"] = "ControlsReady"
        BY DEF Written
      <4>2. CASE cardPc = "fw"
        BY <2>2, <4>1, <4>2 DEF CardWrite
      <4>3. CASE cardPc = "params"
        BY <2>2, <4>1, <4>3 DEF CardWrite
      <4>4. CASE cardPc = "ready"
        BY <2>2, <4>1, <4>4 DEF CardWrite
      <4> QED BY <3>1, <4>2, <4>3, <4>4
    <3>4. ParamsType'
      BY <3>1, <3>3, ParamNames DEF ParamsType, CardType
    <3> QED BY <2>1, <3>2, <3>4
  <2>3. CASE CardFingerprint
    <3>1. CardType'
      BY <1>1, <2>3 DEF CardStep, CardFingerprint, RequestObd, CardType, hardwareVars
    <3>2. \/ params' = params
          \/ \E m \in BOOLEAN : params' = [params EXCEPT !.ObdMultiplexingChanged = FALSE,
                                                         !.ObdMultiplexingEnabled = m]
      BY <2>3 DEF CardFingerprint, RequestObd
    <3>3. ParamsType'
      BY <3>2, ParamNames DEF ParamsType
    <3> QED BY <2>1, <3>1, <3>3
  <2> QED BY <1>1, <2>2, <2>3 DEF CardStep
<1>2. CASE CrashCard
  <2>1. PandaType' /\ ManagerType' /\ ParamsType'
    BY <1>2 DEF CrashCard, PandaType, ManagerType, ParamsType, pandaVars, managerVars
  <2>2. FlagsType'
    BY <1>2 DEF CrashCard, FlagsType, pandaVars, hardwareVars, managerVars
  <2>3. ProcsType'
    BY <1>2, OneGone, LifecycleAssumption DEF CrashCard
  <2>4. CardType'
    BY <1>2, DrivesType DEF CrashCard, CardType, NoCard, hardwareVars
  <2> QED BY <2>1, <2>2, <2>3, <2>4
<1>3. ASSUME NEW p \in Procs, Exit(p) PROVE TypeInv'
  <2>1. FlagsType' /\ PandaType' /\ ManagerType' /\ ParamsType'
    BY <1>3 DEF Exit, FlagsType, PandaType, ManagerType, ParamsType, pandaVars, hardwareVars, managerVars
  <2>2. ProcsType'
    <3>1. alive[p] \in Nat /\ alive[p] > 0 /\ alive[p] <= 1
      BY <1>3 DEF Exit, ProcsType, OneInstance
    <3>2. alive[p] - 1 = 0
      BY <3>1
    <3>3. alive' = [alive EXCEPT ![p] = 0]
      BY <1>3, <3>2 DEF Exit
    <3> QED BY <1>3, <3>3, OneGone DEF Exit
  <2>3. CardType'
    BY <1>3, DrivesType DEF Exit, CardType, NoCard, hardwareVars
  <2> QED BY <2>1, <2>2, <2>3
<1> QED BY <1>1, <1>2, <1>3

LEMMA StutterTypes == TypeInv /\ UNCHANGED vars => TypeInv'
BY DEF TypeInv, TypeOK, OneInstance, vars, pandaVars, hardwareVars, managerVars, procVars, cardVars

\* The values each variable takes, for any processes and drives (Lifecycle as a whole).
THEOREM TypeInvariant == Spec => []TypeInv
<1>1. Init => TypeInv
  BY InitTypes
<1>2. TypeInv /\ [Next]_vars => TypeInv'
  BY PandadTypes, HardwaredTypes, ManagerTypes, CardTypes, StutterTypes DEF Next
<1> QED BY <1>1, <1>2, PTL DEF Spec

\* manager/process.py: no process runs twice, and none that runs is forgotten, although stop
\* does not wait, for any processes.
THEOREM NoneRunsTwice == Spec => []OneInstance
BY TypeInvariant, PTL DEF TypeInv

\* What the manager has cleared is clear, and what it has not yet dealt with is its list.
ManagerInv ==
  /\ managerPc \in {"poll", "cleanup", "off"} => todo = {}
  /\ managerPc = "clear" =>
       mStarted /\ \A k \in DOMAIN NoParams \ toClear : params[k] = NoParams[k]

\* pandad works on a drive only when the manager knows of it.
PandaInv ==
  /\ pandad.isOnroad => managerPc # "clear" /\ (started => mStarted)
  /\ pandad.isOnroad => pandad.up
  /\ pandaPc # "tick" => pandad.isOnroad
  /\ pandaPc = "CarParams" => params.ControlsReady

\* A card of an earlier drive.
OldCard == cardPc # "none" /\ cardDrive # drive

\* The manager is on its way to stop card.
WillStop == ~mStarted /\ managerPc = "procs" /\ "card" \in todo

\* Before the manager has begun a drive no card is of it, and an old card is on its way out.
CardInv ==
  /\ cardDrive <= drive
  /\ (started /\ ~mStarted) \/ managerPc = "clear" => cardDrive < drive
  /\ ~mStarted => cardPc = "none" \/ shuttingDown["card"] \/ WillStop
  /\ OldCard => shuttingDown["card"] \/ (WillStop /\ ~pandad.isOnroad)

\* Since the manager has cleared the params for a drive, an old card writes at most one of
\* them, and a new one writes ControlsReady only after its CarParams.
Cleared == managerPc # "clear" /\ (mStarted \/ pandad.isOnroad)
FreshInv ==
  Cleared =>
    /\ params.ControlsReady => params.CarParams \in {0, drive}
    /\ OldCard /\ cardPc \in DOMAIN Written => ~params.ControlsReady /\ params.CarParams = 0
    /\ cardPc = "ready" /\ cardDrive = drive => params.CarParams = drive

DriveInv == ManagerInv /\ PandaInv /\ CardInv /\ FreshInv

\* The variables that DriveInv looks at.
driveVars == <<managerPc, todo, mStarted, toClear, params, pandad, pandaPc, started, cardPc, cardDrive,
               drive, shuttingDown>>

LEMMA SameDrive == DriveInv /\ UNCHANGED driveVars => DriveInv'
BY DEF DriveInv, ManagerInv, PandaInv, CardInv, FreshInv, OldCard, WillStop, Cleared, driveVars

LEMMA InitDrive == Init => DriveInv
<1> SUFFICES ASSUME Init PROVE DriveInv
  OBVIOUS
<1>1. pandad.isOnroad = FALSE
  BY DEF Init, NewPandad
<1>2. ManagerInv
  BY DEF Init, ManagerInv
<1>3. PandaInv
  BY <1>1 DEF Init, PandaInv
<1>4. CardInv /\ FreshInv
  BY <1>1 DEF Init, CardInv, FreshInv, OldCard, Cleared
<1> QED BY <1>2, <1>3, <1>4 DEF DriveInv

\* What pandad becomes in a turn.
LEMMA TickOnroad ==
  ASSUME TypeInv, DriveInv, PandadTick, "early" \notin Happens
  PROVE  /\ pandad'.isOnroad => pandad.isOnroad \/ (mStarted /\ managerPc # "clear")
         /\ pandad'.isOnroad => managerPc # "clear" /\ (started => mStarted)
         /\ pandaPc' \in {"FirmwareQueryDone", "tick"}
         /\ pandaPc' # "tick" => pandad'.isOnroad
         /\ pandad'.up
         /\ \/ params' = params
            \/ managerPc # "clear" /\ params' = [params EXCEPT !.ObdMultiplexingChanged = TRUE]
<1> DEFINE onroad == IF devPandad THEN started ELSE pandad.isOnroad
           configures == onroad /\ ~pandad.configured
           switches == configures /\ params.ObdMultiplexingEnabled # (pandad.initialized /\ pandad.prevObd)
<1>1. onroad \in BOOLEAN /\ configures \in BOOLEAN /\ pandad.isOnroad \in BOOLEAN /\ mStarted \in BOOLEAN
      /\ started \in BOOLEAN /\ devPandad \in BOOLEAN
  BY TypeGroups DEF FlagsType, PandaType, Pandads
<1>2. /\ pandaPc' = IF configures THEN "FirmwareQueryDone" ELSE "tick"
      /\ switches => managerPc # "clear"
      /\ params' = IF switches THEN [params EXCEPT !.ObdMultiplexingChanged = TRUE] ELSE params
      /\ pandad' = IF configures
                   THEN [pandad EXCEPT !.isOnroad = TRUE, !.initialized = TRUE,
                                       !.prevObd = params.ObdMultiplexingEnabled]
                   ELSE [pandad EXCEPT !.isOnroad = onroad, !.initialized = onroad /\ @,
                                       !.configured = onroad /\ @]
  BY DEF PandadTick
<1>3. pandad'.isOnroad = onroad /\ pandad'.up = pandad.up /\ pandad.up
  BY <1>1, <1>2, TypeGroups DEF PandaType, Pandads, PandadTick
<1>4. ~(devPandad /\ started /\ ~pandad.isOnroad) \/ (mStarted /\ managerPc # "clear")
  BY DEF PandadTick
<1>5. pandad.isOnroad => managerPc # "clear" /\ (started => mStarted)
  BY DEF DriveInv, PandaInv
<1>6. onroad => pandad.isOnroad \/ (mStarted /\ managerPc # "clear")
  BY <1>1, <1>4
<1> HIDE DEF onroad, configures, switches
<1>7. configures => onroad
  BY DEF configures
<1> QED BY <1>1, <1>2, <1>3, <1>5, <1>6, <1>7

LEMMA PandadDrive ==
  ASSUME TypeInv, DriveInv, Pandad \/ PandadExit \/ PandadStart, "early" \notin Happens
  PROVE  DriveInv'
<1>1. ASSUME /\ UNCHANGED <<managerPc, todo, mStarted, toClear, started, cardPc, cardDrive, drive, shuttingDown>>
             /\ pandad'.isOnroad => pandad.isOnroad \/ (mStarted /\ managerPc # "clear")
             /\ pandad'.isOnroad => managerPc # "clear" /\ (started => mStarted)
             /\ pandad'.isOnroad => pandad'.up
             /\ pandaPc' # "tick" => pandad'.isOnroad
             /\ pandaPc' = "CarParams" => params'.ControlsReady
             /\ params'.ControlsReady = params.ControlsReady /\ params'.CarParams = params.CarParams
             /\ managerPc = "clear" => params' = params
      PROVE  DriveInv'
  <2>1. ManagerInv'
    BY <1>1 DEF DriveInv, ManagerInv
  <2>2. PandaInv'
    BY <1>1 DEF DriveInv, PandaInv
  <2>3. CardInv'
    BY <1>1 DEF DriveInv, CardInv, OldCard, WillStop
  <2>4. FreshInv'
    BY <1>1 DEF DriveInv, FreshInv, OldCard, Cleared
  <2> QED BY <2>1, <2>2, <2>3, <2>4 DEF DriveInv
<1>2. CASE PandadTick
  <2>1. UNCHANGED <<managerPc, todo, mStarted, toClear, started, cardPc, cardDrive, drive, shuttingDown>>
    BY <1>2 DEF PandadTick, managerVars, hardwareVars, cardVars, procVars
  <2>2. params'.ControlsReady = params.ControlsReady /\ params'.CarParams = params.CarParams
    BY <1>2, TickOnroad, TypeGroups, ParamNames DEF ParamsType
  <2>3. /\ pandad'.isOnroad => pandad.isOnroad \/ (mStarted /\ managerPc # "clear")
        /\ pandad'.isOnroad => managerPc # "clear" /\ (started => mStarted)
        /\ pandaPc' # "tick" => pandad'.isOnroad
        /\ pandad'.up
        /\ pandaPc' # "CarParams" /\ (managerPc = "clear" => params' = params)
    BY <1>2, TickOnroad
  <2> QED BY <1>1, <2>1, <2>2, <2>3
<1>3. CASE PandadFetch
  <2>1. UNCHANGED <<managerPc, todo, mStarted, toClear, started, cardPc, cardDrive, drive, shuttingDown,
                    params, pandad>>
    BY <1>3 DEF PandadFetch, managerVars, hardwareVars, cardVars, procVars
  <2>2. pandad.isOnroad /\ pandad.up
    BY <1>3 DEF PandadFetch, DriveInv, PandaInv
  <2>3. pandaPc' = "CarParams" => params.ControlsReady
    BY <1>3 DEF PandadFetch
  <2>4. pandad.isOnroad => managerPc # "clear" /\ (started => mStarted)
    BY DEF DriveInv, PandaInv
  <2> QED BY <1>1, <2>1, <2>2, <2>3, <2>4
<1>4. CASE PandadConfigure
  <2>1. UNCHANGED <<managerPc, todo, mStarted, toClear, started, cardPc, cardDrive, drive, shuttingDown, params>>
        /\ pandaPc' = "tick"
    BY <1>4 DEF PandadConfigure, managerVars, hardwareVars, cardVars, procVars
  <2>2. pandad'.isOnroad = pandad.isOnroad /\ pandad'.up = pandad.up /\ pandad.up
    BY <1>4, TypeGroups DEF PandadConfigure, PandaType, Pandads
  <2>3. pandad.isOnroad => managerPc # "clear" /\ (started => mStarted)
    BY DEF DriveInv, PandaInv
  <2> QED BY <1>1, <2>1, <2>2, <2>3
<1>5. CASE PandadExit \/ PandadStart
  <2>1. UNCHANGED <<managerPc, todo, mStarted, toClear, started, cardPc, cardDrive, drive, shuttingDown,
                    params, pandaPc>>
    BY <1>5 DEF PandadExit, PandadStart, managerVars, hardwareVars, cardVars, procVars
  <2>2. pandad'.isOnroad = FALSE
    BY <1>5 DEF PandadExit, PandadStart, NewPandad
  <2>3. pandaPc = "tick"
    <3>1. CASE PandadExit
      BY <3>1 DEF PandadExit
    <3>2. CASE PandadStart
      BY <3>2 DEF PandadStart, DriveInv, PandaInv
    <3> QED BY <1>5, <3>1, <3>2
  <2> QED BY <1>1, <2>1, <2>2, <2>3
<1> QED BY <1>2, <1>3, <1>4, <1>5 DEF Pandad

LEMMA HardwaredDrive ==
  ASSUME TypeInv, DriveInv, Ignition \/ HardwaredRead \/ HardwaredDecide, "missed" \notin Happens
  PROVE  DriveInv'
<1>1. UNCHANGED <<managerPc, todo, mStarted, toClear, params, pandad, pandaPc, cardPc, cardDrive, shuttingDown>>
  BY DEF Ignition, HardwaredRead, HardwaredDecide, ReadPandaStates, pandaVars, managerVars, procVars, cardVars
<1>2. CASE UNCHANGED <<started, drive>>
  BY <1>1, <1>2, SameDrive DEF driveVars
<1>3. CASE started' = FALSE /\ drive' = drive
  BY <1>1, <1>3 DEF DriveInv, ManagerInv, PandaInv, CardInv, FreshInv, OldCard, WillStop, Cleared
<1>4. CASE started' /\ ~started /\ drive' = drive + 1 /\ ~(mStarted \/ pandad.isOnroad)
  <2>1. cardDrive \in Nat /\ drive \in Nat /\ cardDrive <= drive
    BY TypeGroups, DrivesType DEF CardType, DriveInv, CardInv
  <2>2. ManagerInv' /\ PandaInv' /\ FreshInv'
    BY <1>1, <1>4 DEF DriveInv, ManagerInv, PandaInv, FreshInv, Cleared
  <2>3. managerPc # "clear"
    BY <1>4 DEF DriveInv, ManagerInv
  <2>4. CardInv'
    BY <1>1, <1>4, <2>1, <2>3 DEF DriveInv, CardInv, OldCard, WillStop
  <2> QED BY <2>2, <2>4 DEF DriveInv
<1>5. \/ UNCHANGED <<started, drive>> \/ (started' = FALSE /\ drive' = drive)
      \/ (started' /\ ~started /\ drive' = drive + 1 /\ ~(mStarted \/ pandad.isOnroad))
  <2>1. CASE Ignition \/ HardwaredRead
    BY <2>1 DEF Ignition, HardwaredRead, hardwareVars
  <2>2. CASE HardwaredDecide
    <3>1. started' \in BOOLEAN /\ started \in BOOLEAN
      BY <2>2, TypeGroups DEF HardwaredDecide, FlagsType
    <3>2. /\ started' /\ ~started => ~(mStarted \/ pandad.isOnroad)
          /\ drive' = IF started' /\ ~started THEN drive + 1 ELSE drive
      BY <2>2 DEF HardwaredDecide
    <3> QED BY <3>1, <3>2
  <2> QED BY <2>1, <2>2
<1> QED BY <1>2, <1>3, <1>4, <1>5

LEMMA ManagerDrive ==
  ASSUME TypeInv, DriveInv, Manager \/ Boot
  PROVE  DriveInv'
<1>1. drive \in Nat /\ cardDrive \in Nat /\ cardDrive <= drive
  BY TypeGroups, DrivesType DEF CardType, DriveInv, CardInv
<1>2. CASE ManagerPoll
  <2>1. /\ UNCHANGED <<params, pandad, pandaPc, started, cardPc, cardDrive, drive, shuttingDown>>
        /\ managerPc = "poll" /\ todo' = Procs
    BY <1>2 DEF ManagerPoll, pandaVars, hardwareVars, cardVars, procVars
  <2>2. mStarted' \in BOOLEAN /\ mStarted \in BOOLEAN /\ started \in BOOLEAN
        /\ (mStarted' = mStarted \/ mStarted' = started)
    BY <1>2, TypeGroups DEF ManagerPoll, FlagsType
  <2>3. IF mStarted' /\ ~mStarted
        THEN toClear' = DOMAIN NoParams /\ managerPc' = "clear"
        ELSE managerPc' = "procs"
    <3>1. toClear' = IF mStarted' /\ ~mStarted THEN ClearedOnroad ELSE {}
      BY <1>2 DEF ManagerPoll
    <3>2. managerPc' = IF toClear' = {} THEN "procs" ELSE "clear"
      BY <1>2 DEF ManagerPoll
    <3>3. ClearedOnroad = DOMAIN NoParams /\ ClearedOnroad # {}
      BY ParamNames DEF ClearedOnroad
    <3> QED BY <3>1, <3>2, <3>3
  <2>4. "card" \in Procs
    BY LifecycleAssumption
  <2>5. ManagerInv'
    BY <2>1, <2>3 DEF ManagerInv
  <2>6. pandad.isOnroad => managerPc' # "clear" /\ (started => mStarted')
    BY <2>1, <2>2, <2>3 DEF DriveInv, PandaInv
  <2>7. PandaInv'
    BY <2>1, <2>6 DEF DriveInv, PandaInv
  <2>8. OldCard => shuttingDown["card"]
    BY <2>1 DEF DriveInv, CardInv, WillStop
  <2>9. CardInv'
    <3>1. (started /\ ~mStarted') \/ managerPc' = "clear" => cardDrive < drive
      BY <2>1, <2>2, <2>3 DEF DriveInv, CardInv
    <3>2. ~mStarted' => WillStop'
      BY <2>1, <2>3, <2>4 DEF WillStop
    <3> QED BY <2>1, <2>8, <3>1, <3>2 DEF DriveInv, CardInv, OldCard
  <2>10. Cleared' => Cleared
    BY <2>1, <2>2, <2>3 DEF Cleared
  <2>11. FreshInv'
    BY <2>1, <2>10 DEF DriveInv, FreshInv, OldCard
  <2> QED BY <2>5, <2>7, <2>9, <2>11 DEF DriveInv
<1>3. CASE ManagerClear
  <2>1. /\ UNCHANGED <<mStarted, todo, pandad, pandaPc, started, cardPc, cardDrive, drive, shuttingDown>>
        /\ managerPc = "clear" /\ mStarted /\ ~pandad.isOnroad /\ cardDrive < drive /\ pandaPc = "tick"
    BY <1>3 DEF ManagerClear, pandaVars, hardwareVars, cardVars, procVars, DriveInv, ManagerInv, PandaInv, CardInv
  <2>2. PICK k \in toClear : params' = [params EXCEPT ![k] = NoParams[k]] /\ toClear' = toClear \ {k}
    BY <1>3 DEF ManagerClear
  <2>3. DOMAIN params = DOMAIN NoParams
    BY TypeGroups DEF ParamsType
  <2>4. \A j \in DOMAIN NoParams \ toClear' : params'[j] = NoParams[j]
    BY <2>1, <2>2, <2>3 DEF DriveInv, ManagerInv
  <2>5. managerPc' \in {"clear", "procs"} /\ (managerPc' = "procs" => toClear' = {})
    BY <1>3 DEF ManagerClear
  <2>6. ManagerInv'
    BY <2>1, <2>4, <2>5 DEF ManagerInv
  <2>7. PandaInv' /\ CardInv'
    BY <2>1, <2>5 DEF DriveInv, PandaInv, CardInv, OldCard, WillStop
  <2>8. FreshInv'
    <3>1. managerPc' = "procs" => params'.ControlsReady = FALSE /\ params'.CarParams = 0
      BY <2>4, <2>5, ParamNames
    <3> QED BY <1>1, <2>1, <2>5, <3>1 DEF FreshInv, Cleared
  <2> QED BY <2>6, <2>7, <2>8 DEF DriveInv
<1>4. CASE ManagerProcs
  <2>1. /\ UNCHANGED <<managerPc, mStarted, toClear, params, pandad, pandaPc, started, drive>>
        /\ managerPc = "procs"
    BY <1>4 DEF ManagerProcs, pandaVars, hardwareVars
  <2>2. PICK p \in todo :
          /\ todo' = todo \ {p}
          /\ IF mStarted THEN Start(p) ELSE Stop(p)
          /\ IF p # "card" THEN UNCHANGED <<cardPc, cardDrive>>
             ELSE IF mStarted /\ (~child[p] \/ shuttingDown[p]) THEN cardPc' = "can" /\ cardDrive' = drive
             ELSE IF alive'[p] = 0 THEN NoCard ELSE UNCHANGED <<cardPc, cardDrive>>
    BY <1>4 DEF ManagerProcs
  <2>3. p \in Procs /\ "card" \in Procs
    BY TypeGroups, LifecycleAssumption DEF ManagerType
  <2>4. ManagerInv' /\ PandaInv'
    BY <2>1 DEF DriveInv, ManagerInv, PandaInv
  <2>5. CASE p # "card"
    <3>1. shuttingDown'["card"] = shuttingDown["card"]
      BY <2>2, <2>3, <2>5, TypeGroups DEF Start, Stop, ProcsType, procVars
    <3>2. "card" \in todo' <=> "card" \in todo
      BY <2>2, <2>5
    <3> QED BY <2>1, <2>2, <2>4, <2>5, <3>1, <3>2
            DEF DriveInv, CardInv, FreshInv, OldCard, WillStop, Cleared
  <2>6. CASE p = "card" /\ cardPc' = "none" /\ cardDrive' = 0
    BY <1>1, <2>1, <2>4, <2>6 DEF DriveInv, CardInv, FreshInv, OldCard, Cleared
  <2>7. CASE p = "card" /\ mStarted /\ cardPc' = "can" /\ cardDrive' = drive
    <3>1. cardPc' \notin DOMAIN Written
      BY <2>7 DEF Written
    <3> QED BY <1>1, <2>1, <2>4, <2>7, <3>1 DEF DriveInv, CardInv, FreshInv, OldCard, Cleared
  <2>8. CASE p = "card" /\ mStarted /\ child[p] /\ ~shuttingDown[p] /\ UNCHANGED <<cardPc, cardDrive>>
    <3>1. ~OldCard
      BY <2>8 DEF DriveInv, CardInv, WillStop
    <3> QED BY <1>1, <2>1, <2>4, <2>8, <3>1 DEF DriveInv, CardInv, FreshInv, OldCard, Cleared
  <2>9. CASE p = "card" /\ ~mStarted /\ alive'[p] # 0 /\ UNCHANGED <<cardPc, cardDrive>>
    <3>1. child[p] /\ alive[p] > 0 /\ ~shuttingDown[p] /\ shuttingDown' = [shuttingDown EXCEPT ![p] = TRUE]
      <4>1. Stop(p)
        BY <2>2, <2>9
      <4>2. alive \in [Procs -> Nat] /\ (alive[p] = 1 => child[p]) /\ alive[p] <= 1
        BY <2>3, TypeGroups DEF ProcsType, OneInstance
      <4> QED BY <2>3, <2>9, <4>1, <4>2 DEF Stop, procVars
    <3>2. shuttingDown'["card"] = TRUE
      BY <2>3, <2>9, <3>1, TypeGroups DEF ProcsType
    <3> QED BY <1>1, <2>1, <2>4, <2>9, <3>2 DEF DriveInv, CardInv, FreshInv, OldCard, Cleared
  <2>10. mStarted \in BOOLEAN /\ child[p] \in BOOLEAN /\ shuttingDown[p] \in BOOLEAN
    BY <2>3, TypeGroups DEF FlagsType, ProcsType
  <2> QED BY <2>2, <2>5, <2>6, <2>7, <2>8, <2>9, <2>10 DEF NoCard
<1>5. CASE ManagerLoop
  <2>1. /\ UNCHANGED <<mStarted, toClear, todo, params, pandad, pandaPc, started, cardPc, cardDrive, drive,
                       shuttingDown>>
        /\ managerPc = "procs" /\ todo = {} /\ managerPc' \in {"cleanup", "poll"}
    BY <1>5 DEF ManagerLoop, pandaVars, hardwareVars, cardVars, procVars
  <2> QED BY <2>1 DEF DriveInv, ManagerInv, PandaInv, CardInv, FreshInv, OldCard, WillStop, Cleared
<1>6. CASE ManagerCleanup
  <2>1. /\ UNCHANGED <<mStarted, toClear, todo, params, started, drive>>
        /\ managerPc = "cleanup" /\ managerPc' = "off" /\ cardPc' = "none" /\ cardDrive' = 0 /\ pandaPc' = "tick"
    BY <1>6 DEF ManagerCleanup, NoCard, hardwareVars
  <2>2. pandad'.isOnroad = FALSE
    BY <1>6 DEF ManagerCleanup, NewPandad
  <2>3. started /\ ~mStarted => 0 < drive
    BY <1>1 DEF DriveInv, CardInv
  <2> QED BY <1>1, <2>1, <2>2, <2>3 DEF DriveInv, ManagerInv, PandaInv, CardInv, FreshInv, OldCard, Cleared
<1>7. CASE Boot
  <2>1. pandad'.isOnroad = FALSE
    BY <1>7 DEF Boot, NewPandad
  <2> QED BY <1>7, <2>1 DEF Boot, DriveInv, ManagerInv, PandaInv, CardInv, FreshInv, OldCard, Cleared
<1> QED BY <1>2, <1>3, <1>4, <1>5, <1>6, <1>7 DEF Manager

LEMMA CardDrives ==
  ASSUME TypeInv, DriveInv, CardStep \/ CrashCard \/ \E p \in Procs : Exit(p)
  PROVE  DriveInv'
<1>1. drive \in Nat /\ cardDrive \in Nat /\ cardDrive <= drive
  BY TypeGroups, DrivesType DEF CardType, DriveInv, CardInv
<1>2. CASE CardStep
  <2>1. /\ UNCHANGED <<managerPc, todo, mStarted, toClear, pandad, pandaPc, started, cardDrive, drive, shuttingDown>>
        /\ managerPc # "clear" /\ (CardFingerprint \/ CardWrite)
    BY <1>2 DEF CardStep, pandaVars, hardwareVars, managerVars, procVars
  <2>2. cardPc # "none"
    BY <2>1 DEF CardFingerprint, CardWrite, RequestObd, Written
  <2>3. ManagerInv'
    BY <2>1 DEF DriveInv, ManagerInv
  <2>4. CardInv'
    BY <2>1, <2>2 DEF DriveInv, CardInv, OldCard, WillStop
  <2>5. Cleared /\ OldCard => shuttingDown["card"]
    BY DEF DriveInv, CardInv, WillStop, Cleared
  <2>6. DOMAIN params = DOMAIN NoParams
    BY TypeGroups DEF ParamsType
  <2>7. CASE CardFingerprint
    <3>1. /\ ~shuttingDown["card"]
          /\ cardPc' # "ready"
          /\ \/ params' = params
             \/ \E m \in BOOLEAN : params' = [params EXCEPT !.ObdMultiplexingChanged = FALSE,
                                                            !.ObdMultiplexingEnabled = m]
      BY <2>7 DEF CardFingerprint, RequestObd
    <3>2. params'.ControlsReady = params.ControlsReady /\ params'.CarParams = params.CarParams
      BY <2>6, <3>1, ParamNames
    <3>3. PandaInv'
      BY <2>1, <3>2 DEF DriveInv, PandaInv
    <3>4. Cleared => ~OldCard
      BY <2>5, <3>1
    <3>5. FreshInv'
      BY <2>1, <2>2, <3>1, <3>2, <3>4 DEF DriveInv, FreshInv, OldCard, Cleared
    <3> QED BY <2>3, <2>4, <3>3, <3>5 DEF DriveInv
  <2>8. CASE CardWrite
    <3>1. cardPc \in {"fw", "params", "ready"}
      BY <2>8 DEF CardWrite, Written
    <3>2. /\ Written["fw"] = "FirmwareQueryDone" /\ Written["params"] = "CarParams"
          /\ Written["ready"] = "ControlsReady"
          /\ AfterWrite["fw"] = "params" /\ AfterWrite["params"] = "ready" /\ AfterWrite["ready"] = "run"
          /\ DOMAIN Written = {"fw", "params", "ready"}
      BY DEF Written, AfterWrite
    <3>3. cardPc' = IF shuttingDown["card"] THEN "none" ELSE AfterWrite[cardPc]
      BY <2>8 DEF CardWrite
    <3>4. CASE cardPc = "fw"
      <4>1. params' = [params EXCEPT !["FirmwareQueryDone"] = TRUE]
        BY <2>8, <3>2, <3>4 DEF CardWrite
      <4>2. params'.ControlsReady = params.ControlsReady /\ params'.CarParams = params.CarParams
        BY <2>6, <4>1, ParamNames
      <4>3. PandaInv'
        BY <2>1, <4>2 DEF DriveInv, PandaInv
      <4>4. cardPc' # "ready"
        BY <3>2, <3>3, <3>4
      <4>5. FreshInv'
        BY <2>1, <2>2, <3>2, <3>4, <4>2, <4>4 DEF DriveInv, FreshInv, OldCard, Cleared
      <4> QED BY <2>3, <2>4, <4>3, <4>5 DEF DriveInv
    <3>5. CASE cardPc = "params"
      <4>1. params' = [params EXCEPT !["CarParams"] = cardDrive]
        BY <2>8, <3>2, <3>5 DEF CardWrite
      <4>2. params'.ControlsReady = params.ControlsReady /\ params'.CarParams = cardDrive
        BY <2>6, <4>1, ParamNames
      <4>3. PandaInv'
        BY <2>1, <4>2 DEF DriveInv, PandaInv
      <4>4. FreshInv'
        <5>1. CASE cardDrive = drive
          BY <2>1, <4>2, <5>1 DEF FreshInv, OldCard, Cleared
        <5>2. CASE cardDrive # drive
          <6>1. Cleared => cardPc' = "none"
            BY <2>2, <2>5, <3>3, <5>2 DEF OldCard
          <6>2. Cleared => ~params.ControlsReady
            BY <2>2, <3>2, <3>5, <5>2 DEF DriveInv, FreshInv, OldCard
          <6> QED BY <2>1, <4>2, <5>2, <6>1, <6>2 DEF FreshInv, OldCard, Cleared
        <5> QED BY <5>1, <5>2
      <4> QED BY <2>3, <2>4, <4>3, <4>4 DEF DriveInv
    <3>6. CASE cardPc = "ready"
      <4>1. params' = [params EXCEPT !["ControlsReady"] = TRUE]
        BY <2>8, <3>2, <3>6 DEF CardWrite
      <4>2. params'.ControlsReady = TRUE /\ params'.CarParams = params.CarParams
        BY <2>6, <4>1, ParamNames
      <4>3. PandaInv'
        BY <2>1, <4>2 DEF DriveInv, PandaInv
      <4>4. Cleared => params.CarParams \in {0, drive}
        BY <2>2, <3>2, <3>6 DEF DriveInv, FreshInv, OldCard
      <4>5. cardPc' \in {"none", "run"}
        BY <3>2, <3>3, <3>6
      <4>6. FreshInv'
        BY <2>1, <3>2, <4>2, <4>4, <4>5 DEF FreshInv, OldCard, Cleared
      <4> QED BY <2>3, <2>4, <4>3, <4>6 DEF DriveInv
    <3> QED BY <3>1, <3>4, <3>5, <3>6
  <2> QED BY <2>1, <2>7, <2>8
<1>3. ASSUME UNCHANGED <<managerPc, todo, mStarted, toClear, params, pandad, pandaPc, started, drive, shuttingDown>>,
             UNCHANGED <<cardPc, cardDrive>> \/ NoCard
      PROVE  DriveInv'
  <2>1. CASE UNCHANGED <<cardPc, cardDrive>>
    BY <1>3, <2>1, SameDrive DEF driveVars
  <2>2. CASE NoCard
    BY <1>1, <1>3, <2>2 DEF NoCard, DriveInv, ManagerInv, PandaInv, CardInv, FreshInv, OldCard, WillStop, Cleared
  <2> QED BY <1>3, <2>1, <2>2
<1>4. CASE CrashCard
  BY <1>3, <1>4 DEF CrashCard, pandaVars, hardwareVars, managerVars
<1>5. ASSUME NEW p \in Procs, Exit(p) PROVE DriveInv'
  BY <1>3, <1>5 DEF Exit, pandaVars, hardwareVars, managerVars
<1> QED BY <1>2, <1>4, <1>5

LEMMA StutterDrive == DriveInv /\ UNCHANGED vars => DriveInv'
BY SameDrive DEF vars, driveVars, pandaVars, hardwareVars, managerVars, procVars, cardVars

\* The inductive invariant of a drive's params, for any processes and drives, where pandad does
\* not act before the manager has cleared and neither misses an offroad period (pandad.cc
\* fetchCarParams, manager.py manager_thread).
THEOREM DriveInvariant ==
  ASSUME "early" \notin Happens, "missed" \notin Happens
  PROVE  Spec => [](TypeInv /\ DriveInv)
<1>1. Init => DriveInv
  BY InitDrive
<1>2. TypeInv /\ DriveInv /\ [Next]_vars => DriveInv'
  BY PandadDrive, HardwaredDrive, ManagerDrive, CardDrives, StutterDrive DEF Next
<1> QED BY TypeInvariant, <1>1, <1>2, PTL DEF Spec

\* A change to a car's mode takes the CarParams that pandad has just read.
LEMMA ModeFrom ==
  ASSUME TypeInv, DriveInv, [Next]_vars, mode' # mode, mode'.model = "car"
  PROVE  mode'.of = drive
<1>1. PandadConfigure => mode'.of = drive
  <2> SUFFICES ASSUME PandadConfigure PROVE mode'.of = drive
    OBVIOUS
  <2>1. params.ControlsReady /\ Cleared
    BY DEF PandadConfigure, DriveInv, PandaInv, Cleared
  <2>2. params.CarParams \in {0, drive}
    BY <2>1 DEF DriveInv, FreshInv
  <2>3. params.CarParams # 0 /\ mode' = CarMode(params.CarParams)
    BY DEF PandadConfigure
  <2> QED BY <2>2, <2>3 DEF CarMode
<1>2. mode' \in {Mode("silent"), Mode("noOutput"), Mode("elm327"), mode} \/ PandadConfigure
  <2>1. CASE PandadTick
    BY <2>1 DEF PandadTick, Closed
  <2>2. CASE PandadFetch \/ PandadExit \/ PandadStart
    BY <2>2 DEF PandadFetch, PandadExit, PandadStart
  <2>3. CASE Ignition \/ HardwaredRead \/ HardwaredDecide
    BY <2>3 DEF Ignition, HardwaredRead, HardwaredDecide, ReadPandaStates, pandaVars
  <2>4. CASE Manager \/ Boot
    BY <2>4 DEF Manager, ManagerPoll, ManagerClear, ManagerProcs, ManagerLoop, ManagerCleanup, Boot, pandaVars
  <2>5. CASE CardStep \/ CrashCard \/ \E p \in Procs : Exit(p)
    BY <2>5 DEF CardStep, CrashCard, Exit, pandaVars
  <2>6. CASE UNCHANGED vars
    BY <2>6 DEF vars, pandaVars
  <2> QED BY <2>1, <2>2, <2>3, <2>4, <2>5, <2>6 DEF Next, Pandad
<1>3. \A m \in {"silent", "noOutput", "elm327"} : Mode(m).model # "car"
  BY DEF Mode
<1> QED BY <1>1, <1>2, <1>3

\* The panda takes the mode of this drive's car, for any processes and number of drives, where
\* pandad does not act before the manager has cleared the params and no offroad period goes
\* unseen (pandad.cc fetchCarParams and configureSafetyMode, manager.py, card.py).
THEOREM ModeIsOfThisDrive ==
  ASSUME "early" \notin Happens, "missed" \notin Happens
  PROVE  Spec => ModeOfThisDrive
<1>1. TypeInv /\ DriveInv /\ [Next]_vars => [mode' # mode /\ mode'.model = "car" => mode'.of = drive]_vars
  BY ModeFrom
<1> QED BY DriveInvariant, <1>1, PTL DEF Spec, ModeOfThisDrive

-----------------------------------------------------------------------------
\* The relay

\* The safety modes in which the panda's relay is open and openpilot, not the car's camera, is
\* on the bus.
RelayOpen(m) == m.model \in {"elm327", "car"}

\* A running pandad has the relay open only while it is onroad.
RelayInv ==
  /\ pandaPc # "tick" => pandad.isOnroad /\ pandad.up
  /\ pandad.up /\ RelayOpen(mode) => pandad.isOnroad

\* The mode that a turn of pandad leaves.
LEMMA TickRelay ==
  ASSUME TypeInv, PandadTick
  PROVE  /\ pandad'.up /\ (pandaPc' # "tick" => pandad'.isOnroad)
         /\ RelayOpen(mode') => pandad'.isOnroad /\ (ignition \/ ~pandad.configured)
<1> DEFINE onroad == IF devPandad THEN started ELSE pandad.isOnroad
           configures == onroad /\ ~pandad.configured
           switches == configures /\ params.ObdMultiplexingEnabled # (pandad.initialized /\ pandad.prevObd)
<1>1. onroad \in BOOLEAN /\ pandad \in Pandads /\ pandad.up
  BY TypeGroups DEF FlagsType, PandaType, Pandads, PandadTick
<1>2. /\ pandaPc' = IF configures THEN "FirmwareQueryDone" ELSE "tick"
      /\ mode' = IF configures /\ (~pandad.initialized \/ switches) THEN Mode("elm327") ELSE Closed(mode, onroad)
      /\ pandad' = IF configures
                   THEN [pandad EXCEPT !.isOnroad = TRUE, !.initialized = TRUE,
                                       !.prevObd = params.ObdMultiplexingEnabled]
                   ELSE [pandad EXCEPT !.isOnroad = onroad, !.initialized = onroad /\ @,
                                       !.configured = onroad /\ @]
  BY DEF PandadTick
<1>3. pandad'.isOnroad = onroad /\ pandad'.up
  BY <1>1, <1>2 DEF Pandads
<1>4. RelayOpen(Closed(mode, onroad)) => onroad /\ ignition
  BY DEF RelayOpen, Closed, Mode
<1>5. configures => onroad /\ ~pandad.configured
  OBVIOUS
<1> HIDE DEF onroad, configures, switches
<1> QED BY <1>2, <1>3, <1>4, <1>5

LEMMA RelayInductive == TypeInv /\ RelayInv /\ [Next]_vars => RelayInv'
<1> SUFFICES ASSUME TypeInv, RelayInv, [Next]_vars PROVE RelayInv'
  OBVIOUS
<1>1. CASE PandadTick
  BY <1>1, TickRelay DEF RelayInv
<1>2. CASE PandadFetch
  BY <1>2 DEF PandadFetch, RelayInv
<1>3. CASE PandadConfigure
  <2>1. pandad.up /\ pandad.isOnroad /\ pandaPc' = "tick"
    BY <1>3 DEF PandadConfigure, RelayInv
  <2>2. pandad'.isOnroad = pandad.isOnroad
    BY <1>3, TypeGroups DEF PandadConfigure, PandaType, Pandads
  <2> QED BY <2>1, <2>2 DEF RelayInv
<1>4. CASE PandadExit
  BY <1>4 DEF PandadExit, NewPandad, RelayInv
<1>5. CASE PandadStart
  BY <1>5 DEF PandadStart, NewPandad, Mode, RelayOpen, RelayInv
<1>6. CASE ManagerCleanup \/ Boot
  BY <1>6 DEF ManagerCleanup, Boot, NewPandad, Mode, RelayOpen, RelayInv
<1>7. CASE \/ Ignition \/ HardwaredRead \/ HardwaredDecide \/ ManagerPoll \/ ManagerClear \/ ManagerProcs
           \/ ManagerLoop \/ CardStep \/ CrashCard \/ (\E p \in Procs : Exit(p)) \/ UNCHANGED vars
  <2>1. UNCHANGED <<mode, pandad, pandaPc>>
    <3>1. CASE Ignition \/ HardwaredRead \/ HardwaredDecide
      BY <3>1 DEF Ignition, HardwaredRead, HardwaredDecide, ReadPandaStates, pandaVars
    <3>2. CASE ManagerPoll \/ ManagerClear \/ ManagerProcs \/ ManagerLoop
      BY <3>2 DEF ManagerPoll, ManagerClear, ManagerProcs, ManagerLoop, pandaVars
    <3>3. CASE CardStep \/ CrashCard \/ (\E p \in Procs : Exit(p)) \/ UNCHANGED vars
      BY <3>3 DEF CardStep, CrashCard, Exit, vars, pandaVars
    <3> QED BY <1>7, <3>1, <3>2, <3>3
  <2> QED BY <2>1 DEF RelayInv
<1> QED BY <1>1, <1>2, <1>3, <1>4, <1>5, <1>6, <1>7 DEF Next, Pandad, Manager

\* The safety half of RelayCloses: a running pandad has the relay open only onroad, and each of
\* its turns closes the relay of a configured panda when the ignition is off, whatever process
\* restarts, however late or early, and whatever the timings in Happens (send_panda_states,
\* configureSafetyMode).
RelayNeedsDrive ==
  /\ [](pandad.up /\ RelayOpen(mode) => pandad.isOnroad)
  /\ [][PandadTick /\ RelayOpen(mode') => ignition \/ ~pandad.configured]_vars

\* It needs no more than that a reading of the params begins onroad.
THEOREM RelayIsOfADrive == Spec => RelayNeedsDrive
<1>1. Init => RelayInv
  BY DEF Init, RelayInv, RelayOpen, Mode
<1>2. RelayInv => (pandad.up /\ RelayOpen(mode) => pandad.isOnroad)
  BY DEF RelayInv
<1>3. TypeInv => [PandadTick /\ RelayOpen(mode') => ignition \/ ~pandad.configured]_vars
  BY TickRelay
<1> QED BY <1>1, <1>2, <1>3, RelayInductive, TypeInvariant, PTL DEF Spec, RelayNeedsDrive
=============================================================================
