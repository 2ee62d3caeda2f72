------------------------------ MODULE Lifecycle ------------------------------
(***************************************************************************)
(* From the ignition to the car's safety mode, and back.                   *)
(*                                                                         *)
(*   pandad     reads the ignition, closes the panda's relay when the car  *)
(*              is off or the device is not onroad, and else takes it from *)
(*              ELM327, for the fingerprint, to the car's own mode;        *)
(*   hardwared  decides from pandaStates whether a drive is on, and when a *)
(*              parked device is to be turned off;                         *)
(*   manager    clears the params of the last drive, stops and starts the  *)
(*              processes of a drive, and ends the program;                *)
(*   card       fingerprints the car and tells pandad so through params.   *)
(*                                                                         *)
(* deviceState and pandaStates are conflated sockets.  Nothing orders what *)
(* pandad and the manager do with the same deviceState.                    *)
(***************************************************************************)
EXTENDS Naturals

CONSTANTS
  Procs,               \* the processes of a drive, card among them
  Happens,             \* the unlucky timings a run allows, see Timings
  MaxDrives            \* bound: drives in a boot

\* "early": pandad acts on a new drive before the manager has cleared the params; "missed": the
\* manager or pandad misses an offroad period.
Timings == {"early", "missed"}

ASSUME LifecycleAssumption ==
  "card" \in Procs /\ Happens \subseteq Timings /\ MaxDrives \in Nat

VARIABLES
  ignition,                            \* the car
  mode,                                \* the panda's safety mode
  pandad, pandaPc,                     \* pandad's locals and what it does next
  pandaStates, pandaUnread,            \* the ignition it published; unread by hardwared
  ignitionSeen, started, doShutdown,   \* hardwared's, and its param
  devPandad, devManager,               \* a deviceState is unread by pandad, by the manager
  managerPc, mStarted,    \* manager_thread
  toClear, todo,                       \* params and processes it still has to deal with
  child, shuttingDown, alive,          \* of each process: proc is set, stop() has signalled
                                       \* it, its instances that run
  cardPc, params,
  \* history: drives since the boot; the drive card was started in; whether in this drive card
  \* crashed, pandad ended before card had its answers, or the ignition went off unseen
  drive, cardDrive, hindered

pandaVars == <<mode, pandad, pandaPc, pandaStates, pandaUnread>>
hardwareVars == <<ignitionSeen, started, doShutdown, drive>>
managerVars == <<managerPc, mStarted, toClear, todo>>
procVars == <<child, shuttingDown, alive>>
cardVars == <<cardPc, cardDrive, hindered>>
vars == <<ignition, pandaVars, hardwareVars, devPandad, devManager, managerVars, procVars, cardVars, params>>

Drives == 0..MaxDrives

\* A safety mode; the car's is of the CarParams of a drive.
Mode(model) == [model |-> model, of |-> 0]
CarMode(d) == [model |-> "car", of |-> d]

\* The params of CLEAR_ON_ONROAD_TRANSITION that pandad and card talk through.
NoParams == [FirmwareQueryDone |-> FALSE, ControlsReady |-> FALSE, CarParams |-> 0,
             ObdMultiplexingEnabled |-> FALSE, ObdMultiplexingChanged |-> FALSE]
MutClearedOnroad == DOMAIN NoParams \ {"CarParams", "ControlsReady"}
ClearedOnroad == DOMAIN NoParams

\* A pandad that has just begun.
NewPandad == [up |-> TRUE, isOnroad |-> FALSE, initialized |-> FALSE, configured |-> FALSE,
              prevObd |-> FALSE]

\* The device as it boots: manager_init has cleared the params, manager_thread has started
\* what always runs, and pandad.py has reset the panda.
Init ==
  /\ ignition \in BOOLEAN
  /\ mode = Mode("silent") /\ pandad = NewPandad /\ pandaPc = "tick"
  /\ pandaStates = FALSE /\ pandaUnread = FALSE
  /\ ignitionSeen = FALSE /\ started = FALSE /\ doShutdown = FALSE
  /\ devPandad = FALSE /\ devManager = FALSE
  /\ managerPc = "poll" /\ mStarted = FALSE /\ toClear = {} /\ todo = {}
  /\ child = [p \in Procs |-> FALSE] /\ shuttingDown = [p \in Procs |-> FALSE]
  /\ alive = [p \in Procs |-> 0]
  /\ cardPc = "none" /\ params = NoParams
  /\ drive = 0 /\ cardDrive = 0 /\ hindered = FALSE

Ignition ==
  /\ ignition' = ~ignition
  /\ UNCHANGED <<pandaVars, hardwareVars, devPandad, devManager, managerVars, procVars, cardVars, params>>

-----------------------------------------------------------------------------
\* pandad

\* send_panda_states: out of SILENT, and the relay closed while the car is off or the device
\* offroad.
MutClosed(m, onroad) == IF m.model = "silent" \/ ~ignition THEN Mode("noOutput") ELSE m
Closed(m, onroad) == IF m.model = "silent" \/ ~ignition \/ ~onroad THEN Mode("noOutput") ELSE m

\* The 10 Hz part of pandad_run, to the end of updateMultiplexingMode; what then remains of
\* configureSafetyMode is the reading of the three params of fetchCarParams.
PandadTick ==
  /\ pandad.up /\ pandaPc = "tick"
  /\ "early" \in Happens \/ ~(devPandad /\ started /\ ~pandad.isOnroad)
                         \/ (mStarted /\ managerPc # "clear")
  /\ LET onroad == IF devPandad THEN started ELSE pandad.isOnroad
         configures == onroad /\ ~pandad.configured
         obd == params.ObdMultiplexingEnabled
         switches == configures /\ obd # (pandad.initialized /\ pandad.prevObd)
     IN /\ switches => managerPc # "clear"
        /\ pandaPc' = IF configures THEN "FirmwareQueryDone" ELSE "tick"
        /\ mode' = IF configures /\ (~pandad.initialized \/ switches) THEN Mode("elm327")
                   ELSE Closed(mode, onroad)
        /\ pandad' = IF configures
                     THEN [pandad EXCEPT !.isOnroad = TRUE, !.initialized = TRUE, !.prevObd = obd]
                     ELSE [pandad EXCEPT !.isOnroad = onroad, !.initialized = onroad /\ @,
                                         !.configured = onroad /\ @]
        /\ params' = IF switches THEN [params EXCEPT !.ObdMultiplexingChanged = TRUE] ELSE params
  /\ devPandad' = FALSE
  /\ pandaStates' = ignition /\ pandaUnread' = TRUE
  /\ hindered' = (hindered \/ (started /\ pandaUnread /\ ~pandaStates /\ ignition))
  /\ UNCHANGED <<ignition, hardwareVars, devManager, managerVars, procVars, cardPc, cardDrive>>

\* fetchCarParams reads FirmwareQueryDone, then ControlsReady.
PandadFetch ==
  /\ pandad.up
  /\ \E read \in {<<"FirmwareQueryDone", "ControlsReady">>, <<"ControlsReady", "CarParams">>} :
       /\ pandaPc = read[1]
       /\ pandaPc' = IF params[read[1]] THEN read[2] ELSE "tick"
  /\ UNCHANGED <<ignition, mode, pandad, pandaStates, pandaUnread, hardwareVars,
                 devPandad, devManager, managerVars, procVars, cardVars, params>>

\* It reads CarParams, and setSafetyMode takes the mode from them.
PandadConfigure ==
  /\ pandad.up /\ pandaPc = "CarParams" /\ pandaPc' = "tick"
  /\ IF params.CarParams = 0 THEN UNCHANGED <<mode, pandad>>
     ELSE /\ mode' = CarMode(params.CarParams)
          /\ pandad' = [pandad EXCEPT !.configured = TRUE]
  /\ UNCHANGED <<ignition, pandaStates, pandaUnread, hardwareVars, devPandad, devManager,
                 managerVars, procVars, cardVars, params>>

\* pandad loses the panda and ends, closing the relay unless it is engaged.
PandadExit ==
  /\ pandad.up /\ pandaPc = "tick"
  /\ pandad' = [NewPandad EXCEPT !.up = FALSE]
  /\ mode' \in IF pandad.isOnroad THEN {mode, Mode("noOutput")} ELSE {mode}
  /\ devPandad' = FALSE
  /\ hindered' = (hindered \/ (started /\ cardDrive = drive /\ cardPc \in {"obdOn", "queried", "obdOff"}))
  /\ UNCHANGED <<ignition, pandaPc, pandaStates, pandaUnread, hardwareVars,
                 devManager, managerVars, procVars, cardPc, cardDrive, params>>

\* pandad.py resets the panda and runs pandad again.
PandadStart ==
  /\ ~pandad.up /\ managerPc # "off"
  /\ pandad' = NewPandad /\ mode' = Mode("silent")
  /\ UNCHANGED <<ignition, pandaPc, pandaStates, pandaUnread, hardwareVars,
                 devPandad, devManager, managerVars, procVars, cardVars, params>>

-----------------------------------------------------------------------------
\* hardwared

\* The ignition of the latest pandaStates; off when there was none for too long.
ReadPandaStates ==
  /\ ignitionSeen' \in IF pandaUnread THEN {pandaStates}
                       ELSE IF ~pandad.up THEN {ignitionSeen, FALSE} ELSE {ignitionSeen}
  /\ pandaUnread' = FALSE
  /\ UNCHANGED <<ignition, mode, pandad, pandaPc, pandaStates, managerVars, procVars, cardPc,
                 cardDrive, params>>

\* A turn of hardware_thread between two decisions: no edge of the onroad conditions.
HardwaredRead ==
  /\ managerPc # "off"
  /\ ReadPandaStates
  /\ started => ignitionSeen'
  /\ UNCHANGED <<started, doShutdown, drive, hindered, devPandad, devManager>>

\* A turn that decides, twice a second and at every edge.  The other onroad conditions
\* (temperature, no cycle requested, and the terms to begin a drive) may hold or not.  Offroad,
\* a low battery, a long time or the param ForcePowerDown turns the device off.
HardwaredDecide ==
  /\ managerPc # "off"
  /\ ReadPandaStates
  /\ started' \in IF ignitionSeen' THEN BOOLEAN ELSE {FALSE}
  /\ started' /\ ~started => drive < MaxDrives
                             /\ ("missed" \in Happens \/ ~(mStarted \/ pandad.isOnroad))
  /\ doShutdown' \in IF started' THEN {doShutdown} ELSE {doShutdown, TRUE}
  /\ drive' = IF started' /\ ~started THEN drive + 1 ELSE drive
  /\ hindered' = (hindered /\ started')
  /\ devPandad' = pandad.up /\ devManager' = TRUE

-----------------------------------------------------------------------------
\* manager

\* SubMaster.update, which returns without a message too; a drive that begins has the
\* params of the last one cleared.
ManagerPoll ==
  /\ managerPc = "poll"
  /\ mStarted' = IF devManager THEN started ELSE mStarted
  /\ devManager' = FALSE
  /\ toClear' = IF mStarted' /\ ~mStarted THEN ClearedOnroad ELSE {}
  /\ managerPc' = IF toClear' = {} THEN "procs" ELSE "clear"
  /\ todo' = Procs
  /\ UNCHANGED <<ignition, pandaVars, hardwareVars, devPandad, procVars, cardVars, params>>

\* clearAll removes the files one after the other, with the writers of params locked out.
ManagerClear ==
  /\ managerPc = "clear"
  /\ \E k \in toClear : params' = [params EXCEPT ![k] = NoParams[k]] /\ toClear' = toClear \ {k}
  /\ managerPc' = IF toClear' = {} THEN "procs" ELSE "clear"
  /\ UNCHANGED <<ignition, pandaVars, hardwareVars, devPandad, devManager, mStarted, todo, procVars, cardVars>>

\* ManagerProcess.stop without block: the first call signals, the next one waits five
\* seconds, kills, and forgets the process.
MutStop(p) ==
  /\ child[p] /\ alive[p] > 0
  /\ shuttingDown' = [shuttingDown EXCEPT ![p] = TRUE]
  /\ UNCHANGED <<child, alive>>
Stop(p) ==
  \/ /\ child[p] /\ alive[p] > 0 /\ ~shuttingDown[p]
     /\ shuttingDown' = [shuttingDown EXCEPT ![p] = TRUE]
     /\ UNCHANGED <<child, alive>>
  \/ /\ child[p] /\ (alive[p] = 0 \/ shuttingDown[p])
     /\ shuttingDown' = [shuttingDown EXCEPT ![p] = FALSE]
     /\ child' = [child EXCEPT ![p] = FALSE]
     /\ alive' = [alive EXCEPT ![p] = 0]
  \/ ~child[p] /\ UNCHANGED procVars

\* ManagerProcess.start: a process that is shutting down is waited for and killed first; one
\* whose proc is set is left alone, even if it has died.
MutStart(p) ==
  /\ alive' = [alive EXCEPT ![p] = IF child[p] /\ ~shuttingDown[p] THEN @ ELSE @ + 1]
  /\ child' = [child EXCEPT ![p] = TRUE]
  /\ shuttingDown' = [shuttingDown EXCEPT ![p] = FALSE]
Start(p) ==
  /\ alive' = [alive EXCEPT ![p] = IF child[p] /\ ~shuttingDown[p] THEN @ ELSE 1]
  /\ child' = [child EXCEPT ![p] = TRUE]
  /\ shuttingDown' = [shuttingDown EXCEPT ![p] = FALSE]

\* What is known of card while no instance of it runs.
NoCard == cardPc' = "none" /\ cardDrive' = 0

\* ensure_running, process by process.
ManagerProcs ==
  /\ managerPc = "procs"
  /\ \E p \in todo :
       /\ todo' = todo \ {p}
       /\ IF mStarted THEN Start(p) ELSE Stop(p)
       /\ IF p # "card" THEN UNCHANGED <<cardPc, cardDrive>>
          ELSE IF mStarted /\ (~child[p] \/ shuttingDown[p]) THEN cardPc' = "can" /\ cardDrive' = drive
          ELSE IF alive'[p] = 0 THEN NoCard ELSE UNCHANGED <<cardPc, cardDrive>>
  /\ UNCHANGED <<ignition, pandaVars, hardwareVars, devPandad, devManager, managerPc, mStarted,
                  toClear, hindered, params>>

\* The end of the loop: DoShutdown ends it.
ManagerLoop ==
  /\ managerPc = "procs" /\ todo = {}
  /\ managerPc' = IF doShutdown THEN "cleanup" ELSE "poll"
  /\ UNCHANGED <<ignition, pandaVars, hardwareVars, devPandad, devManager, mStarted,
                 toClear, todo, procVars, cardVars, params>>

\* manager_cleanup stops every process with block, and the device turns itself off.
ManagerCleanup ==
  /\ managerPc = "cleanup" /\ managerPc' = "off"
  /\ child' = [p \in Procs |-> FALSE] /\ shuttingDown' = [p \in Procs |-> FALSE]
  /\ alive' = [p \in Procs |-> 0]
  /\ pandad' = [NewPandad EXCEPT !.up = FALSE] /\ pandaPc' = "tick" /\ mode' = Mode("silent")
  /\ NoCard
  /\ UNCHANGED <<ignition, pandaStates, pandaUnread, hardwareVars, devPandad, devManager,
                 mStarted, toClear, todo, hindered, params>>

\* The device is turned on again.
Boot ==
  /\ managerPc = "off" /\ UNCHANGED ignition
  /\ mode' = Mode("silent") /\ pandad' = NewPandad /\ pandaPc' = "tick"
  /\ pandaStates' = FALSE /\ pandaUnread' = FALSE
  /\ ignitionSeen' = FALSE /\ started' = FALSE /\ doShutdown' = FALSE
  /\ devPandad' = FALSE /\ devManager' = FALSE
  /\ managerPc' = "poll" /\ mStarted' = FALSE /\ toClear' = {} /\ todo' = {}
  /\ child' = [p \in Procs |-> FALSE] /\ shuttingDown' = [p \in Procs |-> FALSE]
  /\ alive' = [p \in Procs |-> 0]
  /\ cardPc' = "none" /\ params' = NoParams
  /\ drive' = 0 /\ cardDrive' = 0 /\ hindered' = FALSE

-----------------------------------------------------------------------------
\* The processes of a drive

\* A process ends on its signal.
Exit(p) ==
  /\ alive[p] > 0 /\ shuttingDown[p]
  /\ alive' = [alive EXCEPT ![p] = @ - 1]
  /\ IF p = "card" THEN NoCard ELSE UNCHANGED <<cardPc, cardDrive>>
  /\ UNCHANGED <<ignition, pandaVars, hardwareVars, devPandad, devManager, managerVars, child,
                 shuttingDown, hindered, params>>

CrashCard ==
  /\ alive["card"] = 1 /\ ~shuttingDown["card"]
  /\ alive' = [alive EXCEPT !["card"] = 0] /\ NoCard
  /\ hindered' = (hindered \/ (started /\ cardDrive = drive))
  /\ UNCHANGED <<ignition, pandaVars, hardwareVars, devPandad, devManager, managerVars, child,
                 shuttingDown, params>>

\* card's way to its car: the fingerprint, with the OBD port asked for and given back unless
\* the cached CarParams do, then the three params.  ControlsReady is written by a worker once
\* selfdrived has initialized.  A signalled card finishes the write it is in.
Written == [fw |-> "FirmwareQueryDone", params |-> "CarParams", ready |-> "ControlsReady"]
AfterWrite == [fw |-> "params", params |-> "ready", ready |-> "run"]

CardWrite ==
  /\ cardPc \in DOMAIN Written
  /\ params' = [params EXCEPT ![Written[cardPc]] = IF cardPc = "params" THEN cardDrive ELSE TRUE]
  /\ cardPc' = IF shuttingDown["card"] THEN "none" ELSE AfterWrite[cardPc]

\* obd_callback: ask unless it is so already, and wait for the answer.
MutRequestObd(multiplexing, waiting, done) ==
  IF params.ObdMultiplexingEnabled = multiplexing THEN cardPc' = done /\ UNCHANGED params
  ELSE cardPc' = waiting /\ params' = [params EXCEPT !.ObdMultiplexingChanged = FALSE]
RequestObd(multiplexing, waiting, done) ==
  IF params.ObdMultiplexingEnabled = multiplexing THEN cardPc' = done /\ UNCHANGED params
  ELSE /\ cardPc' = waiting
       /\ params' = [params EXCEPT !.ObdMultiplexingChanged = FALSE,
                                   !.ObdMultiplexingEnabled = multiplexing]

CardFingerprint ==
  /\ ~shuttingDown["card"]
  /\ \/ cardPc = "can" /\ cardPc' = "queried" /\ UNCHANGED params
     \/ cardPc = "can" /\ RequestObd(TRUE, "obdOn", "queried")
     \/ cardPc = "obdOn" /\ params.ObdMultiplexingChanged /\ cardPc' = "queried" /\ UNCHANGED params
     \/ cardPc = "queried" /\ RequestObd(FALSE, "obdOff", "fw")
     \/ cardPc = "obdOff" /\ params.ObdMultiplexingChanged /\ cardPc' = "fw" /\ UNCHANGED params

CardStep ==
  /\ alive["card"] > 0 /\ managerPc # "clear"
  /\ CardFingerprint \/ CardWrite
  /\ UNCHANGED <<ignition, pandaVars, hardwareVars, devPandad, devManager, managerVars, procVars,
                 cardDrive, hindered>>

-----------------------------------------------------------------------------
Pandad == PandadTick \/ PandadFetch \/ PandadConfigure
Manager == ManagerPoll \/ ManagerClear \/ ManagerProcs \/ ManagerLoop \/ ManagerCleanup

Next ==
  \/ Ignition \/ Pandad \/ PandadExit \/ PandadStart \/ HardwaredRead \/ HardwaredDecide \/ Manager \/ Boot
  \/ CardStep \/ CrashCard \/ \E p \in Procs : Exit(p)

Spec == Init /\ [][Next]_vars

\* The loops run; nothing makes a process obey its signal or a car start.
FairSpec ==
  /\ Spec
  /\ WF_vars(Pandad) /\ WF_vars(PandadStart) /\ WF_vars(HardwaredDecide) /\ WF_vars(Manager)
  /\ WF_vars(CardStep)

-----------------------------------------------------------------------------
\* Properties

\* The values each variable takes.
TypeOK ==
  /\ {ignition, pandaStates, pandaUnread, ignitionSeen, started, doShutdown, devPandad,
      devManager, mStarted, hindered} \subseteq BOOLEAN
  /\ mode \in {Mode(m) : m \in {"silent", "noOutput", "elm327"}} \cup {CarMode(d) : d \in Drives}
  /\ pandad \in [up: BOOLEAN, isOnroad: BOOLEAN, initialized: BOOLEAN, configured: BOOLEAN, prevObd: BOOLEAN]
  /\ pandaPc \in {"tick", "FirmwareQueryDone", "ControlsReady", "CarParams"}
  /\ managerPc \in {"poll", "clear", "procs", "cleanup", "off"}
  /\ toClear \subseteq DOMAIN NoParams /\ todo \subseteq Procs
  /\ child \in [Procs -> BOOLEAN] /\ shuttingDown \in [Procs -> BOOLEAN] /\ alive \in [Procs -> Nat]
  /\ cardPc \in {"none", "can", "obdOn", "queried", "obdOff", "fw", "params", "ready", "run"}
  /\ DOMAIN params = DOMAIN NoParams /\ params.CarParams \in Drives
  /\ \A k \in DOMAIN NoParams \ {"CarParams"} : params[k] \in BOOLEAN
  /\ {drive, cardDrive} \subseteq Drives

\* manager/process.py: a process is started again only when its last instance is gone,
\* although stop does not wait for it; and none that runs is forgotten.
OneInstance == \A p \in Procs : alive[p] <= 1 /\ (alive[p] = 1 => child[p])

\* The panda takes the car's mode from the CarParams of the drive that is on, although the
\* last drive's lie there until the manager clears them.
ModeOfThisDrive == [][mode' # mode /\ mode'.model = "car" => mode'.of = drive]_vars

\* Offroad for good, every process of a drive is gone, also one that ignores its signal.
OffroadStops == <>[](~started) => <>[](\A p \in Procs : alive[p] = 0)

\* With the car off or the device offroad for good, the relay is closed.
RelayCloses == <>[](~ignition) \/ <>[](~started) => <>[](mode.model \notin {"elm327", "car"})

\* A drive that lasts brings the panda to the car's mode, if in that drive card does not crash,
\* pandad does not end between card's first request for the OBD port and the last answer, and no
\* ignition that went off and on again is missed by hardwared; whatever befell the drives before,
\* whenever pandad restarts otherwise (fetchCarParams, updateMultiplexingMode, obd_callback).
DriveReachesCarMode ==
  <>[](started /\ ignition /\ pandad.up /\ ~hindered /\ managerPc # "off")
    => <>[](mode = CarMode(drive))
=============================================================================
