----------------------------- MODULE MCDaemons -----------------------------
(***************************************************************************)
(* Ten daemons that share no variable, one after the other in one run:     *)
(* `moving' is the one whose steps the behaviour takes, the others stay    *)
(* as they begin.  The constants of Monitoring are given here.             *)
(***************************************************************************)
EXTENDS Monitoring, LaneChange, Navigation, Toggles, Recording, Wifi, Modem, Uploads, Sounds, Clips

CONSTANTS Running      \* the daemons the run is about
VARIABLE moving        \* one of them

OneStep == [p \in Policies |-> 1]
FirstAlert == [p \in Policies |-> 2]
SecondAlert == [p \in Policies |-> 1]
TwoLockouts == <<1, 2>>

daemonVars == <<dmVars, laneVars, navVars, toggleVars, recVars, wifiVars, modemVars, uploadVars, soundVars, clipVars, moving>>

\* The daemons that do not move begin in one way only.
DaemonsInit ==
  /\ moving \in Running
  /\ DmInit /\ LaneInit /\ NavInit /\ TogglesInit /\ RecInit /\ WifiInit /\ ModemInit /\ UploadsInit
  /\ SoundsInit /\ ClipsInit
  /\ moving # "wifi" => nmSaved = {}
  /\ IF moving = "clips" THEN clips # <<>> /\ Last(clips) = NoPage.name ELSE clips = <<>>
  /\ moving # "modem" => /\ sim = CHOOSE s \in Sims : TRUE
                         /\ gsmApn = contextApn /\ gsmApn = CHOOSE a \in Apns : TRUE
                         /\ gsmRoaming = FALSE

\* The other daemons rest.
Alone(others) == UNCHANGED <<others, moving>>

Monitoring_Next ==
  /\ moving = "monitoring" /\ DmNext
  /\ Alone(<<laneVars, navVars, toggleVars, recVars, wifiVars, modemVars, uploadVars, soundVars, clipVars>>)
LaneChange_Next ==
  /\ moving = "lanes" /\ LaneFrame
  /\ Alone(<<dmVars, navVars, toggleVars, recVars, wifiVars, modemVars, uploadVars, soundVars, clipVars>>)
Navigation_Next ==
  /\ moving = "nav" /\ NavNext
  /\ Alone(<<dmVars, laneVars, toggleVars, recVars, wifiVars, modemVars, uploadVars, soundVars, clipVars>>)
Toggles_Next ==
  /\ moving = "toggles" /\ TogglesNext
  /\ Alone(<<dmVars, laneVars, navVars, recVars, wifiVars, modemVars, uploadVars, soundVars, clipVars>>)
Recording_Next ==
  /\ moving = "recording" /\ RecNext
  /\ Alone(<<dmVars, laneVars, navVars, toggleVars, wifiVars, modemVars, uploadVars, soundVars, clipVars>>)
Wifi_Next ==
  /\ moving = "wifi" /\ WifiNext
  /\ Alone(<<dmVars, laneVars, navVars, toggleVars, recVars, modemVars, uploadVars, soundVars, clipVars>>)
Modem_Next ==
  /\ moving = "modem" /\ ModemNext
  /\ Alone(<<dmVars, laneVars, navVars, toggleVars, recVars, wifiVars, uploadVars, soundVars, clipVars>>)
Uploads_Next ==
  /\ moving = "uploads" /\ UploadsNext
  /\ Alone(<<dmVars, laneVars, navVars, toggleVars, recVars, wifiVars, modemVars, soundVars, clipVars>>)
Sounds_Next ==
  /\ moving = "sounds" /\ SoundsNext
  /\ Alone(<<dmVars, laneVars, navVars, toggleVars, recVars, wifiVars, modemVars, uploadVars, clipVars>>)
\* Pages are alike, so one of them asks first; the deleter takes the segment whose clip is the
\* oldest, and does so when a request is about to look for it: before, nothing tells.
ClipsMatter ==
  /\ asks = 0 /\ asks' = 1 => page'[CHOOSE p \in Pages : TRUE].at # "idle"
  /\ deleted' # deleted => /\ deleted' \ deleted = {NoPage.name}
                          /\ \E p \in Pages : page[p].name = NoPage.name /\ page[p].at \in {"path", "begin", "fetch"}
Clips_Next ==
  /\ moving = "clips" /\ ClipsNext /\ ClipsMatter
  /\ Alone(<<dmVars, laneVars, navVars, toggleVars, recVars, wifiVars, modemVars, uploadVars, soundVars>>)

DaemonsNext ==
  \/ Monitoring_Next \/ LaneChange_Next \/ Navigation_Next \/ Toggles_Next
  \/ Recording_Next \/ Wifi_Next \/ Modem_Next \/ Uploads_Next
  \/ Sounds_Next \/ Clips_Next

DaemonsSafety == DaemonsInit /\ [][DaemonsNext]_daemonVars

\* The loops and workers of the daemons go on; what the driver, the network and the road do is
\* not to be relied on.
DaemonsSpec ==
  /\ DaemonsSafety
  /\ WF_navVars(moving = "nav" /\ NavRead) /\ WF_navVars(moving = "nav" /\ NavAct)
  /\ WF_navVars(moving = "nav" /\ NavTime) /\ WF_navVars(moving = "nav" /\ PutLands)
  /\ WF_toggleVars(moving = "toggles" /\ SwitchMode) /\ WF_toggleVars(moving = "toggles" /\ ParamsThread)
  /\ WF_toggleVars(moving = "toggles" /\ WheelHears)
  /\ WF_toggleVars(moving = "toggles" /\ \E w \in Writers : ModeLands(w) \/ PersonalityLands(w))
  /\ WF_wifiVars(moving = "wifi" /\ SyncStep)
  /\ WF_wifiVars(moving = "wifi" /\ (ConnectionSignal \/ StateSignal \/ MonitorLookup))
  /\ WF_wifiVars(moving = "wifi" /\ \E task \in tasks : WorkerStep(task))
  /\ WF_modemVars(moving = "modem" /\ ModemLoop) /\ WF_modemVars(moving = "modem" /\ Dialled)
  /\ WF_uploadVars(moving = "uploads" /\ CacheLands) /\ WF_uploadVars(moving = "uploads" /\ Reconnect)
  /\ \A w \in Workers : WF_uploadVars(moving = "uploads" /\ UploadWorker(w))
  /\ WF_soundVars(moving = "sounds" /\ SelfdriveMissing) /\ WF_soundVars(moving = "sounds" /\ LoopTurn)
  /\ WF_soundVars(moving = "sounds" /\ LoopReset) /\ WF_soundVars(moving = "sounds" /\ Callback)
  /\ \A p \in Pages : WF_clipVars(moving = "clips" /\ Request(p))
  /\ WF_clipVars(moving = "clips" /\ \E e \in Threads : Encode(e))
=============================================================================
