-------------------------------- MODULE Wifi --------------------------------
(***************************************************************************)
(* WifiManager: what the screen shows of the wireless connection.  It is   *)
(* written by the thread of the screen when the user taps, by the monitor  *)
(* thread that handles NetworkManager's signals, and by workers that ask   *)
(* NetworkManager for its state; the last two look something up between    *)
(* reading and writing, and give up if the user has acted meanwhile        *)
(* (_user_epoch).                                                          *)
(*                                                                         *)
(* NetworkManager is external: what it does and signals is taken from the  *)
(* sequences recorded in test_handle_state_change.py.  Signals that no     *)
(* handler looks at are left out.  One of the networks is the tethering.   *)
(***************************************************************************)
EXTENDS Naturals, Sequences

CONSTANTS
  Ssids, NoSsid,
  WifiHappens,         \* the unlucky timings a run allows, see WifiTimings
  MaxTaps, MaxNetworkChanges   \* bounds: what the user does; what the network does by itself

\* "pending": the device changes between a tap and its request, or its signals wait at a tap;
\* "overlap": a worker asks for the state while NetworkManager changes it; "late": a connection's
\* signal is handled after a device's.
WifiTimings == {"pending", "overlap", "late"}

ASSUME WifiAssumption ==
  /\ NoSsid \notin Ssids /\ WifiHappens \subseteq WifiTimings
  /\ MaxTaps \in Nat /\ MaxNetworkChanges \in Nat

VARIABLES
  nmDevice, nmActive, nmSaved,   \* the device's state, its connection, all connections
  stateSignals, connSignals,     \* signals that wait
  wifiState, connections,        \* of WifiManager
  monitor, sync,                 \* a lookup of the monitor, and of _init_wifi_state
  tasks,                         \* workers that have not yet asked NetworkManager
  taps, networkChanges           \* history: counts

nmVars == <<nmDevice, nmActive, nmSaved>>
signalVars == <<stateSignals, connSignals>>
wifiVars == <<nmVars, signalVars, wifiState, connections, monitor, sync, tasks, taps, networkChanges>>

Shown(ssid, status) == [ssid |-> ssid, status |-> status]
Signal(to, from, why) == [to |-> to, from |-> from, why |-> why]

\* A lookup: what it is for, the state it will write, and whether the epoch is still the one
\* it began with.
NoLookup == [pc |-> "idle", shown |-> Shown(NoSsid, "disconnected"), fresh |-> TRUE]
Lookup(pc, shown) == [pc |-> pc, shown |-> shown, fresh |-> TRUE]

WifiInit ==
  /\ nmDevice = "down" /\ nmActive = NoSsid /\ nmSaved \in SUBSET Ssids
  /\ stateSignals = <<>> /\ connSignals = <<>>
  /\ wifiState = Shown(NoSsid, "disconnected") /\ connections = nmSaved
  /\ monitor = NoLookup /\ sync = NoLookup /\ tasks = {}
  /\ taps = 0 /\ networkChanges = 0

-----------------------------------------------------------------------------
\* NetworkManager

Quieten == "overlap" \in WifiHappens \/ sync.pc = "idle"
ByItself == Quieten /\ ("pending" \in WifiHappens \/ tasks = {})
Emit(signals) == stateSignals' = stateSignals \o signals
Down == nmDevice' = "down" /\ nmActive' = NoSsid

\* It begins to activate a connection, and ends the one before; a stale refusal of that one
\* may come late.
Begin(ssid) ==
  /\ nmActive' = ssid /\ nmDevice' = "prepare"
  /\ IF nmDevice = "down" THEN Emit(<<Signal("prepare", "any", "none")>>)
     ELSE \E stale \in {<<>>, <<Signal("needAuth", "disconnected", "supplicantDisconnect")>>} :
            Emit(<<Signal("deactivating", "any", "newActivation"),
                   Signal("disconnected", "any", "newActivation")>> \o stale
                 \o <<Signal("prepare", "any", "none")>>)

NmProgress ==
  /\ ByItself
  /\ \/ nmDevice = "prepare" /\ nmDevice' = "config" /\ Emit(<<Signal("config", "any", "none")>>)
     \/ nmDevice = "config" /\ nmDevice' = "activated" /\ Emit(<<Signal("activated", "any", "none")>>)
  /\ UNCHANGED <<nmActive, nmSaved, connSignals, wifiState, connections, monitor, sync, tasks, taps,
                 networkChanges>>

\* A wrong password, a network that is gone; a saved network is connected to.
Refused == <<Signal("needAuth", "config", "supplicantDisconnect"),
             Signal("failed", "needAuth", "noSecrets"), Signal("disconnected", "any", "none")>>
Vanished == <<Signal("failed", "config", "noSecrets"), Signal("disconnected", "any", "none")>>
Lost == <<Signal("failed", "any", "ssidNotFound"), Signal("disconnected", "any", "none")>>

NmChange ==
  /\ ByItself /\ networkChanges < MaxNetworkChanges /\ networkChanges' = networkChanges + 1
  /\ \/ nmDevice = "config" /\ Down /\ (Emit(Refused) \/ Emit(Vanished))
     \/ nmDevice \in {"config", "activated"} /\ Down /\ Emit(Lost)
     \/ nmDevice = "down" /\ \E ssid \in nmSaved : Begin(ssid)
  /\ UNCHANGED <<nmSaved, connSignals, wifiState, connections, monitor, sync, tasks, taps>>

\* Its answers to the workers.
AddConnection(ssid) ==
  /\ nmSaved' = nmSaved \cup {ssid}
  /\ connSignals' = Append(connSignals, [added |-> TRUE, ssid |-> ssid])

Delete(ssid) ==
  /\ nmSaved' = nmSaved \ {ssid}
  /\ connSignals' = IF ssid \in nmSaved THEN Append(connSignals, [added |-> FALSE, ssid |-> ssid])
                    ELSE connSignals
  /\ IF nmActive # ssid THEN UNCHANGED <<nmDevice, nmActive, stateSignals>>
     ELSE Down /\ Emit(<<Signal("deactivating", "any", "connectionRemoved"),
                         Signal("disconnected", "any", "connectionRemoved")>>)

Deactivate(ssid) ==
  IF nmActive # ssid THEN UNCHANGED <<nmDevice, nmActive, stateSignals>>
  ELSE Down /\ Emit(<<Signal("deactivating", "any", "userRequested"),
                      Signal("disconnected", "any", "userRequested")>>)

-----------------------------------------------------------------------------
\* The screen, and the workers it starts

Stale(lookup) == IF lookup.pc = "idle" THEN lookup ELSE [lookup EXCEPT !.fresh = FALSE]

\* _set_connecting
SetConnecting(ssid) ==
  /\ wifiState' = Shown(ssid, IF ssid = NoSsid THEN "disconnected" ELSE "connecting")
  /\ sync' = Stale(sync) /\ monitor' = Stale(monitor)

\* connect_to_network, activate_connection, forget_connection, set_tethering_active(False)
Tap ==
  /\ taps < MaxTaps /\ taps' = taps + 1
  /\ "pending" \in WifiHappens \/ (stateSignals = <<>> /\ tasks = {})
  /\ \E ssid \in Ssids, kind \in {"connect", "activate", "forget", "deactivate"} :
       /\ (kind = "connect") <=> ssid \notin connections
       /\ tasks' = tasks \cup {[kind |-> kind, ssid |-> ssid]}
       /\ IF kind \in {"connect", "activate"}
          THEN SetConnecting(ssid)
          ELSE UNCHANGED <<wifiState, monitor, sync>>
  /\ UNCHANGED <<nmVars, signalVars, connections, networkChanges>>

\* The first read of _init_wifi_state: the state of the device.
StatusOf == [down |-> "disconnected", prepare |-> "connecting", config |-> "connecting",
             activated |-> "connected"]
BeginSync == sync.pc = "idle" /\ sync' = Lookup("connection", Shown(NoSsid, StatusOf[nmDevice]))
Settled == "overlap" \in WifiHappens \/ (stateSignals = <<>> /\ monitor.pc = "idle")

\* set_active(True)
OpenSettings ==
  /\ Settled /\ ("overlap" \in WifiHappens \/ tasks = {})
  /\ taps < MaxTaps /\ taps' = taps + 1 /\ BeginSync
  /\ UNCHANGED <<nmVars, signalVars, wifiState, connections, monitor, tasks, networkChanges>>

\* Its second read, and what it writes if the user has not acted.
SyncStep ==
  /\ \/ /\ sync.pc = "connection"
        /\ sync' = [sync EXCEPT !.pc = "write",
                                !.shown.ssid = IF nmActive \in connections THEN nmActive ELSE NoSsid]
        /\ UNCHANGED wifiState
     \/ /\ sync.pc = "write" /\ sync' = NoLookup
        /\ wifiState' = IF sync.fresh THEN sync.shown ELSE wifiState
  /\ UNCHANGED <<nmVars, signalVars, connections, monitor, tasks, taps, networkChanges>>

\* A worker asks NetworkManager, and for its state if it is refused.  One that connects
\* forgets the connection first.
WorkerStep(task) ==
  /\ task \in tasks /\ Quieten
  /\ tasks' = (tasks \ {task}) \cup (IF task.kind = "connect" THEN {[task EXCEPT !.kind = "add"]} ELSE {})
  /\ \/ /\ task.kind \in {"connect", "forget"} /\ UNCHANGED sync
        /\ IF task.ssid \in connections THEN Delete(task.ssid) ELSE UNCHANGED <<nmVars, signalVars>>
     \/ task.kind = "add" /\ AddConnection(task.ssid) /\ Begin(task.ssid) /\ UNCHANGED sync
     \/ /\ task.kind = "activate" /\ task.ssid \in connections /\ task.ssid \in nmSaved
        /\ Begin(task.ssid) /\ UNCHANGED <<nmSaved, connSignals, sync>>
     \/ /\ task.kind = "add" \/ (task.kind = "activate" /\ task.ssid \notin connections \cap nmSaved)
        /\ Settled /\ BeginSync /\ UNCHANGED <<nmVars, signalVars>>
     \/ task.kind = "deactivate" /\ Deactivate(task.ssid) /\ UNCHANGED <<nmSaved, connSignals, sync>>
  /\ UNCHANGED <<wifiState, connections, monitor, taps, networkChanges>>

-----------------------------------------------------------------------------
\* The monitor thread

\* _new_connection and _connection_removed
ConnectionSignal ==
  /\ monitor.pc = "idle" /\ connSignals # <<>> /\ connSignals' = Tail(connSignals)
  /\ connections' = IF Head(connSignals).added THEN connections \cup {Head(connSignals).ssid}
                    ELSE connections \ {Head(connSignals).ssid}
  /\ UNCHANGED <<nmVars, stateSignals, wifiState, monitor, sync, tasks, taps, networkChanges>>

Ignore == UNCHANGED <<wifiState, sync, monitor>>
ClearShown == SetConnecting(NoSsid)

\* _handle_state_change, by the new state.
MutDisconnected(why) ==
  IF why = "newActivation" \/ wifiState.ssid \in connections THEN Ignore ELSE ClearShown
Disconnected(why) ==
  IF \/ why = "newActivation"
     \/ why = "connectionRemoved" /\ wifiState.ssid \in connections
  THEN Ignore ELSE ClearShown

Preparing ==
  IF wifiState.ssid # NoSsid
  THEN wifiState' = [wifiState EXCEPT !.status = "connecting"] /\ UNCHANGED <<sync, monitor>>
  ELSE monitor' = Lookup("preparing", Shown(NoSsid, "connecting")) /\ UNCHANGED <<wifiState, sync>>

Refusal(s) == \/ s.to = "needAuth" /\ s.from = "config" /\ s.why = "supplicantDisconnect"
              \/ s.to = "failed" /\ s.why = "noSecrets"

Activated == monitor' = Lookup("activated", Shown(wifiState.ssid, "connected")) /\ UNCHANGED <<wifiState, sync>>

Deactivating(why) ==
  IF why = "connectionRemoved" /\ wifiState.status = "connected" THEN ClearShown ELSE Ignore

StateSignal ==
  /\ monitor.pc = "idle" /\ stateSignals # <<>> /\ stateSignals' = Tail(stateSignals)
  /\ "late" \in WifiHappens \/ connSignals = <<>>
  /\ LET s == Head(stateSignals)
     IN \/ s.to = "disconnected" /\ Disconnected(s.why)
        \/ s.to \in {"prepare", "config"} /\ Preparing
        \/ Refusal(s) /\ IF wifiState.ssid # NoSsid THEN ClearShown ELSE Ignore
        \/ s.to \in {"needAuth", "failed"} /\ ~Refusal(s) /\ Ignore
        \/ s.to = "activated" /\ Activated
        \/ s.to = "deactivating" /\ Deactivating(s.why)
  /\ UNCHANGED <<nmVars, connSignals, connections, tasks, taps, networkChanges>>

\* The lookup of the active connection, and what is written if the user has not acted.
MonitorLookup ==
  /\ \/ /\ monitor.pc \in {"preparing", "activated"}
        /\ monitor' = [monitor EXCEPT !.pc = "write",
                         !.shown.ssid = IF nmActive = NoSsid THEN @
                                        ELSE IF nmActive \in connections THEN nmActive ELSE NoSsid]
        /\ UNCHANGED wifiState
     \/ /\ monitor.pc = "write" /\ monitor' = NoLookup
        /\ wifiState' = IF monitor.fresh THEN monitor.shown ELSE wifiState
  /\ UNCHANGED <<nmVars, signalVars, connections, sync, tasks, taps, networkChanges>>

WifiNext ==
  \/ NmProgress \/ NmChange \/ Tap \/ OpenSettings \/ SyncStep
  \/ \E task \in tasks : WorkerStep(task)
  \/ ConnectionSignal \/ StateSignal \/ MonitorLookup

WifiSpec == WifiInit /\ [][WifiNext]_wifiVars

-----------------------------------------------------------------------------
\* Properties

\* The values each variable takes.
WifiTypeOK ==
  /\ nmDevice \in DOMAIN StatusOf /\ nmActive \in Ssids \cup {NoSsid} /\ nmSaved \subseteq Ssids
  /\ wifiState.ssid \in Ssids \cup {NoSsid}
  /\ wifiState.status \in {"disconnected", "connecting", "connected"}
  /\ connections \subseteq Ssids
  /\ monitor.pc \in {"idle", "preparing", "activated", "write"}
  /\ sync.pc \in {"idle", "connection", "write"}
  /\ taps \in 0..MaxTaps /\ networkChanges \in 0..MaxNetworkChanges

\* No signal, worker or lookup is on its way; the screen shows NetworkManager's state.
NothingWaits == stateSignals = <<>> /\ tasks = {} /\ monitor.pc = "idle" /\ sync.pc = "idle"
ShowsDevice == wifiState = Shown(nmActive, StatusOf[nmDevice])

\* Whenever nothing waits, the screen shows the state of the device; and once NetworkManager and
\* the user rest, it comes to show it (WifiManager._handle_state_change, _init_wifi_state).
WifiSettles ==
  /\ \A ssid \in Ssids :
       /\ [](NothingWaits => ShowsDevice)
       /\ <>[](nmDevice = "activated" /\ nmActive = ssid) => <>[](wifiState = Shown(ssid, "connected"))
  /\ <>[](nmDevice = "down") => <>[](wifiState.status = "disconnected")
=============================================================================
