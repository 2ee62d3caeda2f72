------------------------------- MODULE Modem -------------------------------
(***************************************************************************)
(* modem.py: the state machine that brings up the cellular connection over *)
(* AT commands and pppd, and follows changes of the SIM, the port, the     *)
(* settings and the network.  An iteration of its loop looks at the SIM,   *)
(* then runs the handler of the state.  AT commands share a lock with the  *)
(* eSIM tool (LPA): while it holds the lock they return nothing.           *)
(***************************************************************************)
EXTENDS Naturals

CONSTANTS
  Sims, Webbing, NoSim,  \* SIMs, those that may always roam, none
  Apns,                  \* values of the param GsmApn
  MaxFails,              \* PPPSession.MAX_FAILS
  ModemHappens,          \* the unlucky timings a run allows, see ModemTimings
  MaxModemChanges        \* bound: changes of what surrounds the modem

\* "grab": the LPA takes the lock, or the modem goes, between two AT commands of an
\* initialization.
ModemTimings == {"grab"}

ASSUME ModemAssumption ==
  /\ NoSim \notin Sims /\ Webbing \subseteq Sims /\ Apns # {}
  /\ MaxFails \in Nat \ {0} /\ MaxModemChanges \in Nat /\ ModemHappens \subseteq ModemTimings

VARIABLES
  port, sim, lpaHolds,               \* the modem is there, the SIM in it, the lock is taken
  registration, attached,            \* what AT+CREG? and AT+CGREG? answer
  gsmApn, gsmRoaming,                \* the params
  contextApn,                        \* the APN of the data context, in the modem
  pppd, routed,                      \* the session; routes of its peer are installed
  modemState, modemPc,               \* where the loop is
  iccid, simChange, apn, roamingAllowed, fails,   \* of Modem and PPPSession
  modemChanges

deviceVars == <<port, sim, lpaHolds, registration, attached, gsmApn, gsmRoaming>>
sessionVars == <<contextApn, pppd, routed>>
loopVars == <<modemState, modemPc, iccid, simChange, apn, roamingAllowed, fails>>
modemVars == <<deviceVars, sessionVars, loopVars, modemChanges>>

ModemInit ==
  /\ port = FALSE /\ sim \in Sims /\ lpaHolds = FALSE /\ registration = "none" /\ attached = FALSE
  /\ gsmApn \in Apns /\ gsmRoaming \in BOOLEAN
  /\ contextApn \in Apns /\ pppd = "none" /\ routed = FALSE
  /\ modemState = "INITIALIZING" /\ modemPc = "check"
  /\ iccid = NoSim /\ simChange = FALSE /\ apn = gsmApn /\ roamingAllowed = TRUE /\ fails = 0
  /\ modemChanges = 0

-----------------------------------------------------------------------------
\* What surrounds it

\* A modem that appears, goes or resets; a SIM; the LPA; the network; the settings; pppd, which
\* ends when the carrier is lost.
MayInterrupt == "grab" \in ModemHappens \/ modemPc # "configure"
Surroundings ==
  /\ modemChanges < MaxModemChanges /\ modemChanges' = modemChanges + 1
  /\ \/ /\ \/ port' = ~port /\ MayInterrupt /\ UNCHANGED sim
           \/ sim' \in (Sims \cup {NoSim}) \ {sim} /\ UNCHANGED port
        /\ registration' = "none" /\ attached' = FALSE
        /\ pppd' = IF pppd \in {"dialing", "up"} THEN "exited" ELSE pppd
        /\ UNCHANGED <<lpaHolds, gsmApn, gsmRoaming>>
     \/ /\ lpaHolds' = ~lpaHolds /\ MayInterrupt
        /\ UNCHANGED <<port, sim, registration, attached, gsmApn, gsmRoaming, pppd>>
     \/ /\ gsmApn' \in Apns /\ gsmRoaming' \in BOOLEAN
        /\ UNCHANGED <<port, sim, lpaHolds, registration, attached, pppd>>
     \/ /\ pppd \in {"dialing", "up"} /\ pppd' = "exited"
        /\ UNCHANGED <<port, sim, lpaHolds, registration, attached, gsmApn, gsmRoaming>>
  /\ UNCHANGED <<contextApn, routed, loopVars>>

\* The network is found or lost, with the data context a little later.
Network ==
  /\ port /\ sim # NoSim
  /\ \/ registration = "none" /\ registration' \in {"home", "roaming"} /\ UNCHANGED <<attached, modemChanges>>
     \/ registration # "none" /\ ~attached /\ attached' = TRUE /\ UNCHANGED <<registration, modemChanges>>
     \/ /\ modemChanges < MaxModemChanges /\ modemChanges' = modemChanges + 1 /\ attached' = FALSE
        /\ registration' \in {"none", "roaming"}
  /\ UNCHANGED <<port, sim, lpaHolds, gsmApn, gsmRoaming, sessionVars, loopVars>>

Dialled ==
  /\ pppd = "dialing" /\ pppd' = "up"
  /\ UNCHANGED <<deviceVars, contextApn, routed, loopVars, modemChanges>>

-----------------------------------------------------------------------------
\* modem.py

AtWorks == port /\ ~lpaHolds

\* _check_iccid
MutNoticesSim == FALSE
NoticesSim == AtWorks /\ sim # NoSim /\ sim # iccid

ModemCheck ==
  /\ modemPc = "check" /\ modemPc' = "handle"
  /\ simChange' = (simChange \/ (modemState \notin {"INITIALIZING", "DISCONNECTING"} /\ iccid # NoSim
                                  /\ NoticesSim))
  /\ UNCHANGED <<deviceVars, sessionVars, modemState, iccid, apn, roamingAllowed, fails, modemChanges>>

Goto(state) == modemState' = state /\ modemPc' = "check"

\* _is_roaming_allowed, with a SIM
MayRoam(card) == card \in Webbing \/ gsmRoaming

\* _do_initializing, to the identity; then the APN is written, which nothing verifies.
Initializing ==
  /\ IF ~port THEN UNCHANGED <<pppd, routed>> ELSE pppd' = "none" /\ routed' = FALSE
  /\ IF AtWorks /\ sim # NoSim
     THEN /\ modemPc' = "configure" /\ UNCHANGED modemState
          /\ iccid' = sim /\ apn' = gsmApn /\ roamingAllowed' = MayRoam(sim) /\ simChange' = FALSE
     ELSE Goto("INITIALIZING") /\ UNCHANGED <<iccid, apn, roamingAllowed, simChange>>
  /\ UNCHANGED <<contextApn, fails>>

ModemConfigure ==
  /\ modemPc = "configure" /\ Goto("SEARCHING")
  /\ contextApn' = IF AtWorks THEN apn ELSE contextApn
  /\ UNCHANGED <<deviceVars, pppd, routed, iccid, simChange, apn, roamingAllowed, fails, modemChanges>>

\* _do_searching: a network that may be used is connected to, else a change is looked for,
\* unless it may not be used.
Searching ==
  /\ roamingAllowed' = MayRoam(iccid)
  /\ IF AtWorks /\ registration = "roaming" /\ ~MayRoam(iccid) THEN Goto("SEARCHING")
     ELSE IF AtWorks /\ registration # "none" /\ attached THEN Goto("CONNECTING")
     ELSE IF simChange \/ ~port THEN Goto("DISCONNECTING") ELSE Goto("SEARCHING")
  /\ UNCHANGED <<sessionVars, iccid, simChange, apn, fails>>

Connecting ==
  /\ Goto("CONNECTED") /\ pppd' = "dialing" /\ routed' = FALSE /\ fails' = 0 /\ simChange' = FALSE
  /\ UNCHANGED <<contextApn, iccid, apn, roamingAllowed>>

\* _handle_pppd_exit: dial again, a few times.
PppdExit ==
  IF simChange \/ ~port \/ fails + 1 >= MaxFails
  THEN /\ Goto("DISCONNECTING") /\ UNCHANGED <<pppd, routed>>
       /\ fails' = IF simChange \/ ~port THEN fails ELSE fails + 1
  ELSE Goto("CONNECTED") /\ pppd' = "dialing" /\ routed' = FALSE /\ fails' = fails + 1

MutParamsChanged == MayRoam(iccid) # roamingAllowed
ParamsChanged == gsmApn # apn \/ MayRoam(iccid) # roamingAllowed

\* _do_connected: the routes of a new peer are installed; if they cannot be, pppd is killed.
Connected ==
  /\ \/ pppd = "exited" /\ PppdExit
     \/ /\ pppd # "exited" /\ (simChange \/ ~port \/ ParamsChanged)
        /\ Goto("DISCONNECTING") /\ UNCHANGED <<pppd, routed, fails>>
     \/ /\ pppd # "exited" /\ ~(simChange \/ ~port \/ ParamsChanged)
        /\ Goto("CONNECTED") /\ UNCHANGED fails
        /\ \/ routed' = (routed \/ pppd = "up") /\ UNCHANGED pppd
           \/ pppd = "up" /\ ~routed /\ fails = 0 /\ pppd' = "exited" /\ UNCHANGED routed
  /\ UNCHANGED <<contextApn, iccid, simChange, apn, roamingAllowed>>

\* _do_disconnecting publishes the initial state, and no ICCID.
Disconnecting ==
  /\ Goto("INITIALIZING")
  /\ iccid' = NoSim /\ pppd' = "none" /\ routed' = FALSE /\ simChange' = FALSE
  /\ UNCHANGED <<contextApn, apn, roamingAllowed, fails>>

ModemHandle ==
  /\ modemPc = "handle"
  /\ \/ modemState = "INITIALIZING" /\ Initializing
     \/ modemState = "SEARCHING" /\ Searching
     \/ modemState = "CONNECTING" /\ Connecting
     \/ modemState = "CONNECTED" /\ Connected
     \/ modemState = "DISCONNECTING" /\ Disconnecting
  /\ UNCHANGED <<deviceVars, modemChanges>>

\* An exception in a handler.
ModemError ==
  /\ modemChanges < MaxModemChanges /\ modemChanges' = modemChanges + 1
  /\ modemPc # "check" /\ Goto("DISCONNECTING")
  /\ UNCHANGED <<deviceVars, sessionVars, iccid, simChange, apn, roamingAllowed, fails>>

ModemLoop == ModemCheck \/ ModemHandle \/ ModemConfigure
ModemNext == Surroundings \/ Network \/ Dialled \/ ModemLoop \/ ModemError

ModemSpec == ModemInit /\ [][ModemNext]_modemVars

-----------------------------------------------------------------------------
\* Properties

\* The values each variable takes.
ModemTypeOK ==
  /\ {port, lpaHolds, attached, gsmRoaming, routed, simChange, roamingAllowed} \subseteq BOOLEAN
  /\ {sim, iccid} \subseteq Sims \cup {NoSim} /\ registration \in {"none", "home", "roaming"}
  /\ {gsmApn, contextApn, apn} \subseteq Apns /\ pppd \in {"none", "dialing", "up", "exited"}
  /\ modemState \in {"INITIALIZING", "SEARCHING", "CONNECTING", "CONNECTED", "DISCONNECTING"}
  /\ modemPc \in {"check", "handle", "configure"} /\ fails \in 0..MaxFails
  /\ modemChanges \in 0..MaxModemChanges

Usable == gsmRoaming \/ registration = "home"

\* A modem with a SIM that finds a network any SIM may use comes to be connected with that SIM
\* and the APN of the settings, whatever was swapped, held, lost or failed before (_do_searching,
\* _do_connected, _handle_pppd_exit).  At a network only a Webbing SIM may use a modem that
\* searched with another SIM never looks at the swap.
ModemConnects ==
  \A card \in Sims, name \in Apns :
    <>[](port /\ ~lpaHolds /\ sim = card /\ gsmApn = name /\ Usable /\ registration # "none" /\ attached)
      => <>[](modemState = "CONNECTED" /\ pppd = "up" /\ routed /\ iccid = card /\ contextApn = name)
=============================================================================
