------------------------------- MODULE Sounds -------------------------------
(***************************************************************************)
(* soundd: its loop takes the alert to sound from selfdriveState, or from  *)
(* selfdrived's silence, and the callback of the audio library, another    *)
(* thread, plays it block by block.  They share the alert, the position in *)
(* it and the wish to stop at the end of a loop, and have no lock.         *)
(*                                                                         *)
(* A sound is Blocks calls of the callback long.  Volumes are left out.    *)
(***************************************************************************)
EXTENDS Naturals

CONSTANTS
  Alerts, Looped,      \* the sounds, and those that are played until they are stopped
  Immediate, NoSound,  \* warningImmediate and none
  Blocks, AlarmRounds, \* calls of the callback: a sound's length, and the least of an alarm
  SoundHappens,        \* the unlucky timings a run allows, see SoundTimings
  MaxAlertChanges      \* bound: changes of what selfdrived asks for, and its stalls

\* "lookup": the alert is taken back between the callback's test of it and its look-up;
\* "frame": it is changed inside the callback's `current_sound_frame +='.
SoundTimings == {"lookup", "frame"}

ASSUME SoundsAssumption ==
  /\ Looped \subseteq Alerts /\ Immediate \in Looped /\ NoSound \notin Alerts
  /\ {Blocks, AlarmRounds} \subseteq Nat \ {0} /\ MaxAlertChanges \in Nat /\ SoundHappens \subseteq SoundTimings

VARIABLES
  wanted, engaged, publishing,   \* the last selfdriveState, and whether more come
  missing,             \* for how long none came: "fresh", "alarm" from 5 s on, "over" from 15 s on
  alarmTime,           \* what of the alarm's time has passed: 0 before the loop saw it
  sound, position,     \* current_alert, current_sound_frame, kept below two rounds
  pendingStop, timeoutAlert,
  loopPc,              \* soundd's loop: "turn", or "reset" before a new alert's position is
  blockPc, blockSound, blockFrom,  \* the callback, the alert it looked up and the position it read
  heard,               \* history: what the last block was of
  soundDead, alertChanges

soundVars == <<wanted, engaged, publishing, missing, alarmTime, sound, position, pendingStop, timeoutAlert,
               loopPc, blockPc, blockSound, blockFrom, heard, soundDead, alertChanges>>
selfdriveVars == <<wanted, engaged, publishing, missing, alertChanges>>
blockVars == <<blockPc, blockSound, blockFrom, heard, soundDead>>

SoundsInit ==
  /\ wanted = NoSound /\ engaged = FALSE /\ publishing = TRUE /\ missing = "fresh" /\ alarmTime = 0
  /\ sound = NoSound /\ position = 0 /\ pendingStop = FALSE /\ timeoutAlert = FALSE
  /\ loopPc = "turn" /\ blockPc = "idle" /\ blockSound = NoSound /\ blockFrom = 0
  /\ heard = NoSound /\ soundDead = FALSE /\ alertChanges = 0

-----------------------------------------------------------------------------
\* selfdrived

AlertChange == alertChanges < MaxAlertChanges /\ alertChanges' = alertChanges + 1

AlertWanted ==
  /\ publishing /\ missing = "fresh" /\ AlertChange
  /\ wanted' \in Alerts \cup {NoSound} /\ engaged' \in BOOLEAN
  /\ UNCHANGED <<publishing, missing, alarmTime, sound, position, pendingStop, timeoutAlert, loopPc, blockVars>>

\* It dies or stalls, and may come back.
SelfdriveStalls ==
  /\ AlertChange /\ publishing' = ~publishing
  /\ missing' = IF publishing' THEN "fresh" ELSE missing
  /\ alarmTime' = IF publishing' THEN 0 ELSE alarmTime
  /\ UNCHANGED <<wanted, engaged, sound, position, pendingStop, timeoutAlert, loopPc, blockVars>>

\* Five and fifteen seconds of silence: the alarm's ten are two hundred turns of the loop and
\* a hundred blocks.
SelfdriveMissing ==
  /\ ~publishing
  /\ \/ missing = "fresh" /\ missing' = "alarm"
     \/ missing = "alarm" /\ (alarmTime = 2 * AlarmRounds \/ ~engaged) /\ missing' = "over"
  /\ UNCHANGED <<wanted, engaged, publishing, alarmTime, sound, position, pendingStop, timeoutAlert, loopPc,
                 blockVars, alertChanges>>

-----------------------------------------------------------------------------
\* The loop

PlayedOnce == sound = NoSound \/ position >= Blocks

\* update_alert up to the assignment of current_alert; the position follows.
UpdateAlert(new) ==
  IF new = NoSound /\ sound \in Looped
  THEN IF PlayedOnce THEN pendingStop' = TRUE /\ UNCHANGED <<sound, loopPc>>
       ELSE sound' = NoSound /\ loopPc' = "reset" /\ UNCHANGED pendingStop
  ELSE /\ pendingStop' = FALSE
       /\ IF sound # new /\ (new # NoSound \/ PlayedOnce)
          THEN sound' = new /\ loopPc' = "reset"
          ELSE UNCHANGED <<sound, loopPc>>

\* check_selfdrive_timeout_alert
SelfdriveTimedOut == missing = "alarm" /\ engaged

\* The alarm's time: the loop and the callback take turns in it, in truth many more of each.
Passing(time, whose) == IF time < 2 * AlarmRounds /\ time % 2 = whose THEN time + 1 ELSE time

\* get_audible_alert: a message that came since the last turn, or none.
LoopTurn ==
  /\ ~soundDead /\ loopPc = "turn"
  /\ \/ publishing /\ UpdateAlert(wanted) /\ UNCHANGED <<timeoutAlert, alarmTime>>
     \/ SelfdriveTimedOut /\ UpdateAlert(Immediate) /\ timeoutAlert' = TRUE
        /\ alarmTime' = Passing(alarmTime, 0)
     \/ ~SelfdriveTimedOut /\ timeoutAlert /\ UpdateAlert(NoSound) /\ timeoutAlert' = FALSE /\ UNCHANGED alarmTime
  /\ UNCHANGED <<selfdriveVars, position, blockVars>>

MutLoopReset ==
  /\ ~soundDead /\ loopPc = "reset" /\ loopPc' = "turn" /\ UNCHANGED position
  /\ UNCHANGED <<selfdriveVars, alarmTime, sound, pendingStop, timeoutAlert, blockVars>>
LoopReset ==
  /\ ~soundDead /\ loopPc = "reset" /\ loopPc' = "turn" /\ position' = 0
  /\ UNCHANGED <<selfdriveVars, alarmTime, sound, pendingStop, timeoutAlert, blockVars>>

-----------------------------------------------------------------------------
\* The callback

\* The test of current_alert and the look-up of its sound.  An alert taken back between the two
\* is in no table, and an exception in the callback ends the stream and with it soundd.
BlockBegins ==
  /\ ~soundDead /\ blockPc = "idle"
  /\ alarmTime' = Passing(alarmTime, 1)
  /\ IF sound = NoSound
     THEN heard' = NoSound /\ UNCHANGED <<blockPc, blockSound, blockFrom, soundDead>>
     ELSE /\ blockPc' = "play" /\ blockSound' = sound /\ blockFrom' = position /\ UNCHANGED heard
          /\ soundDead' \in IF "lookup" \in SoundHappens /\ wanted = NoSound THEN BOOLEAN ELSE {FALSE}
  /\ UNCHANGED <<selfdriveVars, sound, position, pendingStop, timeoutAlert, loopPc>>

\* A position after one more block.
Advanced(p) == IF p + 1 = 2 * Blocks THEN Blocks ELSE p + 1

\* A block is copied; a sound that is not looped ends after its first round.
BlockPlays ==
  /\ ~soundDead /\ blockPc = "play"
  /\ IF blockSound \in Looped \/ blockFrom < Blocks
     THEN /\ heard' = blockSound
          /\ position' \in {Advanced(position)} \cup IF "frame" \in SoundHappens THEN {Advanced(blockFrom)} ELSE {}
          /\ blockPc' = IF pendingStop /\ position' % Blocks = 0 THEN "stop" ELSE "idle"
     ELSE heard' = NoSound /\ blockPc' = "idle" /\ UNCHANGED position
  /\ UNCHANGED <<selfdriveVars, alarmTime, sound, pendingStop, timeoutAlert, loopPc, blockSound, blockFrom, soundDead>>

\* The stop at the end of a loop, of whatever alert is current by now.
BlockStops ==
  /\ blockPc = "stop" /\ blockPc' = "idle"
  /\ sound' = NoSound /\ pendingStop' = FALSE
  /\ UNCHANGED <<selfdriveVars, alarmTime, position, timeoutAlert, loopPc, blockSound, blockFrom, heard, soundDead>>

Callback == BlockBegins \/ BlockPlays \/ BlockStops

SoundsNext == AlertWanted \/ SelfdriveStalls \/ SelfdriveMissing \/ LoopTurn \/ LoopReset \/ Callback

-----------------------------------------------------------------------------
\* Properties

\* What must be heard is: an alert that is played once, when selfdrived begins and goes on
\* asking for it; a looped one, for as long as it is asked for; and the silence of a selfdrived
\* that was engaged ends in the immediate warning.  All of it against the callback's stop of the
\* alert before, which may hit the new one, a stop that is still pending, and a position that
\* is reset after the alert it belongs to.  (What selfdrived asks for changes MaxAlertChanges times.)
AlertsAreHeard ==
  /\ \A a \in Alerts \ Looped : LET held == publishing /\ wanted = a IN (held /\ sound # a) ~> (heard = a \/ ~held)
  /\ <>[](publishing /\ wanted \in Looped) => <>[](sound = wanted /\ heard = wanted)
  /\ (engaged /\ ~publishing /\ missing = "fresh") ~> (publishing \/ heard = Immediate)
=============================================================================
