----------------------------- MODULE Monitoring -----------------------------
(***************************************************************************)
(* Driver monitoring: the awareness of the driver, its alerts, and the     *)
(* lockout that follows alerts without an answer (DriverMonitoring of      *)
(* policy.py), with selfdrived, which keeps a lockout in a param so that   *)
(* the next dmonitoringd serves it.                                        *)
(*                                                                         *)
(* A frame of the camera gives what the model sees of the driver; pose,    *)
(* eyes, phone and their calibration are abstracted to that.  Awareness is *)
(* an integer, 0 at the terminal alert.                                    *)
(***************************************************************************)
EXTENDS Integers, Sequences

CONSTANTS
  Full,                \* the awareness of an attentive driver
  StepOf,              \* what a frame of inattention costs, by policy
  Alert1, Alert2,      \* the awareness of the first and the second alert, by policy
  RecoveryFactors,     \* how many of these steps an attentive frame may give back
  NoResponseTimeout,   \* frames of terminal alert that are no response
  MaxAlert3, MaxNoResponse,  \* how many of them lock the driver out
  LockoutTimes,        \* frames of the first lockouts; the last holds for the ones after
  HiStdFallback,       \* uncertain frames after which the wheel is monitored
  MaxLockouts          \* bound: lockouts counted

Policies == {"vision", "wheeltouch"}

ASSUME MonitoringAssumption ==
  /\ Full \in Nat \ {0} /\ HiStdFallback \in Nat
  /\ StepOf \in [Policies -> Nat \ {0}]
  /\ Alert1 \in [Policies -> 1..Full] /\ Alert2 \in [Policies -> 1..Full]
  /\ \A p \in Policies : Alert2[p] < Alert1[p] /\ Alert1[p] < Full
  /\ RecoveryFactors \subseteq Nat \ {0} /\ RecoveryFactors # {}
  /\ {NoResponseTimeout, MaxAlert3, MaxNoResponse, MaxLockouts} \subseteq Nat \ {0}
  /\ LockoutTimes \in Seq(Nat) /\ LockoutTimes # <<>>

VARIABLES
  awareness, policy, stepChange,     \* of DriverMonitoring
  last,                              \* the awareness a policy was left with
  filter, hiStds,                    \* the distraction filter, hi_stds
  alertLevel, alert3Cnt, sinceAlert3, noResponseCnt,
  lockoutActive, lockoutCount, lockoutElapsed,
  tooDistracted, lockoutSet,         \* the param, and selfdrived's dm_lockout_set
  excuse                             \* history: what speaks for the driver in a frame

dmAwareness == <<awareness, policy, stepChange, last>>
dmView == <<filter, hiStds>>
dmAlerts == <<alertLevel, alert3Cnt, sinceAlert3, noResponseCnt>>
dmLockout == <<lockoutActive, lockoutCount, lockoutElapsed>>
dmVars == <<dmAwareness, dmView, dmAlerts, dmLockout, tooDistracted, lockoutSet, excuse>>

\* No face; a face with high deviations; and what low deviations show of it.
Views == {"none", "unsure", "attentive", "distracted"}

Least(a, b) == IF a < b THEN a ELSE b
Most(a, b) == IF a > b THEN a ELSE b

\* The lowest awareness: -0.1.
Floor == -1

\* A DriverMonitoring that starts.
DmStart ==
  /\ awareness' = Full /\ policy' = "vision" /\ stepChange' = StepOf["vision"]
  /\ last' = [p \in Policies |-> Full]
  /\ filter' = 0 /\ hiStds' = 0
  /\ alertLevel' = 0 /\ alert3Cnt' = 0 /\ sinceAlert3' = 0 /\ noResponseCnt' = 0
  /\ lockoutElapsed' = 0
  /\ excuse' = "disengaged"

DmInit ==
  /\ awareness = Full /\ policy = "vision" /\ stepChange = StepOf["vision"]
  /\ last = [p \in Policies |-> Full]
  /\ filter = 0 /\ hiStds = 0
  /\ alertLevel = 0 /\ alert3Cnt = 0 /\ sinceAlert3 = 0 /\ noResponseCnt = 0
  /\ lockoutActive = FALSE /\ lockoutCount = 0 /\ lockoutElapsed = 0
  /\ tooDistracted = FALSE /\ lockoutSet = FALSE
  /\ excuse = "disengaged"

-----------------------------------------------------------------------------
\* One frame: _update_states, then _update_events

\* _set_policy: the policy, its awareness and its step.  No way out of the second alert of
\* vision, nor out of the terminal one.
MutSetPolicy(target) ==
  IF awareness <= 0 THEN [awareness |-> awareness, policy |-> policy, step |-> stepChange, last |-> last]
  ELSE [awareness |-> IF target = policy THEN awareness ELSE last[target],
        policy |-> target, step |-> StepOf[target],
        last |-> IF target = policy THEN last ELSE [last EXCEPT ![policy] = awareness]]
SetPolicy(target) ==
  IF policy = "vision" /\ awareness <= Alert2["vision"]
  THEN [awareness |-> awareness, policy |-> policy, last |-> last,
        step |-> IF target = "vision" THEN StepOf["vision"] ELSE 0]
  ELSE IF awareness <= 0
  THEN [awareness |-> awareness, policy |-> policy, step |-> stepChange, last |-> last]
  ELSE [awareness |-> IF target = policy THEN awareness ELSE last[target],
        policy |-> target, step |-> StepOf[target],
        last |-> IF target = policy THEN last ELSE [last EXCEPT ![policy] = awareness]]

\* The distraction filter: 0 below 0.37, 2 above 0.63.
Filtered(view) == IF view = "distracted" THEN Least(filter + 1, 2) ELSE Most(filter - 1, 0)

Face(view) == view # "none"
LowStd(view) == view \in {"attentive", "distracted"}
Uncertain == hiStds >= HiStdFallback

CountStds(view) ==
  hiStds' = IF view = "unsure" THEN Least(hiStds + 1, HiStdFallback)
            ELSE IF Face(view) THEN 0 ELSE hiStds

\* The lockout: begun by unanswered alerts, ended by time.
LockoutBegins == alert3Cnt >= MaxAlert3 \/ noResponseCnt >= MaxNoResponse
CountedLockouts ==
  IF LockoutBegins /\ ~lockoutActive THEN Least(lockoutCount + 1, MaxLockouts) ELSE lockoutCount
Duration(count) == LockoutTimes[Least(Most(count, 1), Len(LockoutTimes))]
LockoutEnds ==
  (LockoutBegins \/ lockoutActive) /\ lockoutElapsed + 1 > Duration(CountedLockouts)

UpdateLockout ==
  /\ lockoutCount' = CountedLockouts
  /\ lockoutActive' = ((LockoutBegins \/ lockoutActive) /\ ~LockoutEnds)
  /\ lockoutElapsed' = IF lockoutActive' THEN lockoutElapsed + 1 ELSE 0

\* A count of alerts, which the end of a lockout takes back to 0.
Kept(count) == IF LockoutEnds THEN 0 ELSE count

ResetAwareness(p) ==
  /\ awareness' = Full /\ last' = [q \in Policies |-> Full]
  /\ policy' = p.policy /\ stepChange' = p.step

NoAlert ==
  /\ alertLevel' = 0
  /\ alert3Cnt' = Kept(alert3Cnt) /\ sinceAlert3' = Kept(sinceAlert3)
  /\ noResponseCnt' = Kept(noResponseCnt)

\* The alert of an awareness, and what a terminal one is counted for.
Alert(p, now) ==
  IF now > 0
  THEN /\ alertLevel' = IF now <= Alert2[p.policy] THEN 2 ELSE IF now <= Alert1[p.policy] THEN 1 ELSE 0
       /\ alert3Cnt' = Kept(alert3Cnt) /\ sinceAlert3' = Kept(sinceAlert3)
       /\ noResponseCnt' = Kept(noResponseCnt)
  ELSE /\ alertLevel' = 3
       /\ alert3Cnt' = IF p.awareness > 0 THEN Kept(alert3Cnt) + 1 ELSE Kept(alert3Cnt)
       /\ sinceAlert3' = IF p.awareness > 0 THEN 0 ELSE Least(Kept(sinceAlert3) + 1, NoResponseTimeout + 1)
       /\ noResponseCnt' = IF sinceAlert3' = NoResponseTimeout THEN Kept(noResponseCnt) + 1
                           ELSE Kept(noResponseCnt)

\* certainly_distracted or maybe_distracted
Inattentive(view) == (filter' = 2 /\ view = "distracted") \/ Uncertain \/ ~Face(view)

\* The awareness that was kept or restored to given goes down a step if the driver is
\* inattentive and nothing exempts the frame.
Watch(p, view, exempt, given, keptLast) ==
  LET now == IF Inattentive(view) /\ ~exempt THEN Most(given - p.step, Floor) ELSE given
  IN /\ awareness' = now /\ policy' = p.policy /\ stepChange' = p.step /\ last' = keptLast
     /\ Alert(p, now)

\* What an attentive frame gives back, by a factor of the step; no banner while it clears
\* the second alert.
Restore(p, view, exempt) ==
  \E k \in RecoveryFactors :
    LET given == Least(p.awareness + k * p.step, Full)
        keptLast == IF given = Full
                    THEN [p.last EXCEPT !["wheeltouch"] = Least(@ + p.step, Full)] ELSE p.last
    IN IF given > Alert2[p.policy]
       THEN /\ awareness' = given /\ policy' = p.policy /\ stepChange' = p.step /\ last' = keptLast
            /\ NoAlert
       ELSE Watch(p, view, exempt, given, keptLast)

\* run_step, with the driver touching the wheel or the gas, and alwaysOn that the setting is
\* on in a forward gear.
DmFrame ==
  \E view \in Views, touching, engaged, lowspeed, alwaysOn \in BOOLEAN :
    LET p == SetPolicy(IF Face(view) /\ ~Uncertain THEN "vision" ELSE "wheeltouch")
        slow == lowspeed /\ p.awareness - p.step <= Alert1[p.policy]
        exempt == slow \/ (alwaysOn /\ ~engaged /\ p.awareness - p.step <= 0)
        resets == \/ touching /\ p.awareness > 0 /\ p.policy = "wheeltouch"
                  \/ ~engaged /\ (~alwaysOn \/ p.awareness <= 0)
        attentive == p.awareness > 0 /\ ((filter' = 0 /\ LowStd(view)) \/ slow)
    IN /\ engaged => ~alwaysOn   \* it makes no difference then
       /\ filter' = Filtered(view) /\ CountStds(view)
       /\ UpdateLockout
       /\ \/ (resets \/ (attentive /\ touching)) /\ ResetAwareness(p) /\ NoAlert
          \/ ~resets /\ attentive /\ ~touching /\ Restore(p, view, exempt)
          \/ ~resets /\ ~attentive /\ Watch(p, view, exempt, p.awareness, p.last)
       /\ excuse' = IF ~engaged THEN "disengaged" ELSE IF lowspeed THEN "slow"
                    ELSE IF LowStd(view) /\ filter' = 0 THEN "attentive" ELSE "none"
       /\ UNCHANGED <<tooDistracted, lockoutSet>>

-----------------------------------------------------------------------------
\* selfdrived, and drives

\* selfdrived follows the lockout with the param.
MutRememberLockout == lockoutSet' = lockoutActive /\ tooDistracted' = (lockoutActive /\ ~lockoutSet /\ tooDistracted)
RememberLockout == lockoutSet' = lockoutActive /\ tooDistracted' = lockoutActive

SelfdrivedLockout ==
  /\ lockoutSet # lockoutActive /\ RememberLockout
  /\ UNCHANGED <<dmAwareness, dmView, dmAlerts, dmLockout, excuse>>

\* Another drive with the ignition left on: both processes start again.  It takes the manager
\* seconds, within which selfdrived has followed.
OnroadCycle ==
  /\ lockoutSet = lockoutActive
  /\ DmStart
  /\ lockoutActive' = tooDistracted /\ lockoutSet' = FALSE
  /\ UNCHANGED <<lockoutCount, tooDistracted>>

\* The ignition is turned on anew, which clears both params.
NewIgnition ==
  /\ DmStart
  /\ lockoutActive' = FALSE /\ lockoutCount' = 0 /\ lockoutSet' = FALSE /\ tooDistracted' = FALSE

DmNext == DmFrame \/ SelfdrivedLockout \/ OnroadCycle \/ NewIgnition

DmSpec == DmInit /\ [][DmNext]_dmVars

-----------------------------------------------------------------------------
\* Properties

\* The values each variable takes.
DmTypeOK ==
  /\ awareness \in Floor..Full /\ policy \in Policies /\ stepChange \in Nat
  /\ last \in [Policies -> Floor..Full]
  /\ filter \in 0..2 /\ hiStds \in 0..HiStdFallback
  /\ alertLevel \in 0..3 /\ alert3Cnt \in Nat /\ sinceAlert3 \in 0..(NoResponseTimeout + 1)
  /\ noResponseCnt \in Nat
  /\ lockoutActive \in BOOLEAN /\ lockoutCount \in 0..MaxLockouts /\ lockoutElapsed \in Nat
  /\ tooDistracted \in BOOLEAN /\ lockoutSet \in BOOLEAN
  /\ excuse \in {"none", "attentive", "slow", "disengaged"}

\* policy.py "no exploit after orange alert", and test_monitoring's "only disengaging clears
\* red": the terminal alert outlasts whatever an engaged driver does, and the second alert of
\* vision outlasts a driver who hides from the camera or touches the wheel.
AlertsNeedAttention ==
  [][/\ awareness <= 0 /\ awareness' > awareness => excuse' = "disengaged"
     /\ policy = "vision" /\ awareness <= Alert2["vision"] /\ awareness' > awareness
          => excuse' # "none"]_dmVars

\* selfdrived.py "Block engaging until lockout times out or ignition reset": no lockout ends
\* before its time but with the ignition, also when the drive is begun anew.
LockoutServed ==
  [][lockoutActive /\ ~lockoutActive' =>
       lockoutElapsed >= Duration(lockoutCount) \/ (lockoutCount' = 0 /\ ~tooDistracted')]_dmVars
=============================================================================
