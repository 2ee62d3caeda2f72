-------------------------- MODULE MonitoringProofs --------------------------
(***************************************************************************)
(* Proofs about Monitoring, for any thresholds, steps and timeouts: types, *)
(* that an alert is not cleared without attention, and that a lockout is   *)
(* served.                                                                 *)
(***************************************************************************)
EXTENDS Monitoring, TLAPS

\* What the param knows of a lockout, selfdrived has set.
LockoutKept == lockoutSet => tooDistracted

DmInv == DmTypeOK /\ LockoutKept

\* The types in groups.
AwarenessType ==
  /\ awareness \in Floor..Full /\ policy \in Policies /\ stepChange \in Nat
  /\ last \in [Policies -> Floor..Full]
ViewType == filter \in 0..2 /\ hiStds \in 0..HiStdFallback
AlertType ==
  /\ alertLevel \in 0..3 /\ alert3Cnt \in Nat /\ sinceAlert3 \in 0..(NoResponseTimeout + 1)
  /\ noResponseCnt \in Nat
LockoutType ==
  /\ lockoutActive \in BOOLEAN /\ lockoutCount \in 0..MaxLockouts /\ lockoutElapsed \in Nat
  /\ tooDistracted \in BOOLEAN /\ lockoutSet \in BOOLEAN
ExcuseType == excuse \in {"none", "attentive", "slow", "disengaged"}

LEMMA DmTypeGroups ==
  /\ DmTypeOK <=> AwarenessType /\ ViewType /\ AlertType /\ LockoutType /\ ExcuseType
  /\ DmTypeOK' <=> AwarenessType' /\ ViewType' /\ AlertType' /\ LockoutType' /\ ExcuseType'
BY DEF DmTypeOK, AwarenessType, ViewType, AlertType, LockoutType, ExcuseType

\* The constants, one by one.
LEMMA DmConstants ==
  /\ Full \in Nat /\ Full > 0 /\ Floor = -1 /\ Floor \in Int /\ HiStdFallback \in Nat
  /\ "vision" \in Policies /\ "wheeltouch" \in Policies
  /\ \A p \in Policies : StepOf[p] \in Nat /\ Alert1[p] \in 1..Full /\ Alert2[p] \in 1..Full
  /\ RecoveryFactors \subseteq Nat
  /\ NoResponseTimeout \in Nat /\ MaxLockouts \in Nat /\ MaxLockouts > 0
BY MonitoringAssumption DEF Floor, Policies

\* Least and Most, where they are of numbers.
LEMMA LeastMost ==
  ASSUME NEW a \in Int, NEW b \in Int
  PROVE  /\ Least(a, b) \in {a, b} /\ Least(a, b) <= a /\ Least(a, b) <= b
         /\ Most(a, b) \in {a, b} /\ Most(a, b) >= a /\ Most(a, b) >= b
BY DEF Least, Most

\* The duration of every lockout is a number.
LEMMA DurationType == \A count \in 0..MaxLockouts : Duration(count) \in Nat
<1> SUFFICES ASSUME NEW count \in 0..MaxLockouts PROVE Duration(count) \in Nat
  OBVIOUS
<1>1. LockoutTimes \in Seq(Nat) /\ Len(LockoutTimes) \in Nat /\ Len(LockoutTimes) > 0
  BY MonitoringAssumption
<1>2. count \in Int /\ 1 \in Int /\ Len(LockoutTimes) \in Int
  BY <1>1, DmConstants
<1>3. Most(count, 1) \in {count, 1} /\ Most(count, 1) >= 1
  BY <1>2, LeastMost
<1>4. Most(count, 1) \in Int
  BY <1>2, <1>3
<1>5. Least(Most(count, 1), Len(LockoutTimes)) \in 1..Len(LockoutTimes)
  BY <1>1, <1>2, <1>3, <1>4, LeastMost
<1> QED BY <1>1, <1>5 DEF Duration

\* _set_policy keeps the types, and holds on to an alert: to the second one of vision, and to
\* the terminal one.
LEMMA SetPolicyType ==
  ASSUME AwarenessType, NEW target \in Policies
  PROVE  /\ SetPolicy(target).awareness \in Floor..Full
         /\ SetPolicy(target).policy \in Policies
         /\ SetPolicy(target).step \in Nat
         /\ SetPolicy(target).last \in [Policies -> Floor..Full]
         /\ awareness <= 0 => SetPolicy(target).awareness = awareness
         /\ policy = "vision" /\ awareness <= Alert2["vision"] =>
              SetPolicy(target).awareness = awareness /\ SetPolicy(target).policy = "vision"
<1>1. CASE policy = "vision" /\ awareness <= Alert2["vision"]
  BY <1>1, DmConstants DEF SetPolicy, AwarenessType
<1>2. CASE ~(policy = "vision" /\ awareness <= Alert2["vision"]) /\ awareness <= 0
  BY <1>2 DEF SetPolicy, AwarenessType
<1>3. CASE ~(policy = "vision" /\ awareness <= Alert2["vision"]) /\ ~(awareness <= 0)
  <2>1. SetPolicy(target) =
          [awareness |-> IF target = policy THEN awareness ELSE last[target],
           policy |-> target, step |-> StepOf[target],
           last |-> IF target = policy THEN last ELSE [last EXCEPT ![policy] = awareness]]
    BY <1>3 DEF SetPolicy
  <2> QED BY <1>3, <2>1, DmConstants DEF AwarenessType
<1> QED BY <1>1, <1>2, <1>3

LEMMA InitDm == DmInit => DmInv
<1> SUFFICES ASSUME DmInit PROVE DmInv
  OBVIOUS
<1>1. AwarenessType
  BY DmConstants DEF DmInit, AwarenessType
<1>2. ViewType /\ AlertType
  BY DmConstants DEF DmInit, ViewType, AlertType
<1>3. LockoutType
  <2>1. lockoutCount \in 0..MaxLockouts /\ lockoutElapsed \in Nat
    BY DmConstants DEF DmInit
  <2>2. lockoutActive \in BOOLEAN /\ tooDistracted \in BOOLEAN /\ lockoutSet \in BOOLEAN
    BY DEF DmInit
  <2> QED BY <2>1, <2>2 DEF LockoutType
<1>4. ExcuseType /\ LockoutKept
  BY DEF DmInit, ExcuseType, LockoutKept
<1> QED BY <1>1, <1>2, <1>3, <1>4, DmTypeGroups DEF DmInv

\* The counts of a frame.
LEMMA CountedType == LockoutType => CountedLockouts \in 0..MaxLockouts
<1> SUFFICES ASSUME LockoutType PROVE CountedLockouts \in 0..MaxLockouts
  OBVIOUS
<1>1. lockoutCount \in 0..MaxLockouts /\ lockoutCount + 1 \in Int /\ MaxLockouts \in Int
  BY DmConstants DEF LockoutType
<1>2. Least(lockoutCount + 1, MaxLockouts) \in 0..MaxLockouts
  BY <1>1, LeastMost, DmConstants
<1> QED BY <1>1, <1>2 DEF CountedLockouts

LEMMA AlertTypes ==
  ASSUME AlertType, NEW p, NEW now, Alert(p, now) \/ NoAlert
  PROVE  AlertType'
<1>1. /\ \A count \in Nat : Kept(count) \in Nat
      /\ Kept(sinceAlert3) \in 0..(NoResponseTimeout + 1)
      /\ alert3Cnt \in Nat /\ noResponseCnt \in Nat /\ NoResponseTimeout \in Nat
  BY DmConstants DEF Kept, AlertType
<1>2. Kept(alert3Cnt) \in Nat /\ Kept(noResponseCnt) \in Nat
  BY <1>1
<1>3. Least(Kept(sinceAlert3) + 1, NoResponseTimeout + 1) \in 0..(NoResponseTimeout + 1)
  <2>1. Kept(sinceAlert3) + 1 \in Int /\ NoResponseTimeout + 1 \in Int
    BY <1>1
  <2> QED BY <1>1, <2>1, LeastMost
<1>4. CASE NoAlert
  BY <1>1, <1>2, <1>4 DEF NoAlert, AlertType
<1>5. CASE Alert(p, now) /\ now > 0
  BY <1>1, <1>2, <1>5 DEF Alert, AlertType
<1>6. CASE Alert(p, now) /\ ~(now > 0)
  BY <1>1, <1>2, <1>3, <1>6 DEF Alert, AlertType
<1> QED BY <1>4, <1>5, <1>6

\* What becomes of the awareness in a frame.
LEMMA WatchTypes ==
  ASSUME AwarenessType, AlertType, NEW p, NEW view, NEW exempt, NEW given \in Floor..Full, NEW keptLast,
         p.policy \in Policies, p.step \in Nat, keptLast \in [Policies -> Floor..Full],
         Watch(p, view, exempt, given, keptLast)
  PROVE  AwarenessType' /\ AlertType' /\ awareness' <= given
<1> DEFINE now == IF Inattentive(view) /\ ~exempt THEN Most(given - p.step, Floor) ELSE given
<1>1. given - p.step \in Int /\ Floor \in Int /\ given \in Int /\ given - p.step <= given /\ Floor <= given
      /\ Full \in Int
  BY DmConstants
<1>2. now \in Floor..Full /\ now <= given
  BY <1>1, LeastMost
<1>3. awareness' = now /\ policy' = p.policy /\ stepChange' = p.step /\ last' = keptLast /\ Alert(p, now)
  BY DEF Watch
<1> HIDE DEF now
<1> QED BY <1>2, <1>3, AlertTypes DEF AwarenessType

LEMMA RestoreTypes ==
  ASSUME AwarenessType, AlertType, NEW p, NEW view, NEW exempt,
         p.awareness \in Floor..Full, p.policy \in Policies, p.step \in Nat,
         p.last \in [Policies -> Floor..Full], Restore(p, view, exempt)
  PROVE  AwarenessType' /\ AlertType'
<1>1. PICK k \in RecoveryFactors :
        LET given == Least(p.awareness + k * p.step, Full)
            keptLast == IF given = Full
                        THEN [p.last EXCEPT !["wheeltouch"] = Least(@ + p.step, Full)] ELSE p.last
        IN IF given > Alert2[p.policy]
           THEN /\ awareness' = given /\ policy' = p.policy /\ stepChange' = p.step /\ last' = keptLast
                /\ NoAlert
           ELSE Watch(p, view, exempt, given, keptLast)
  BY DEF Restore
<1> DEFINE given == Least(p.awareness + k * p.step, Full)
           keptLast == IF given = Full
                       THEN [p.last EXCEPT !["wheeltouch"] = Least(@ + p.step, Full)] ELSE p.last
<1>2. k \in Nat /\ Full \in Int /\ Floor \in Int /\ p.awareness \in Int /\ Floor <= Full
  BY DmConstants
<1>3. k * p.step \in Nat
  BY <1>2
<1>4. p.awareness + k * p.step \in Int /\ p.awareness + k * p.step >= Floor
  BY <1>2, <1>3
<1>5. given \in Floor..Full
  BY <1>2, <1>4, LeastMost
<1>6. Least(p.last["wheeltouch"] + p.step, Full) \in Floor..Full
  <2>1. p.last["wheeltouch"] \in Floor..Full
    BY DmConstants
  <2>2. p.last["wheeltouch"] + p.step \in Int /\ p.last["wheeltouch"] + p.step >= Floor
    BY <1>2, <2>1
  <2> QED BY <1>2, <2>2, LeastMost
<1>7. keptLast \in [Policies -> Floor..Full]
  BY <1>6, DmConstants
<1>8. \/ awareness' = given /\ policy' = p.policy /\ stepChange' = p.step /\ last' = keptLast /\ NoAlert
      \/ Watch(p, view, exempt, given, keptLast)
  BY <1>1
<1> HIDE DEF given, keptLast
<1>9. CASE awareness' = given /\ policy' = p.policy /\ stepChange' = p.step /\ last' = keptLast /\ NoAlert
  BY <1>5, <1>7, <1>9, AlertTypes DEF AwarenessType
<1>10. CASE Watch(p, view, exempt, given, keptLast)
  BY <1>5, <1>7, <1>10, WatchTypes
<1> QED BY <1>8, <1>9, <1>10

\* A frame with everything it decides on named: the policy, what resets, what restores.
Target(view) == IF Face(view) /\ ~Uncertain THEN "vision" ELSE "wheeltouch"
Slow(p, lowspeed) == lowspeed /\ p.awareness - p.step <= Alert1[p.policy]
Exempt(p, engaged, lowspeed, alwaysOn) ==
  Slow(p, lowspeed) \/ (alwaysOn /\ ~engaged /\ p.awareness - p.step <= 0)
Resets(p, touching, engaged, alwaysOn) ==
  \/ touching /\ p.awareness > 0 /\ p.policy = "wheeltouch"
  \/ ~engaged /\ (~alwaysOn \/ p.awareness <= 0)
Attentive(p, view, lowspeed) ==
  p.awareness > 0 /\ ((filter' = 0 /\ LowStd(view)) \/ Slow(p, lowspeed))

LEMMA FrameCases ==
  ASSUME DmFrame
  PROVE  \E view \in Views, touching, engaged, lowspeed, alwaysOn \in BOOLEAN, p \in {SetPolicy(Target(v)) : v \in Views} :
           /\ filter' = Filtered(view) /\ CountStds(view) /\ UpdateLockout
           /\ \/ /\ Resets(p, touching, engaged, alwaysOn) \/ (Attentive(p, view, lowspeed) /\ touching)
                 /\ ResetAwareness(p) /\ NoAlert
              \/ ~Resets(p, touching, engaged, alwaysOn) /\ Attentive(p, view, lowspeed)
                 /\ Restore(p, view, Exempt(p, engaged, lowspeed, alwaysOn))
              \/ ~Resets(p, touching, engaged, alwaysOn) /\ ~Attentive(p, view, lowspeed)
                 /\ Watch(p, view, Exempt(p, engaged, lowspeed, alwaysOn), p.awareness, p.last)
           /\ excuse' = IF ~engaged THEN "disengaged" ELSE IF lowspeed THEN "slow"
                        ELSE IF LowStd(view) /\ filter' = 0 THEN "attentive" ELSE "none"
           /\ UNCHANGED <<tooDistracted, lockoutSet>>
<1>1. PICK view \in Views, touching \in BOOLEAN, engaged \in BOOLEAN, lowspeed \in BOOLEAN, alwaysOn \in BOOLEAN :
        LET p == SetPolicy(Target(view))
        IN /\ filter' = Filtered(view) /\ CountStds(view) /\ UpdateLockout
           /\ \/ /\ Resets(p, touching, engaged, alwaysOn) \/ (Attentive(p, view, lowspeed) /\ touching)
                 /\ ResetAwareness(p) /\ NoAlert
              \/ ~Resets(p, touching, engaged, alwaysOn) /\ Attentive(p, view, lowspeed)
                 /\ Restore(p, view, Exempt(p, engaged, lowspeed, alwaysOn))
              \/ ~Resets(p, touching, engaged, alwaysOn) /\ ~Attentive(p, view, lowspeed)
                 /\ Watch(p, view, Exempt(p, engaged, lowspeed, alwaysOn), p.awareness, p.last)
           /\ excuse' = IF ~engaged THEN "disengaged" ELSE IF lowspeed THEN "slow"
                        ELSE IF LowStd(view) /\ filter' = 0 THEN "attentive" ELSE "none"
           /\ UNCHANGED <<tooDistracted, lockoutSet>>
  BY DEF DmFrame, Target, Slow, Exempt, Resets, Attentive
<1>2. SetPolicy(Target(view)) \in {SetPolicy(Target(v)) : v \in Views}
  OBVIOUS
<1> QED BY <1>1, <1>2

LEMMA FrameInv ==
  ASSUME DmInv, DmFrame
  PROVE  DmInv'
<1> USE DmTypeGroups DEF DmInv
<1>1. PICK view \in Views, touching \in BOOLEAN, engaged \in BOOLEAN, lowspeed \in BOOLEAN,
           alwaysOn \in BOOLEAN, p \in {SetPolicy(Target(v)) : v \in Views} :
        /\ filter' = Filtered(view) /\ CountStds(view) /\ UpdateLockout
        /\ \/ ResetAwareness(p) /\ NoAlert
           \/ Restore(p, view, Exempt(p, engaged, lowspeed, alwaysOn))
           \/ Watch(p, view, Exempt(p, engaged, lowspeed, alwaysOn), p.awareness, p.last)
        /\ excuse' = IF ~engaged THEN "disengaged" ELSE IF lowspeed THEN "slow"
                     ELSE IF LowStd(view) /\ filter' = 0 THEN "attentive" ELSE "none"
        /\ UNCHANGED <<tooDistracted, lockoutSet>>
  BY FrameCases
<1>2. PICK v \in Views : p = SetPolicy(Target(v))
  OBVIOUS
<1>3. Target(v) \in Policies
  BY DmConstants DEF Target
<1>4. /\ p.awareness \in Floor..Full /\ p.policy \in Policies /\ p.step \in Nat
      /\ p.last \in [Policies -> Floor..Full]
  BY <1>2, <1>3, SetPolicyType
<1>5. AwarenessType' /\ AlertType'
  <2>1. CASE ResetAwareness(p) /\ NoAlert
    <3>1. AwarenessType'
      BY <1>4, <2>1, DmConstants DEF ResetAwareness, AwarenessType
    <3> QED BY <2>1, <3>1, AlertTypes
  <2>2. CASE Restore(p, view, Exempt(p, engaged, lowspeed, alwaysOn))
    BY <1>4, <2>2, RestoreTypes
  <2>3. CASE Watch(p, view, Exempt(p, engaged, lowspeed, alwaysOn), p.awareness, p.last)
    BY <1>4, <2>3, WatchTypes
  <2> QED BY <1>1, <2>1, <2>2, <2>3
<1>6. ViewType'
  <2>1. filter + 1 \in Int /\ filter - 1 \in Int /\ 2 \in Int /\ 0 \in Int /\ filter \in 0..2
    BY DEF ViewType
  <2>2. Filtered(view) \in 0..2
    <3>1. Least(filter + 1, 2) \in 0..2 /\ Most(filter - 1, 0) \in 0..2
      BY <2>1 DEF Least, Most
    <3> QED BY <3>1 DEF Filtered
  <2>3. hiStds \in 0..HiStdFallback /\ hiStds + 1 \in Int /\ HiStdFallback \in Nat
    BY DmConstants DEF ViewType
  <2>4. Least(hiStds + 1, HiStdFallback) \in 0..HiStdFallback
    BY <2>3 DEF Least
  <2>5. hiStds' \in 0..HiStdFallback
    BY <1>1, <2>3, <2>4 DEF CountStds
  <2> QED BY <1>1, <2>2, <2>5 DEF ViewType
<1>7. LockoutType'
  <2>1. lockoutCount' \in 0..MaxLockouts
    BY <1>1, CountedType DEF UpdateLockout
  <2>2. lockoutActive' \in BOOLEAN
    BY <1>1 DEF UpdateLockout
  <2>3. lockoutElapsed' \in Nat
    BY <1>1 DEF UpdateLockout, LockoutType
  <2> QED BY <1>1, <2>1, <2>2, <2>3 DEF LockoutType
<1>8. ExcuseType' /\ LockoutKept'
  BY <1>1 DEF ExcuseType, LockoutKept
<1> QED BY <1>5, <1>6, <1>7, <1>8

LEMMA RestInv ==
  ASSUME DmInv, SelfdrivedLockout \/ OnroadCycle \/ NewIgnition \/ UNCHANGED dmVars
  PROVE  DmInv'
<1> USE DmTypeGroups DEF DmInv
<1>1. CASE SelfdrivedLockout
  <2>1. AwarenessType' /\ ViewType' /\ AlertType' /\ ExcuseType'
    BY <1>1 DEF SelfdrivedLockout, dmAwareness, dmView, dmAlerts, AwarenessType, ViewType, AlertType, ExcuseType
  <2>2. LockoutType' /\ LockoutKept'
    BY <1>1 DEF SelfdrivedLockout, RememberLockout, dmLockout, LockoutType, LockoutKept
  <2> QED BY <2>1, <2>2
<1>2. ASSUME DmStart PROVE AwarenessType' /\ ViewType' /\ AlertType' /\ ExcuseType' /\ lockoutElapsed' \in Nat
  <2>1. AwarenessType'
    BY <1>2, DmConstants DEF DmStart, AwarenessType
  <2>2. ViewType' /\ AlertType'
    BY <1>2, DmConstants DEF DmStart, ViewType, AlertType
  <2>3. ExcuseType' /\ lockoutElapsed' \in Nat
    BY <1>2 DEF DmStart, ExcuseType
  <2> QED BY <2>1, <2>2, <2>3
<1>3. CASE OnroadCycle
  <2>1. LockoutType' /\ LockoutKept'
    BY <1>2, <1>3 DEF OnroadCycle, LockoutType, LockoutKept
  <2> QED BY <1>2, <1>3, <2>1 DEF OnroadCycle
<1>4. CASE NewIgnition
  <2>1. lockoutCount' \in 0..MaxLockouts
    BY <1>4, DmConstants DEF NewIgnition
  <2>2. LockoutType' /\ LockoutKept'
    BY <1>2, <1>4, <2>1 DEF NewIgnition, LockoutType, LockoutKept
  <2> QED BY <1>2, <1>4, <2>2 DEF NewIgnition
<1>5. CASE UNCHANGED dmVars
  BY <1>5 DEF dmVars, dmAwareness, dmView, dmAlerts, dmLockout, AwarenessType, ViewType, AlertType,
              LockoutType, ExcuseType, LockoutKept
<1> QED BY <1>1, <1>3, <1>4, <1>5

\* The values each variable takes, and that a lockout selfdrived knows of is in its param, for
\* all thresholds, steps and timeouts (DriverMonitoring, selfdrived.py dm_lockout_set).
THEOREM DmInvariant == DmSpec => []DmInv
<1>1. DmInit => DmInv
  BY InitDm
<1>2. DmInv /\ [DmNext]_dmVars => DmInv'
  BY FrameInv, RestInv DEF DmNext
<1> QED BY <1>1, <1>2, PTL DEF DmSpec

\* A step clears an alert only as the promise says.
Clears ==
  /\ awareness <= 0 /\ awareness' > awareness => excuse' = "disengaged"
  /\ policy = "vision" /\ awareness <= Alert2["vision"] /\ awareness' > awareness => excuse' # "none"

LEMMA FrameClears ==
  ASSUME DmInv, DmFrame
  PROVE  Clears
<1> USE DmTypeGroups DEF DmInv
<1>1. PICK view \in Views, touching \in BOOLEAN, engaged \in BOOLEAN, lowspeed \in BOOLEAN,
           alwaysOn \in BOOLEAN, p \in {SetPolicy(Target(v)) : v \in Views} :
        /\ \/ Resets(p, touching, engaged, alwaysOn) \/ (Attentive(p, view, lowspeed) /\ touching)
           \/ Attentive(p, view, lowspeed)
           \/ Watch(p, view, Exempt(p, engaged, lowspeed, alwaysOn), p.awareness, p.last)
        /\ excuse' = IF ~engaged THEN "disengaged" ELSE IF lowspeed THEN "slow"
                     ELSE IF LowStd(view) /\ filter' = 0 THEN "attentive" ELSE "none"
  BY FrameCases
<1>2. PICK v \in Views : p = SetPolicy(Target(v))
  OBVIOUS
<1>3. Target(v) \in Policies
  BY DmConstants DEF Target
<1>4. /\ p.awareness \in Floor..Full /\ p.policy \in Policies /\ p.step \in Nat
      /\ p.last \in [Policies -> Floor..Full]
      /\ awareness <= 0 => p.awareness = awareness
      /\ policy = "vision" /\ awareness <= Alert2["vision"] => p.awareness = awareness /\ p.policy = "vision"
  BY <1>2, <1>3, SetPolicyType
<1>5. awareness \in Int /\ p.awareness \in Int
  BY <1>4, DmConstants DEF AwarenessType
<1>6. CASE Watch(p, view, Exempt(p, engaged, lowspeed, alwaysOn), p.awareness, p.last)
  <2>1. awareness' <= p.awareness /\ awareness' \in Int
    BY <1>4, <1>6, WatchTypes, DmConstants DEF AwarenessType
  <2> QED BY <1>4, <1>5, <2>1 DEF Clears
<1>7. CASE Attentive(p, view, lowspeed)
  <2>1. p.awareness > 0 /\ ((filter' = 0 /\ LowStd(view)) \/ lowspeed)
    BY <1>7 DEF Attentive, Slow
  <2>2. ~(awareness <= 0)
    BY <1>4, <1>5, <2>1
  <2>3. excuse' # "none"
    BY <1>1, <2>1
  <2> QED BY <2>2, <2>3 DEF Clears
<1>8. CASE Resets(p, touching, engaged, alwaysOn)
  <2>1. CASE ~engaged
    BY <1>1, <2>1 DEF Clears
  <2>2. CASE engaged
    <3>1. p.awareness > 0 /\ p.policy = "wheeltouch"
      BY <1>8, <2>2 DEF Resets
    <3>2. ~(awareness <= 0) /\ ~(policy = "vision" /\ awareness <= Alert2["vision"])
      BY <1>4, <1>5, <3>1
    <3> QED BY <3>2 DEF Clears
  <2> QED BY <2>1, <2>2
<1> QED BY <1>1, <1>6, <1>7, <1>8

\* policy.py "no exploit after orange alert": an engaged driver who does not look at the road
\* clears neither the terminal alert nor the second one of vision, for all thresholds, steps
\* and recoveries.
THEOREM AlertsStay == DmSpec => AlertsNeedAttention
<1>1. ASSUME DmInv, [DmNext]_dmVars PROVE [Clears]_dmVars
  <2>1. CASE DmFrame
    BY <1>1, <2>1, FrameClears
  <2>2. CASE SelfdrivedLockout
    <3>1. awareness' = awareness /\ awareness \in Int
      BY <1>1, <2>2, DmTypeGroups, DmConstants DEF SelfdrivedLockout, dmAwareness, DmInv, AwarenessType
    <3> QED BY <3>1 DEF Clears
  <2>3. CASE OnroadCycle \/ NewIgnition
    BY <2>3 DEF OnroadCycle, NewIgnition, DmStart, Clears
  <2> QED BY <1>1, <2>1, <2>2, <2>3 DEF DmNext
<1>2. DmInv /\ [DmNext]_dmVars =>
        [/\ awareness <= 0 /\ awareness' > awareness => excuse' = "disengaged"
         /\ policy = "vision" /\ awareness <= Alert2["vision"] /\ awareness' > awareness
              => excuse' # "none"]_dmVars
  BY <1>1 DEF Clears
<1> QED BY DmInvariant, <1>2, PTL DEF DmSpec, AlertsNeedAttention

\* selfdrived.py "Block engaging until lockout times out or ignition reset", for every list of
\* lockout times.
THEOREM LockoutsAreServed == DmSpec => LockoutServed
<1>1. ASSUME DmInv, DmNext, lockoutActive, ~lockoutActive'
      PROVE  lockoutElapsed >= Duration(lockoutCount) \/ (lockoutCount' = 0 /\ ~tooDistracted')
  <2>1. lockoutCount \in 0..MaxLockouts /\ lockoutElapsed \in Nat
    BY <1>1, DmTypeGroups DEF DmInv, LockoutType
  <2>2. CASE DmFrame
    <3>1. UpdateLockout
      BY <2>2 DEF DmFrame
    <3>2. LockoutEnds /\ CountedLockouts = lockoutCount
      BY <1>1, <3>1 DEF UpdateLockout, CountedLockouts
    <3>3. lockoutElapsed + 1 > Duration(lockoutCount)
      BY <3>2 DEF LockoutEnds
    <3> QED BY <2>1, <3>3, DurationType
  <2>3. CASE SelfdrivedLockout
    BY <1>1, <2>3 DEF SelfdrivedLockout, dmLockout
  <2>4. CASE OnroadCycle
    BY <1>1, <2>4 DEF OnroadCycle, DmInv, LockoutKept
  <2>5. CASE NewIgnition
    BY <2>5 DEF NewIgnition
  <2> QED BY <1>1, <2>2, <2>3, <2>4, <2>5 DEF DmNext
<1>2. DmInv /\ [DmNext]_dmVars =>
        [lockoutActive /\ ~lockoutActive' =>
           lockoutElapsed >= Duration(lockoutCount) \/ (lockoutCount' = 0 /\ ~tooDistracted')]_dmVars
  BY <1>1
<1> QED BY DmInvariant, <1>2, PTL DEF DmSpec, LockoutServed

=============================================================================
