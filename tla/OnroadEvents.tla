---------------------------- MODULE OnroadEvents ----------------------------
(***************************************************************************)
(* The event table of selfdrive/selfdrived/events.py.  EVENTS maps an      *)
(* event name to the event types (ET) it carries an alert for; what the    *)
(* rest of the program asks of it is "does any present event carry type    *)
(* ET", so the table is kept the other way round: the names that carry a   *)
(* type.  Types that only choose an alert (WARNING, PERMANENT) are left    *)
(* out: no transition reads them.                                          *)
(***************************************************************************)

\* The event types a transition of selfdrived or controlsd depends on.
EventTypes == {"ENABLE", "PRE_ENABLE", "OVERRIDE_LATERAL", "OVERRIDE_LONGITUDINAL",
               "NO_ENTRY", "USER_DISABLE", "SOFT_DISABLE", "IMMEDIATE_DISABLE"}

EnableNames == {"pcmEnable", "buttonEnable"}

\* Driver actions that end an engagement (all but pcmDisable also refuse one).
UserDisableNames ==
  {"pcmDisable", "buttonCancel", "parkBrake", "pedalPressed", "steerDisengage",
   "wrongCarMode", "wrongCruiseMode", "reverseGear"}

ImmediateDisableNames ==
  {"locationdPermanentError", "paramsdPermanentError", "accFaulted", "controlsMismatch",
   "canError", "canBusMissing", "steerUnavailable", "cruiseDisabled", "relayMalfunction",
   "speedTooLow", "vehicleSensorsInvalid"}

SoftDisableNames ==
  {"bigModelFailed", "cameraMalfunction", "cameraFrameRate", "locationdTemporaryError",
   "paramsdTemporaryError", "steerTempUnavailable", "steerTimeLimit", "sensorDataInvalid",
   "excessiveActuation", "overheat", "wrongGear", "calibrationInvalid",
   "calibrationIncomplete", "calibrationRecalibrating", "doorOpen", "seatbeltNotLatched",
   "espDisabled", "commIssue", "commIssueAvgFreq", "selfdrivedLagging",
   "processNotRunning", "radarFault", "radarTempUnavailable", "modeldLagging",
   "posenetInvalid", "lowMemory", "espActive"}

\* Every soft-disabling event but bigModelFailed refuses an engagement too, and so do
\* the immediate-disable events other than cruiseDisabled and speedTooLow.
NoEntryNames ==
  (SoftDisableNames \ {"bigModelFailed"})
  \cup (UserDisableNames \ {"pcmDisable"})
  \cup (ImmediateDisableNames \ {"cruiseDisabled", "speedTooLow"})
  \cup {"bigModelLoading", "selfdriveInitializing", "startupNoControl", "invalidLkasSetting",
        "aeb", "stockAeb", "stockLkas", "resumeBlocked", "carNotReady", "outOfSpace",
        "belowEngageSpeed", "tooDistracted", "speedTooHigh"}

\* The names that carry each type.
EVENTS ==
  [ENABLE                |-> EnableNames,
   PRE_ENABLE            |-> {"preEnableStandstill"},
   OVERRIDE_LATERAL      |-> {"steerOverride"},
   OVERRIDE_LONGITUDINAL |-> {"gasPressedOverride"},
   NO_ENTRY              |-> NoEntryNames,
   USER_DISABLE          |-> UserDisableNames,
   SOFT_DISABLE          |-> SoftDisableNames,
   IMMEDIATE_DISABLE     |-> ImmediateDisableNames]

EventNames == UNION {EVENTS[et] : et \in EventTypes}

\* Events.contains: some present event carries type et.
contains(events, et) == events \cap EVENTS[et] # {}

\* An override of either axis is present.
Overriding(events) ==
  contains(events, "OVERRIDE_LATERAL") \/ contains(events, "OVERRIDE_LONGITUDINAL")

=============================================================================
