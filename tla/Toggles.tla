------------------------------ MODULE Toggles ------------------------------
(***************************************************************************)
(* Two settings that a driver and a process both write, with selfdrived's  *)
(* copies of them, which params_thread reads ten times a second:           *)
(*                                                                         *)
(*   ExperimentalMode        the screen, and speedlimitd's switcher, which *)
(*                           acts on a change of the type of road;         *)
(*   LongitudinalPersonality the screen, and the distance button, which    *)
(*                           counts down from selfdrived's copy.           *)
(*                                                                         *)
(* The processes put asynchronously.  Of the screen, the large settings    *)
(* and the long press of the small home wait for their writes; the wheel   *)
(* on the road and the small settings do not, and the wheel puts the       *)
(* opposite of the mode selfdrived last told it.                           *)
(***************************************************************************)
EXTENDS Naturals, Sequences, SequencesExt

CONSTANTS MaxChanges   \* bound: changes of the road and by the driver

ASSUME TogglesAssumption == MaxChanges \in Nat

VARIABLES
  experimentalMode, personality,       \* the settings, see Setting
  experimentalCopy, personalityCopy,   \* of selfdrived
  wheelMode,                           \* the wheel's copy of the mode, of selfdriveState
  road, autoExperimental, lastApplied, \* of the switcher
  changes

toggleVars == <<experimentalMode, personality, experimentalCopy, personalityCopy, wheelMode, road,
                autoExperimental, lastApplied, changes>>

Modes == {"chill", "experimental"}
Personalities == 0..2

-----------------------------------------------------------------------------
\* A setting: the param, what has yet to be written for the process and for the screen, each in
\* order, and, as history, the choices that may be the last to land: the latest, and those that
\* other writers still had to write when it was made.

Writers == {"process", "screen"}
Setting(v) == [value |-> v, puts |-> [w \in Writers |-> <<>>], chosen |-> {v}]

Chosen(puts, v) == {v} \cup {Last(puts[w]) : w \in {u \in Writers : puts[u] # <<>>}}

\* put, put_bool: left to the worker, or waited for, which does not wait for those left before.
Put(s, w, v) ==
  LET puts == [s.puts EXCEPT ![w] = Append(@, v)]
  IN [s EXCEPT !.puts = puts, !.chosen = Chosen(puts, v)]
PutAndWait(s, v) == [s EXCEPT !.value = v, !.chosen = Chosen(s.puts, v)]

\* A worker writes.
MutLands(s, w) == [s EXCEPT !.value = Last(s.puts[w]), !.puts = [s.puts EXCEPT ![w] = Front(@)]]
Lands(s, w) == [s EXCEPT !.value = Head(s.puts[w]), !.puts = [s.puts EXCEPT ![w] = Tail(@)]]

-----------------------------------------------------------------------------

TogglesInit ==
  /\ experimentalMode = Setting("chill") /\ personality = Setting(1)
  /\ experimentalCopy = "chill" /\ personalityCopy = 1 /\ wheelMode = "chill"
  /\ road = "unknown" /\ autoExperimental = TRUE /\ lastApplied = "none" /\ changes = 0

Change == changes < MaxChanges /\ changes' = changes + 1

\* The road, the setting AutoExperimentalMode, and another start of speedlimitd.
RoadChanges ==
  /\ Change
  /\ \/ road' \in {"local", "freeway", "unknown"} \ {road} /\ UNCHANGED <<autoExperimental, lastApplied>>
     \/ autoExperimental' = ~autoExperimental /\ UNCHANGED <<road, lastApplied>>
     \/ lastApplied' = "none" /\ UNCHANGED <<road, autoExperimental>>
  /\ UNCHANGED <<experimentalMode, personality, experimentalCopy, personalityCopy, wheelMode>>

\* ExperimentalModeSwitcher.update
Desired == IF road = "freeway" THEN "chill" ELSE "experimental"

SwitchMode ==
  /\ autoExperimental /\ road # "unknown" /\ Desired # lastApplied
  /\ lastApplied' = Desired /\ experimentalMode' = Put(experimentalMode, "process", Desired)
  /\ UNCHANGED <<personality, experimentalCopy, personalityCopy, wheelMode, road, autoExperimental, changes>>

\* The distance button, in selfdrived.
PressDistance ==
  /\ Change
  /\ personalityCopy' = (personalityCopy + 2) % 3
  /\ personality' = Put(personality, "process", personalityCopy')
  /\ UNCHANGED <<experimentalMode, experimentalCopy, wheelMode, road, autoExperimental, lastApplied>>

\* The settings of the screens, and the long press.
TapMode ==
  /\ Change
  /\ \E v \in Modes : experimentalMode' \in {PutAndWait(experimentalMode, v), Put(experimentalMode, "screen", v)}
  /\ UNCHANGED <<personality, experimentalCopy, personalityCopy, wheelMode, road, autoExperimental, lastApplied>>

TapPersonality ==
  /\ Change
  /\ \E v \in Personalities : personality' \in {PutAndWait(personality, v), Put(personality, "screen", v)}
  /\ UNCHANGED <<experimentalMode, experimentalCopy, personalityCopy, wheelMode, road, autoExperimental, lastApplied>>

\* The wheel.
Opposite(mode) == CHOOSE v \in Modes : v # mode
TapWheel ==
  /\ Change /\ experimentalMode' = Put(experimentalMode, "screen", Opposite(wheelMode))
  /\ UNCHANGED <<personality, experimentalCopy, personalityCopy, wheelMode, road, autoExperimental, lastApplied>>

\* It hears of selfdrived's mode.
WheelHears ==
  /\ wheelMode' = experimentalCopy
  /\ UNCHANGED <<experimentalMode, personality, experimentalCopy, personalityCopy, road, autoExperimental,
                 lastApplied, changes>>

\* The workers of the params.
ModeLands(w) ==
  /\ experimentalMode.puts[w] # <<>> /\ experimentalMode' = Lands(experimentalMode, w)
  /\ UNCHANGED <<personality, experimentalCopy, personalityCopy, wheelMode, road, autoExperimental, lastApplied, changes>>

PersonalityLands(w) ==
  /\ personality.puts[w] # <<>> /\ personality' = Lands(personality, w)
  /\ UNCHANGED <<experimentalMode, experimentalCopy, personalityCopy, wheelMode, road, autoExperimental, lastApplied, changes>>

\* params_thread reads one setting after the other.
ParamsThread ==
  /\ \/ experimentalCopy' = experimentalMode.value /\ UNCHANGED personalityCopy
     \/ personalityCopy' = personality.value /\ UNCHANGED experimentalCopy
  /\ UNCHANGED <<experimentalMode, personality, wheelMode, road, autoExperimental, lastApplied, changes>>

TogglesNext ==
  \/ RoadChanges \/ SwitchMode \/ PressDistance \/ TapMode \/ TapPersonality \/ TapWheel
  \/ WheelHears \/ ParamsThread
  \/ \E w \in Writers : ModeLands(w) \/ PersonalityLands(w)

TogglesSpec == TogglesInit /\ [][TogglesNext]_toggleVars

-----------------------------------------------------------------------------
\* Properties

\* The values each variable takes.
SettingOK(s, V) == s \in [value : V, puts : [Writers -> Seq(V)], chosen : SUBSET V]

TogglesTypeOK ==
  /\ SettingOK(experimentalMode, Modes) /\ SettingOK(personality, Personalities)
  /\ {experimentalCopy, wheelMode} \subseteq Modes /\ personalityCopy \in Personalities
  /\ road \in {"local", "freeway", "unknown"} /\ autoExperimental \in BOOLEAN
  /\ lastApplied \in Modes \cup {"none"} /\ changes \in 0..MaxChanges

\* Once the driver and the road rest, a param holds the choice made last, by whomever, unless
\* another writer still had one to write when it was made, which may then be the one that stands
\* (a start of speedlimitd makes the switcher choose again); and selfdrived's copies, and the
\* mode the wheel is to turn round, agree with the params.
LastChoiceStands ==
  <>[](/\ experimentalMode.value \in experimentalMode.chosen /\ personality.value \in personality.chosen
       /\ experimentalCopy = experimentalMode.value /\ wheelMode = experimentalCopy
       /\ personalityCopy = personality.value)
=============================================================================
