SPECIFICATION Spec
CONSTANTS
  SoftDisableTicks = 2
  MismatchLimit = 1
  CarStates <- PcmCarStates
  SystemEvents <- QuietSystem
  PcmCruise = TRUE
  Longitudinal = TRUE
  Passive = FALSE
  PandaVerdicts = {"allowed", "refused"}
  Happens = {}
INVARIANTS
  SoftDisableDeadline
  EngagedOnLiveCar
  CommandFollowsState
  OverrideYields
  CarWaitsForSelfdrived
