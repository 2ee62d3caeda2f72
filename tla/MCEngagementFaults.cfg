SPECIFICATION Spec
CONSTANTS
  SoftDisableTicks = 1
  MismatchLimit = 1
  CarStates <- OneCar
  SystemEvents <- FaultySystem
  PcmCruise = FALSE
  Longitudinal = TRUE
  Passive = FALSE
  PandaVerdicts = {"allowed"}
  Happens = {"controlsd", "late"}
PROPERTIES
  CommLossStandsDown
