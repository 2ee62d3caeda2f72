SPECIFICATION FairSpec
CONSTANTS
  SoftDisableTicks = 1
  MismatchLimit = 1
  CarStates <- ButtonCarStates
  SystemEvents <- QuietSystem
  PcmCruise = FALSE
  Longitudinal = TRUE
  Passive = FALSE
  PandaVerdicts = {"allowed"}
  Happens = {"selfdrived", "controlsd", "loading"}
PROPERTIES
  ControlsdDeathDisengages
  SelfdrivedDeathStopsHeartbeat
