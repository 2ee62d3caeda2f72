SPECIFICATION FairSpec
CONSTANTS
  Procs = {"card"}
  Happens = {}
  MaxDrives = 2
INVARIANTS
  OneInstance
PROPERTIES
  ModeOfThisDrive
  OffroadStops
  RelayCloses
  DriveReachesCarMode
