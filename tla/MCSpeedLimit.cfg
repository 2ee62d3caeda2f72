SPECIFICATION FairSpec
CONSTANTS
  street = street
  freeway = freeway
  NoWay = NoWay
  NoFix = NoFix
  NoTarget = NoTarget
  Ways <- TwoWays
  Targets <- TwoTargets
  Fixes <- AnyFix
  MinSpeed = 2
  MaxSpeed = 6
  Unset = 7
  Increment = 2
  LongPress = 2
  LongStep = 2
  Initials = {4}
  Floors = {0}
  Pressable = {"accel"}
  MaxMisses = 1
PROPERTIES
  TwoSightings
  EngageTakesTarget
  DeadMapLetsGo
  RoadReachesCar
