SPECIFICATION Spec
CONSTANTS
  street = street
  freeway = freeway
  NoWay = NoWay
  NoFix = NoFix
  NoTarget = NoTarget
  Ways <- OneWay
  Targets <- OneTarget
  Fixes <- GpsHolds
  MinSpeed = 2
  MaxSpeed = 6
  Unset = 7
  Increment = 2
  LongPress = 2
  LongStep = 2
  Initials = {4}
  Floors = {0}
  Pressable = {"accel"}
  MaxMisses = 1
PROPERTIES
  NudgeStands
