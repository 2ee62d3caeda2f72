SPECIFICATION DaemonsSpec
CONSTANTS
  Running = {"monitoring", "lanes", "nav", "toggles", "recording", "wifi", "modem", "uploads", "sounds", "clips"}
  Full = 3
  StepOf <- OneStep
  Alert1 <- FirstAlert
  Alert2 <- SecondAlert
  RecoveryFactors = {1, 2}
  NoResponseTimeout = 1
  MaxAlert3 = 2
  MaxNoResponse = 1
  LockoutTimes <- TwoLockouts
  HiStdFallback = 1
  MaxLockouts = 2
  AutoStartDelay = 3
  LaneChangeStart = 1
  LaneChangeMax = 3
  Places = {home, work, other}
  Home = home
  Work = work
  NoPlace = none
  NavHappens = {}
  MaxNavStarts = 1
  MaxChanges = 3
  Encoders = {road, qcam}
  WithAudio = {qcam}
  PerSegment = 4
  QueueLimit = 1
  Skew = 2
  Stalls = FALSE
  MaxSegments = 2
  MaxLost = 1
  MaxIdle = 1
  Ssids = {n1, n2}
  NoSsid = none
  WifiHappens = {}
  MaxTaps = 2
  MaxNetworkChanges = 2
  Sims = {s1, s2}
  Webbing = {s2}
  NoSim = none
  Apns = {x, y}
  MaxFails = 2
  ModemHappens = {}
  MaxModemChanges = 2
  Files = {f, g}
  Workers = {v, w}
  NoItem = none
  MaxRetryCount = 1
  UploadHappens = {}
  MaxAdds = 2
  MaxUploadChanges = 2
  Alerts = {chime, soft, immediate}
  Looped = {soft, immediate}
  Immediate = immediate
  NoSound = silence
  Blocks = 2
  AlarmRounds = 4
  SoundHappens = {}
  MaxAlertChanges = 3
  Segments = {m, n}
  Pages = {p, q}
  Earlier = old
  CacheKeep = 2
  MaxAsks = 2
  MaxEncodes = 2
  MaxDeletedSegments = 1
INVARIANTS
  FramesFiled
PROPERTIES
  AlertsNeedAttention
  LockoutServed
  ChangeIsSignalled
  NavFollowsParam
  LastChoiceStands
  WifiSettles
  ModemConnects
  UploadsEnd
  AlertsAreHeard
  
CHECK_DEADLOCK FALSE
