CONSTANTS
  Shares = {s1}
  None = None
  Base = 1
  Cap = 4
  Jitter = 50
  MaxAttempt = 3
  Deadline = 2
  QueueCap = 2
  MaxDownloads = 2
  MaxPosts = 2
  Faults = {"exchange", "transfer"}
  ShareNames = {"a", "b"}
  Tomls <- EditedToml
  FirstToml <- StartToml
  ReloadCap = 1
  MaxEdits = 3
  MaxCycles = 1
  NoToml = NoToml
  NoDirection = NoDirection
  SharesH = {s1, s2}
  MaxTroubles = 1
  MaxConnects = 2
  PeersL = {1, 2, 3}
  SelfL = 2
  FleetL = {1, 2, 3}
  BodiesL = {x, y}
  PeerTtl = 0
  MaxClockL = 2
  MaxFetches = 1
  MaxResolved = 1
  NoBodyL = NoBodyL
SPECIFICATION MCSpec
 
PROPERTIES DwellHonoured SharesStayLive ReloadSound DaemonLive FetchSound
CHECK_DEADLOCK FALSE
