CONSTANTS
  t1 = t1
  t2 = t2
  u1 = u1
  UserIds = {a1, a2}
  Emails = {b1, b2}
  Tenants = {t1}
  Callers = {r1, r2}
  Nobody = Nobody
  DefaultTenant <- SameTenant
  MaxCalls = 3
  People = {u1, a1, a2}
  Homes = {t1, t2}
  HomeOf <- TwoHomes
  Invites = {b1, b2}
  Blank = Blank
  MaxRemovals = 1
  OrgUsers = {u1, a1, a2}
  Slugs = {s1}
  Unset = Unset
  Payers = {t1, t2}
  DefaultPayer = t1
  Docs = {b1, b2}
  Sizes = {0, 1, 2}
  Plans = {1, 2}
  StorageLimit <- PlanStorage
  VaultLimit <- PlanVaults
  Chargers = {a1, a2}
  Idle = Idle
  MaxQuotaOps = 3
  PathsT = {b1, b2}
  BodiesT = {x, y}
  CallsT = {a1, a2}
  MaxCallsT = 3
  MaxAttempts = 2
  NoBodyT = none
  KidsJ = {b1, b2}
  VerifsJ = {a1, a2}
  FlowsJ = {f1}
  RedirectsJ = {r1}
  KeyTtlJ = 0
  StateTtlJ = 0
  MaxClockJ = 1
  MaxRotations = 1
  NoneJ = none
  TenantsD = {t1, t2}
  ConfIds = {1}
  NodesD = {b1, b2}
  ActionsD = {"keep-local", "merge", "discard"}
  ValidActions = {"keep-local", "merge"}
  CallsD = {a1, a2}
  MaxWorkD = 4
  NoneD = none
  Bodies = {b1, b2}
  Absent = Absent
  MaxVersions = 2
  MaxSnapshots = 1
  MaxOps = 6
  TenantsF = {"_legacy"}
  NoTenant = none
  PathsF = {b1, b2}
  WritersF = {a1, a2}
  MaxWritesF = 3
  MaxRowsF = 3
  TokensE = {t1, t2}
  RunsE = {a1, a2}
  MaxFailE = 1
  MaxWorkE = 3
  NoRun = NoRun
  Uploads = {1, 2}
  ChunksU = 2
  KeyTtl = 1
  MaxKeys = 2
  MaxClockU = 2
  MaxCounter = 1
  NoKeyU = NoKeyU
  PathsS = {q1, q2}
  UsersS = {a1, a2}
  ServerS = server
  Nodes = {server}
  MaxTick = 1
  Hashes = {h1, h2}
  None = None
  MaxRuleOps = 1
  MaxWritesS = 3
SPECIFICATION MCSpec
INVARIANTS AccessSound  CredentialsHold  GateSound
   
SYMMETRY MCSymmetry
CHECK_DEADLOCK FALSE
