CONSTANTS
  Roots = {"notes"}
  Edits = {e1, e2}
  MaxSecond = 1
  MaxRowsC = 2
  MaxCollision = 2
  MaxTouches = 3
  NoBodyC = NoBodyC
  Passphrases = {p1, p2}
  Salts = {s1, s2, s3}
  MaxOpsK = 4
  NoKey = NoKey
  Torn = Torn
  SizesW = {1, 2}
  TextsW = {x, y}
  MaxSaves = 2
  MaxNonce = 5
  NoWire = NoWire
  Procs = {cmd1, cmd2}
  TenantsC = {a, b}
  NewShares = {s}
  MaxTries = 2
  MaxFlips = 1
  NoText = NoText
  HostsG = {d1, d2}
  SharesG = {s1, s2}
  PathsG = {q1}
  MaxClicks = 2
  NoneG = none
  NumPaths = 2
  BodiesI = {x, y}
  MaxRunsI = 2
  MaxEditsI = 2
  NoBodyI = none
  Parts = {p1, p2}
  Whole = Whole
  Lineages = {l1, l2, l3}
  MaxJournal = 2
  MaxCallsPV = 9
  Nil = Nil
  r1 = r1
  r2 = r2
  r3 = r3
  Requests = {r1, r2, r3}
  Target <- SharedTarget
  MaxRecords = 2
  MaxProviderOps = 6
  Void = Void
  Writers = {w1}
  Leases = {k1, k2, k3}
  OutcomesOJ = {o1, o2, o3}
  MaxRecordsOJ = 2
  MaxOJ = 5
  NoOJ = NoOJ
  Conns = {cmd1, cmd2}
  Pages = {pg1, pg2}
  MaxReg = 4
  MaxVersion = 3
  MaxFaults = 3
  NoConn = NoConn
  PartIds = {p1, p2}
  ObjectsK = {o1, o2, o3}
  BodiesK = {b1}
  Generations = {0}
  OpsK = {cmd1, cmd2}
  MaxServedK = 2
  NoneK = none
  Octets = {0, 1}
  BlockSize = 2
  MaxLength = 4
  Modulus = 3
  NamesA = {q1, q2}
  BodiesA = {x, y}
  MaxEditsA = 2
  MaxRunsA = 3
  NoneA = none
  TornA = Torn
  WritersE = {w1, w2}
  BodiesE = {x, y}
  ModelsE = {m1, m2}
  SizesE = {1, 2}
  MaxStepsE = 3
  NoneE = none
  TornE = Torn
  HandlesF = {h1, h2}
  FilesF = {"inventory", "object"}
  ObjectsF = {"object"}
  PagesF = 2
  MaxCallsF = 4
  NobodyF = none
SPECIFICATION MCSpec
INVARIANTS  JournalSound TransferExact
PROPERTIES ConflictsKept EncryptionSound  VaultSound 
SYMMETRY ProcSymmetry
CHECK_DEADLOCK FALSE
