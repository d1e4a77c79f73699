CONSTANTS
  n1 = n1
  NodeIds = {n1}
  Tasks = {t1}
  NodeOf <- OnFirst
  Keys = {k1, k2, k3}
  None = None
  Placeholder = Placeholder
  Modes = {"open", "enrolled", "disabled"}
  MaxFailures = 2
  MaxTroubles = 4
  Certs = {"c1", "c2"}
  AclRoles = {"bidirectional", "receive_only", "send_only", "publisher"}
  AclBodies <- EditedBodies
  FirstBody <- StartBody
  MaxAclOps = 5
  NoBody = NoBody
  NoRole = NoRole
  NodesB = {n}
  MaxBusy = 1
  Paths = {f, g}
  Moved = {f}
  Contents = {a, b}
  NoHash = NoHash
  Deleted = Deleted
  ChannelCap = 1
  MaxChanges = 2
  Agents = {g1, g2}
  Hooks = {h1, h2}
  JobCap = 2
  MaxRetries = 2
  MaxAgentOps = 3
  NoAgent = NoAgent
SPECIFICATION MCSpec
INVARIANTS  StaleIsPending
PROPERTIES  BackInService AclSound  IndexIsFresh IndexCatchesUp AgentsSound
CHECK_DEADLOCK FALSE
