CONSTANTS
  c1 = c1
  c2 = c2
  Clients = {c1, c2}
  Paths = {p}
  Edits = {e1}
  Hashes = {{}, {e1}}
  Server = server
  Nodes = {server}
  MaxTick = 1
  None = None
  Role <- AllBidirectional
  Declared <- AllBidirectional
  Env = {"delete"}
  Faults = {}
SPECIFICATION FairSpec
INVARIANTS DeleteAuthority
PROPERTIES Convergence
