CONSTANTS
  c1 = c1
  c2 = c2
  Clients = {c1}
  Paths = {p}
  Edits = {e1, e2, e3}
  Hashes = {{}, {e1}, {e2}, {e3}, {e1, e2}, {e1, e3}, {e2, e3}, {e1, e2, e3}}
  Server = server
  Nodes = {server}
  MaxTick = 1
  None = None
  Role <- AllBidirectional
  Declared <- AllBidirectional
  Env = {}
  Faults = {}
SPECIFICATION FairSpec
INVARIANTS NoEditLost
PROPERTIES Convergence
