CONSTANTS
  c1 = c1
  c2 = c2
  Clients = {c1, c2}
  Paths = {p}
  Edits = {e1, e2}
  Hashes = {{}, {e1}, {e2}, {e1, e2}}
  Server = server
  Nodes = {server}
  MaxTick = 1
  None = None
  Role <- AllBidirectional
  Declared <- AllBidirectional
  Env = {"delete"}
  Faults = {}
SPECIFICATION Spec
INVARIANTS BuriesWhatItRead
