CONSTANTS
  Nodes = {server, client}
  MaxTick = 1
  Hashes = {h1, h2, h3}
  None = None
SPECIFICATION Spec
INVARIANTS Total DecisionSafe
\* One call, one result: the evaluation ends.
CHECK_DEADLOCK FALSE
