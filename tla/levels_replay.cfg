SPECIFICATION Spec
CONSTANTS
  Nodes = {n1}
  Backends = {"redis"}
  EntityKey = FALSE
  Tracking = {TRUE, FALSE}
  Mishaps = {}
  MaxQueries = 2
  MaxWrites = 0
  MaxMishaps = 0
  MaxPending = 2
INVARIANTS
  Replayed
CHECK_DEADLOCK FALSE
