SPECIFICATION FairSpec
CONSTANTS
  Nodes = {n1, n2}
  Backends = {"redis", "nats"}
  EntityKey = FALSE
  Tracking = {TRUE}
  Mishaps = {"get", "load", "add", "del", "publish", "lost", "restart", "expire", "evict"}
  MaxQueries = 2
  MaxWrites = 1
  MaxMishaps = 1
  MaxPending = 1
INVARIANTS
  TypeOK
  Coherent
PROPERTIES
  Reconciled
CHECK_DEADLOCK FALSE
