SPECIFICATION FairSpec
CONSTANTS
  p1 = p1
  p2 = p2
  p3 = p3
  n1 = n1
  n2 = n2
  Nodes = {n1, n2}
  Procs = {p1, p2, p3}
  NodeOf <- TwoAndOne
  Backends = {"nats", "poll", "events"}
  Mishaps = {"get", "beat", "lock", "reply", "quit", "load", "add", "release", "stale", "lapse", "slow", "gone", "crash", "late"}
  MaxQueries = 4
  MaxMishaps = 1
INVARIANTS
  TypeOK
  OneHolder
  FewLoaders
  
PROPERTIES
  NoForeignRemoval
  
CHECK_DEADLOCK FALSE
