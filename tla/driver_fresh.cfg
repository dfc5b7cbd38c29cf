SPECIFICATION Spec
CONSTANTS
  Keys = {k1, k2}
  Blank = {}
  MaxTime = 5
  ConfiguredGC = 2
  DefaultGC = 1
  Backends = {"lru"}
  Capacity = 1
  Procs = {p1}
  Detached = {}
  Writers = {w1}
  Kinds = {"one", "bulk", "tx"}
  Silent = {}
  Options <- FreshOptions
  UseChangeSet = TRUE
  TTL = 1
  KeyTTL = 2
  Failures = TRUE
  Cancels = FALSE
  Overlap = FALSE
  Stalls = FALSE
  MaxQueries = 4
  MaxWrites = 2
INVARIANTS
  FreshAfterMutation
