SPECIFICATION Spec
CONSTANTS
  Keys = {k1}
  Blank = {}
  MaxTime = 6
  ConfiguredGC = 1
  DefaultGC = 1
  Backends = {"lru"}
  Capacity = 1
  Procs = {p1}
  Detached = {}
  Writers = {w1}
  Kinds = {"one"}
  Silent = {}
  Options <- KeyOptions
  UseChangeSet = TRUE
  TTL = 1
  KeyTTL = 5
  Failures = FALSE
  Cancels = FALSE
  Overlap = FALSE
  Stalls = FALSE
  MaxQueries = 4
  MaxWrites = 1
INVARIANTS
  FreshAfterMutation
