SPECIFICATION Spec
CONSTANTS
  Keys = {k1, k2}
  Blank = {k2}
  MaxTime = 1
  ConfiguredGC = 0
  DefaultGC = 1
  Backends = {"lru", "context"}
  Capacity = 1
  Procs = {p1, p2, p3, p4}
  Detached = {}
  Writers = {w1}
  Kinds = {"one"}
  Silent = {}
  Options <- SingleOptions
  UseChangeSet = FALSE
  TTL = 0
  KeyTTL = 0
  Failures = FALSE
  Cancels = FALSE
  Overlap = TRUE
  Stalls = TRUE
  MaxQueries = 5
  MaxWrites = 1
INVARIANTS
  SingleLoader
  NoOrphanedWaiter
SYMMETRY Goroutines
