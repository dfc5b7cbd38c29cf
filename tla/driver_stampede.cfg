SPECIFICATION FairSpec
CONSTANTS
  Keys = {k1}
  Blank = {}
  MaxTime = 2
  ConfiguredGC = 0
  DefaultGC = 1
  Backends = {"lru", "context", "memory"}
  Capacity = 1
  Procs = {p1, p2, p3}
  Detached = {p3}
  Writers = {}
  Kinds = {}
  Silent = {}
  Options <- StampedeOptions
  UseChangeSet = FALSE
  TTL = 1
  KeyTTL = 0
  Failures = TRUE
  Cancels = TRUE
  Overlap = TRUE
  Stalls = TRUE
  MaxQueries = 4
  MaxWrites = 0
INVARIANTS
  TypeOK
  NoPanic
  NoOrphanedWaiter
PROPERTIES
  QueryReturns
  RefinesGate
