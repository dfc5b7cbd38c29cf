SPECIFICATION Spec
CONSTANTS
  Row = {r1, r2}
  MaxRows = 3
  Faults = {"columns", "iterate", "scan", "abandon", "close"}
  MaxCloses = 2
INVARIANTS
  CompleteReadReplayed
  CloseReleasesOnce
  SeenInOrder
