SPECIFICATION Spec
CONSTANTS
  Row = {r1, r2}
  MaxRows = 3
  Faults = {"iterate"}
  MaxCloses = 1
INVARIANTS
  ReplayFaithful
