SPECIFICATION Spec
CONSTANTS
  p1 = p1
  p2 = p2
  p3 = p3
  n1 = n1
  n2 = n2
  Nodes = {n1, n2}
  Procs = {p1, p2, p3}
  NodeOf <- TwoAndOne
  Backends = {"events"}
  Mishaps = {"late"}
  MaxQueries = 2
  MaxMishaps = 1
INVARIANT GapClosed
CHECK_DEADLOCK FALSE
