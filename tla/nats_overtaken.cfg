SPECIFICATION FairSpec
CONSTANTS
  p1 = p1
  p2 = p2
  p3 = p3
  n1 = n1
  n2 = n2
  Nodes = {n1, n2}
  Procs = {p1, p2, p3}
  NodeOf <- TwoAndOne
  Backends = {"nats"}
  Mishaps = {"crash"}
  MaxQueries = 3
  MaxMishaps = 1
PROPERTY NoEndlessWait
CHECK_DEADLOCK FALSE
