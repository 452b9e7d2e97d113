\* Two moves that each read the tree before the other's write.
CONSTANTS
  s1 = s1
  s2 = s2
  s3 = s3
  s4 = s4
  walk = walk
  tour = tour
  w1 = w1
  w2 = w2
  null = null
  Step = {s1, s2}
  Scenario = {walk}
  Null = null
  Worker = {w1, w2}
  Serial = FALSE
SPECIFICATION Spec
SYMMETRY Symmetry
INVARIANTS Acyclic
CHECK_DEADLOCK FALSE
