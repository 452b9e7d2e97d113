\* Four steps in two scenarios, requests one at a time.
CONSTANTS
  s1 = s1
  s2 = s2
  s3 = s3
  s4 = s4
  walk = walk
  tour = tour
  w1 = w1
  w2 = w2
  null = null
  Step = {s1, s2, s3, s4}
  Scenario = {walk, tour}
  Null = null
  Worker = {w1}
  Serial = TRUE
SPECIFICATION Spec
SYMMETRY Symmetry
INVARIANTS Acyclic NothingOutlivesItsParent EveryStepIsRead
PROPERTIES InsertKeepsOrder
CHECK_DEADLOCK FALSE
