\* Walks while others move steps, in two scenarios; liveness, so no symmetry.
CONSTANTS
  s1 = s1
  s2 = s2
  s3 = s3
  s4 = s4
  walk = walk
  tour = tour
  w1 = w1
  w2 = w2
  null = null
  Step = {s1, s2}
  Scenario = {walk, tour}
  Null = null
  Worker = {w1, w2}
  Serial = FALSE
SPECIFICATION FairSpec
INVARIANTS TypeOK ParentInScenario
PROPERTIES WalkEnds
CHECK_DEADLOCK FALSE
