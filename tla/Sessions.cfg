\* Two users of one browser; liveness, so no symmetry.
CONSTANTS
  User = {u1, u2}
  Tab <- Tabs
  Request <- Requests
  Rotations = 1
  None = None
SPECIFICATION FairSpec
INVARIANTS TypeOK NobodyWaitsForNothing
PROPERTIES NoComeback SentWithStoredSession EveryRequestEnds
CHECK_DEADLOCK FALSE
