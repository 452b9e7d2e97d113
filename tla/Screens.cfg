SPECIFICATION FairSpec
CONSTANTS
  Query <- AllQueries
  Fact <- AllFacts
  Place <- AllPlaces
  Pages <- AllPages
  Gap <- KnownGaps
  Caller = {c1, c2}
INVARIANTS
  TypeOK
  ScreenKeepsUp
PROPERTIES
  ShownOnceQuiet
CHECK_DEADLOCK FALSE
