SPECIFICATION Spec
CONSTANTS
  Query <- AllQueries
  Fact <- AllFacts
  Place <- AllPlaces
  Pages <- AllPages
  Gap <- ContentGaps
  Caller = {c1, c2}
SYMMETRY Symmetry
INVARIANTS
  CountsFollow
CHECK_DEADLOCK FALSE
