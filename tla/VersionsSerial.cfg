\* Three versions, two tables, requests one at a time.
CONSTANTS
  v1 = v1
  v2 = v2
  v3 = v3
  t1 = t1
  t2 = t2
  w1 = w1
  w2 = w2
  null = null
  Version = {v1, v2, v3}
  Table = {t1, t2}
  Null = null
  Worker = {w1}
  Serial = TRUE
SPECIFICATION Spec
SYMMETRY Symmetry
INVARIANTS TypeOK DatedByStatus AtMostOneActive WindowMatchesStatus NothingOutlivesItsVersion
PROPERTIES CurrentSpec
CHECK_DEADLOCK FALSE
