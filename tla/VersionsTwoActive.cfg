\* Two activations that each read before the other's write.
CONSTANTS
  v1 = v1
  v2 = v2
  v3 = v3
  t1 = t1
  t2 = t2
  w1 = w1
  w2 = w2
  null = null
  Version = {v1, v2}
  Table = {t1}
  Null = null
  Worker = {w1, w2}
  Serial = FALSE
SPECIFICATION Spec
SYMMETRY Symmetry
INVARIANTS AtMostOneActive
CHECK_DEADLOCK FALSE
