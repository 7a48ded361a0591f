\* The clock: two colliding keys, three clock values and expiries up to
\* one past the last, so keys expire between calls and during a KEYS scan.
CONSTANTS
  k1 = k1
  k2 = k2
  k3 = k3
  Keys = {k1, k2}
  Vals = {v1, v2}
  Hash <- MCHash
  InitCap = 4
  MaxTime = 2
  NoKey = NoKey
  NoVal = NoVal
  NoIter = NoIter

SPECIFICATION Spec
SYMMETRY MCSymmetry

PROPERTY ImplementsKeyValueStore
PROPERTY IterationComplete
