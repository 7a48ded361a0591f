\* Table layout and refinement: three colliding keys, a 4-slot table that
\* must resize, expiries at or before now (EXPIRE with seconds <= 0) so
\* that lazy expiry happens inside probes, iterations and resizes; one
\* value, so that the refinement mapping is checked within the time bound.
CONSTANTS
  k1 = k1
  k2 = k2
  k3 = k3
  Keys = {k1, k2, k3}
  Vals = {v1}
  Hash <- MCHash
  InitCap = 4
  MaxTime = 0
  NoKey = NoKey
  NoVal = NoVal
  NoIter = NoIter

SPECIFICATION Spec

INVARIANT TypeOK
INVARIANT ProbeChainIntact
 
INVARIANT CountersConsistent
PROPERTY ImplementsKeyValueStore
