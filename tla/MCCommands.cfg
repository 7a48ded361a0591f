\* Command handlers over a 4-slot table, clock 0..2, one tick per second.
CONSTANTS
  k1 = k1
  k2 = k2
  Keys = {k1, k2}
  NotInt = NotInt
  Vals = {NotInt, 0, 1}
  Hash <- MCHash
  InitCap = 4
  MaxTime = 2
  NoKey = NoKey
  NoVal = NoVal
  NoIter = NoIter
  MsPerSec = 1
  Seconds = {NotInt, 0, 1}
  IntMin <- MCIntMin
  IntMax <- MCIntMax
  Verbs = {"SET", "EXPIRE", "INCR"}

SPECIFICATION CSpec

INVARIANT IncrKeepsValueAndExpiry
