\* Reads, DEL, EXISTS and KEYS racing the clock over keys set with expiries.
CONSTANTS
  k1 = k1
  k2 = k2
  Keys = {k1, k2}
  NotInt = NotInt
  Vals = {0}
  Hash <- MCHash
  InitCap = 4
  MaxTime = 2
  NoKey = NoKey
  NoVal = NoVal
  NoIter = NoIter
  MsPerSec = 1
  Seconds = {NotInt, 0, 1}
  IntMin <- MCIntMin
  IntMax <- MCIntMax
  Verbs = {"ERR", "PING", "ECHO", "SET", "GET", "TYPE", "DEL", "EXISTS", "KEYS", "TTL"}

SPECIFICATION CSpec

INVARIANT KeysReplyIsLiveMatches
INVARIANT MultiKeyCounts
