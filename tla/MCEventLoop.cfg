\* Connections through one slot: split frames, pipelining, partial sends,
\* half-close, reset, malformed input, admission refusal and slot reuse.
CONSTANTS
  c1 = c1
  c2 = c2
  Conns = {c1, c2}
  MaxClients = 1
  Script <- ScriptMalformed
  FrameLen = 2
  Bad = Bad
  PERR = PERR
  NoFd = NoFd
  AllowHalfClose = TRUE
  AllowReset = TRUE

SPECIFICATION Spec

INVARIANT RepliesInOrder
