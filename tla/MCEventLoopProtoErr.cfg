\* A peer that sends a malformed frame on an accepted connection: is the
\* protocol-error reply sent before the connection is closed?
CONSTANTS
  c1 = c1
  c2 = c2
  Conns = {c1, c2}
  MaxClients = 2
  Script <- ScriptMalformed
  FrameLen = 2
  Bad = Bad
  PERR = PERR
  NoFd = NoFd
  AllowHalfClose = FALSE
  AllowReset = FALSE

SPECIFICATION Spec


INVARIANT ProtocolErrorDelivered
