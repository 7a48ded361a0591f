\* Two accepted connections pipelining requests, the loop under weak
\* fairness, and a shutdown signal that may come at any point.
CONSTANTS
  c1 = c1
  c2 = c2
  Conns = {c1, c2}
  MaxClients = 2
  Script <- ScriptPipelined
  FrameLen = 2
  Bad = Bad
  PERR = PERR
  NoFd = NoFd
  AllowHalfClose = FALSE
  AllowReset = FALSE

SPECIFICATION Spec

PROPERTY PipelineFidelity
PROPERTY ShutdownCompletes
