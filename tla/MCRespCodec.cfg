\* One peer sends one or two frames, then nothing, junk or half a frame,
\* split across recv calls in every way.  A connection that is closed
\* has no further steps.
CONSTANTS
  W = 5
  Requests <- MCRequests
  Tails <- MCTails
  Replies <- MCReplies
  MinBuf = 4
SPECIFICATION Spec
INVARIANT FramesRestartable
INVARIANT RoundTrip
INVARIANT ReplyStreamFaithful
PROPERTY NoBufferOverrun
CHECK_DEADLOCK FALSE
