\* Any byte string of up to six bytes after one frame, at width 8 so that
\* no integer field of this length overflows.
CONSTANTS
  W = 8
  Requests <- EmptyCommand
  Tails <- AnyTails
  Replies <- MCReplies
  MinBuf = 4
SPECIFICATION Spec
INVARIANT ParsedMeansValid
CHECK_DEADLOCK FALSE
