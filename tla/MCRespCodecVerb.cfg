\* A command whose verb holds CR LF: the unknown-command error copies the
\* verb into a line-delimited error reply.
CONSTANTS
  W = 5
  Requests <- CrlfVerb
  Tails <- MCTails
  Replies <- MCReplies
  MinBuf = 4
SPECIFICATION Spec
INVARIANT ReplyStreamFaithful
CHECK_DEADLOCK FALSE
