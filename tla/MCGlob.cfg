\* glob_match against the spec.md 4.C matcher, subjects without '['.
\* glob_match returns, so a state with a result has no successor.
CONSTANTS
  PatChars <- PatAlphabet
  StrChars <- StrAlphabet
  MaxPat = 4
  MaxStr = 3
SPECIFICATION Spec
INVARIANT GlobMatchesSpec
PROPERTY GlobTerminates
CHECK_DEADLOCK FALSE
