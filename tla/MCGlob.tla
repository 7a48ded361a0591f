------------------------------ MODULE MCGlob --------------------------------
\* Alphabets for checking glob_match: patterns over a, c and every
\* metacharacter, subjects over a, b, c (b only reachable through a range,
\* '?', '*' or a negated class).
EXTENDS Glob

\* a c * ? [ ] ! -
PatAlphabet == {97, 99, 42, 63, 91, 93, 33, 45}
StrAlphabet == {97, 98, 99}
=============================================================================
