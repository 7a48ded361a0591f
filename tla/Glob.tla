------------------------------- MODULE Glob --------------------------------
(***************************************************************************)
(* glob_match of glob.c as the state machine of its main loop, with       *)
(* match_char_class as an operator, over every pattern and subject drawn  *)
(* from small alphabets; checked against a recursive matcher written from *)
(* the meaning spec.md 4.C gives the metacharacters.                      *)
(*                                                                         *)
(* Bytes are their character codes.  pi, si, star_pi and star_si are the  *)
(* C cursors (0-based, -1 for (size_t)-1); P(i) is pattern[i].            *)
(***************************************************************************)
EXTENDS Integers, Sequences, SequencesExt

CONSTANTS
  PatChars,  \* bytes a pattern is made of (metacharacters included)
  StrChars,  \* bytes a subject is made of
  MaxPat,    \* longest pattern
  MaxStr     \* longest subject

STAR == 42   \* '*'
QMARK == 63  \* '?'
LBRACK == 91 \* '['
RBRACK == 93 \* ']'
BANG == 33   \* '!'
CARET == 94  \* '^'
DASH == 45   \* '-'

Strings(A, n) == UNION {[1..k -> A] : k \in 0..n}

VARIABLES pat, str, pi, si, star_pi, star_si, result

vars == <<pat, str, pi, si, star_pi, star_si, result>>

P(i) == pat[i + 1]
S(i) == str[i + 1]
plen == Len(pat)
slen == Len(str)

(***************************************************************************)
(* match_char_class(pattern, plen, &pi, c): from the '[' at pi, returns   *)
(* whether c is in the class and the index after its ']'.  Scan is the    *)
(* while loop: one element (a byte, or a range lo-hi) per call.           *)
(***************************************************************************)
RECURSIVE Scan(_, _, _, _)
Scan(i, first, matched, c) ==
  IF i < plen /\ (P(i) # RBRACK \/ first)
    THEN LET isRange == i + 2 < plen /\ P(i + 1) = DASH /\ P(i + 2) # RBRACK
             lo == P(i)
             hi == IF isRange THEN P(i + 2) ELSE lo
         IN Scan(IF isRange THEN i + 3 ELSE i + 1, FALSE,
                 matched \/ (lo <= c /\ c <= hi), c)
    ELSE [i |-> i, matched |-> matched]

\* mutant: a leading '!' or '^' is skipped but not applied
match_char_class_no_negate(p0, c) ==
  LET i0 == p0 + 1
      negate == i0 < plen /\ P(i0) \in {BANG, CARET}
      r == Scan(IF negate THEN i0 + 1 ELSE i0, TRUE, FALSE, c)
  IN IF i0 >= plen \/ r.i >= plen
       THEN [ok |-> FALSE, pi |-> p0]
       ELSE [ok |-> r.matched, pi |-> r.i + 1]

match_char_class(p0, c) ==
  LET i0 == p0 + 1
      negate == i0 < plen /\ P(i0) \in {BANG, CARET}
      r == Scan(IF negate THEN i0 + 1 ELSE i0, TRUE, FALSE, c)
  IN IF i0 >= plen \/ r.i >= plen
       THEN [ok |-> FALSE, pi |-> p0]
       ELSE [ok |-> IF negate THEN ~r.matched ELSE r.matched, pi |-> r.i + 1]

Init ==
  /\ pat \in Strings(PatChars, MaxPat)
  /\ str \in Strings(StrChars, MaxStr)
  /\ pi = 0 /\ si = 0 /\ star_pi = -1 /\ star_si = -1
  /\ result = "running"

(***************************************************************************)
(* One iteration of while (si < slen) per action, in the order the code   *)
(* tries its cases.                                                       *)
(***************************************************************************)
IsStar == pi < plen /\ P(pi) = STAR
IsOne == pi < plen /\ (P(pi) = QMARK \/ P(pi) = S(si))
ClassHit == pi < plen /\ P(pi) = LBRACK /\ match_char_class(pi, S(si)).ok

Running == result = "running" /\ si < slen

glob_star ==
  /\ Running /\ IsStar
  /\ star_pi' = pi /\ star_si' = si /\ pi' = pi + 1
  /\ UNCHANGED <<pat, str, si, result>>

glob_one ==
  /\ Running /\ ~IsStar /\ IsOne
  /\ pi' = pi + 1 /\ si' = si + 1
  /\ UNCHANGED <<pat, str, star_pi, star_si, result>>

glob_class ==
  /\ Running /\ ~IsStar /\ ~IsOne /\ ClassHit
  /\ pi' = match_char_class(pi, S(si)).pi /\ si' = si + 1
  /\ UNCHANGED <<pat, str, star_pi, star_si, result>>

\* mutant: the backtrack point is not moved on (no star_si++)
glob_backtrack_no_advance ==
  /\ Running /\ ~IsStar /\ ~IsOne /\ ~ClassHit
  /\ star_pi # -1
  /\ pi' = star_pi + 1 /\ si' = star_si
  /\ UNCHANGED <<pat, str, star_pi, star_si, result>>

\* mismatch: back to the byte after the last '*', one subject byte further
glob_backtrack ==
  /\ Running /\ ~IsStar /\ ~IsOne /\ ~ClassHit
  /\ star_pi # -1
  /\ pi' = star_pi + 1 /\ star_si' = star_si + 1 /\ si' = star_si + 1
  /\ UNCHANGED <<pat, str, star_pi, result>>

glob_fail ==
  /\ Running /\ ~IsStar /\ ~IsOne /\ ~ClassHit
  /\ star_pi = -1
  /\ result' = "nomatch"
  /\ UNCHANGED <<pat, str, pi, si, star_pi, star_si>>

\* subject exhausted: skip trailing '*'s; a match iff the pattern is used up
glob_end ==
  /\ result = "running" /\ si >= slen
  /\ result' = IF \A i \in pi..plen - 1 : P(i) = STAR THEN "match" ELSE "nomatch"
  /\ UNCHANGED <<pat, str, pi, si, star_pi, star_si>>

Next ==
  \/ glob_star \/ glob_one \/ glob_class
  \/ glob_backtrack \/ glob_fail \/ glob_end

Spec == Init /\ [][Next]_vars /\ WF_vars(Next)

(***************************************************************************)
(* The reference: spec.md 4.C read as a recursive definition.  A class is *)
(* '[', an optional '!' or '^', a body whose first byte may be ']', and   *)
(* the first ']' after that; in the body, x-y is the inclusive range when *)
(* y is a byte of the body.  A class with no closing ']' matches nothing. *)
(***************************************************************************)
RECURSIVE Members(_)
Members(b) ==
  IF b = <<>> THEN {}
  ELSE IF Len(b) >= 3 /\ b[2] = DASH
         THEN {x \in b[1]..b[3] : TRUE} \cup Members(SubSeq(b, 4, Len(b)))
         ELSE {b[1]} \cup Members(Tail(b))

\* p starts with '['
ClassOf(p) ==
  LET neg == Len(p) >= 2 /\ p[2] \in {BANG, CARET}
      start == IF neg THEN 3 ELSE 2
      ends == {j \in start + 1..Len(p) : p[j] = RBRACK}
  IN IF ends = {} THEN [closed |-> FALSE]
     ELSE LET e == Min(ends) IN
          [closed |-> TRUE, neg |-> neg, rest |-> SubSeq(p, e + 1, Len(p)),
           set |-> Members(SubSeq(p, start, e - 1))]

RECURSIVE Matches(_, _)
Matches(p, s) ==
  IF p = <<>> THEN s = <<>>
  ELSE IF Head(p) = STAR
    THEN Matches(Tail(p), s) \/ (s # <<>> /\ Matches(p, Tail(s)))
  ELSE s # <<>> /\
    CASE Head(p) = QMARK  -> Matches(Tail(p), Tail(s))
      [] Head(p) = LBRACK ->
           LET cl == ClassOf(p) IN
           /\ cl.closed
           /\ (Head(s) \in cl.set) # cl.neg
           /\ Matches(cl.rest, Tail(s))
      [] OTHER            -> Head(p) = Head(s) /\ Matches(Tail(p), Tail(s))

(***************************************************************************)
(* Properties.                                                            *)
(***************************************************************************)
TypeOK ==
  /\ pi \in 0..MaxPat /\ si \in 0..MaxStr
  /\ star_pi \in -1..MaxPat /\ star_si \in -1..MaxStr
  /\ result \in {"running", "match", "nomatch"}

\* glob_match (glob.c:51-93) answers as spec.md 4.C defines: '*' any run
\* of bytes with backtracking, '?' one byte, classes with ranges,
\* negation, a leading literal ']' and no match when unclosed.
GlobMatchesSpec ==
  result # "running" => ((result = "match") = Matches(pat, str))

\* The two-cursor scan with one backtrack point always terminates:
\* every backtrack moves star_si one byte on.
GlobTerminates == <>(result # "running")

=============================================================================
