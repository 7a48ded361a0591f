---------------------------- MODULE ParseInt64 ------------------------------
(***************************************************************************)
(* The two decimal parsers of the server, as operators over byte          *)
(* sequences (a byte is a one-character string): parse_int64 of           *)
(* commands.c (INCR, DECR, EXPIRE, SET ... EX) and parse_integer_value of *)
(* resp.c (integer frames, bulk lengths, array counts).  Their loops are  *)
(* RECURSIVE operators, one call per iteration.                           *)
(*                                                                         *)
(* The word width W is a constant instead of 64, so that the overflow     *)
(* boundaries are within reach: INT_MAX and INT_MIN are 2^(W-1)-1 and     *)
(* -2^(W-1).  Signed overflow, undefined in C, is given the               *)
(* two's-complement wrap the build produces.                              *)
(***************************************************************************)
EXTENDS Integers, Sequences

CONSTANT W   \* word width of int64_t

MINUS == "-"
DigitChars == <<"0", "1", "2", "3", "4", "5", "6", "7", "8", "9">>
IsDigit(c) == \E k \in 1..10 : DigitChars[k] = c
\* data[i] - '0'
DigitValue(c) == CHOOSE k \in 0..9 : DigitChars[k + 1] = c

INT_MAX == 2^(W - 1) - 1
INT_MIN == -(2^(W - 1))

\* the W-bit two's-complement value of x
Wrap(x) == ((x - INT_MIN) % 2^W) + INT_MIN

\* C's / on integers truncates toward zero
CDiv(a, b) == IF a >= 0 THEN a \div b ELSE -((-a) \div b)

Fail == [ok |-> FALSE, val |-> 0]
Ok(v) == [ok |-> TRUE, val |-> v]

(***************************************************************************)
(* parse_int64(data, len, &out)                                           *)
(***************************************************************************)

\* mutant: the positive overflow check admits result*10+digit = INT_MAX+1
NoOverflow_off_by_one(result, negative, digit) ==
  negative \/ ~(result > CDiv(INT_MAX - digit + 1, 10))

\* if (!negative && result > (INT64_MAX - digit) / 10) return false;
\* the negative branch tests nothing (its if-body is empty)
NoOverflow(result, negative, digit) ==
  negative \/ ~(result > CDiv(INT_MAX - digit, 10))

\* the for loop from byte i (1-based) on
RECURSIVE Int64Loop(_, _, _, _)
Int64Loop(s, i, result, negative) ==
  IF i > Len(s) THEN Ok(IF negative THEN Wrap(-result) ELSE result)
  ELSE IF ~IsDigit(s[i]) \/ ~NoOverflow(result, negative, DigitValue(s[i]))
         THEN Fail
         ELSE Int64Loop(s, i + 1, Wrap(result * 10 + DigitValue(s[i])), negative)

parse_int64(s) ==
  IF Len(s) = 0 \/ s = <<MINUS>> THEN Fail
  ELSE Int64Loop(s, IF s[1] = MINUS THEN 2 ELSE 1, 0, s[1] = MINUS)

(***************************************************************************)
(* parse_integer_value(buf, len, &out): the same loop with no overflow    *)
(* check at all, and the sign applied by a multiplication at the end.     *)
(***************************************************************************)
RECURSIVE IntValueLoop(_, _, _)
IntValueLoop(s, i, result) ==
  IF i > Len(s) THEN Ok(result)
  ELSE IF ~IsDigit(s[i]) THEN Fail
  ELSE IntValueLoop(s, i + 1, Wrap(result * 10 + DigitValue(s[i])))

parse_integer_value(s) ==
  IF Len(s) = 0 \/ s = <<MINUS>> THEN Fail
  ELSE LET r == IntValueLoop(s, IF s[1] = MINUS THEN 2 ELSE 1, 0)
       IN IF r.ok THEN Ok(Wrap(r.val * (IF s[1] = MINUS THEN -1 ELSE 1))) ELSE r

(***************************************************************************)
(* The reference, from spec.md 3, 4.B and 4.F: an optional '-' and one or *)
(* more decimal digits whose value lies in [INT_MIN, INT_MAX]; anything   *)
(* else is "not an integer or out of range" (Malformed in a frame).       *)
(***************************************************************************)
RECURSIVE DecimalValue(_)
DecimalValue(s) ==
  IF s = <<>> THEN 0
  ELSE DecimalValue(SubSeq(s, 1, Len(s) - 1)) * 10 + DigitValue(s[Len(s)])

IsDecimal(s) == Len(s) >= 1 /\ \A j \in 1..Len(s) : IsDigit(s[j])

Meaning(s) ==
  LET neg == Len(s) >= 1 /\ s[1] = MINUS
      body == IF neg THEN Tail(s) ELSE s
      v == IF IsDecimal(body) THEN (IF neg THEN -1 ELSE 1) * DecimalValue(body) ELSE 0
  IN IF IsDecimal(body) /\ INT_MIN <= v /\ v <= INT_MAX THEN Ok(v) ELSE Fail
=============================================================================
