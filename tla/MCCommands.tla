---------------------------- MODULE MCCommands -----------------------------
(***************************************************************************)
(* Commands for TLC: two keys sharing a home slot, values -1..1 and a     *)
(* non-integer, one-second ticks, and seconds arguments that are invalid, *)
(* zero and one, so that keys expire between the calls of one handler.    *)
(***************************************************************************)
EXTENDS Commands, TLC

CONSTANTS k1, k2

MCHash == [k \in Keys |-> ((k1 :> 0) @@ (k2 :> 4))[k]]
\* INT64_MIN and INT64_MAX scaled down to the values the model stores.
MCIntMin == -1
MCIntMax == 1
=============================================================================
