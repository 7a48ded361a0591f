---------------------------- MODULE MCHashtable ----------------------------
(***************************************************************************)
(* Hashtable for TLC: three keys, two of which share a home slot at every *)
(* capacity and a third that collides with them only at capacity 4, a    *)
(* table starting at 4 slots so that the 0.7 load factor forces a resize, *)
(* and a clock of three ticks so that keys expire between calls.          *)
(***************************************************************************)
EXTENDS Hashtable, TLC

CONSTANTS k1, k2, k3

\* k1 and k3 share home slot 0 at capacities 4 and 8; k2 shares it at 4 only.
MCHash == [k \in Keys |-> ((k1 :> 0) @@ (k2 :> 4) @@ (k3 :> 8))[k]]
\* Values are only compared for equality.
MCSymmetry == Permutations(Vals)
=============================================================================
