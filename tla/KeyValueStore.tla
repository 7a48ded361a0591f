--------------------------- MODULE KeyValueStore ---------------------------
(***************************************************************************)
(* What the keyspace promises (spec.md 4.D), without any table layout: a   *)
(* map from keys to values with an absolute expiry per key, a clock, and   *)
(* the result of the last operation.  A key whose expiry has been reached  *)
(* is absent: the map drops it on the clock tick that reaches its expiry.  *)
(* Booleans returned by the C functions are the integers 0 and 1.          *)
(***************************************************************************)
EXTENDS Integers

CONSTANTS
  Keys,      \* byte-string keys, as model values
  Vals,      \* byte-string values, as model values
  MaxTime,   \* the clock stops here (bounds the model)
  NoVal      \* absence of a value: a NULL rstr_t *

NoExpire == -1

VARIABLES kv, ttl, now, ret

vars == <<kv, ttl, now, ret>>

Live(k) == kv[k] # NoVal

Bit(b) == IF b THEN 1 ELSE 0

Init ==
  /\ kv = [k \in Keys |-> NoVal]
  /\ ttl = [k \in Keys |-> NoExpire]
  /\ now = 0
  /\ ret = NoVal

\* Store k = v, dropping any expiry; returns whether the key is new.
Set(k, v) ==
  /\ kv' = [kv EXCEPT ![k] = v]
  /\ ttl' = [ttl EXCEPT ![k] = NoExpire]
  /\ ret' = Bit(~Live(k))
  /\ UNCHANGED now

Get(k) ==
  /\ ret' = kv[k]
  /\ UNCHANGED <<kv, ttl, now>>

Exists(k) ==
  /\ ret' = Bit(Live(k))
  /\ UNCHANGED <<kv, ttl, now>>

Delete(k) ==
  /\ kv' = [kv EXCEPT ![k] = NoVal]
  /\ ttl' = [ttl EXCEPT ![k] = NoExpire]
  /\ ret' = Bit(Live(k))
  /\ UNCHANGED now

\* An expiry at or before now makes a live key absent at once.
SetExpire(k, at) ==
  /\ IF Live(k) /\ at <= now
       THEN /\ kv' = [kv EXCEPT ![k] = NoVal]
            /\ ttl' = [ttl EXCEPT ![k] = NoExpire]
       ELSE /\ ttl' = IF Live(k) THEN [ttl EXCEPT ![k] = at] ELSE ttl
            /\ UNCHANGED kv
  /\ UNCHANGED <<now, ret>>

GetExpire(k) ==
  /\ ret' = ttl[k]
  /\ UNCHANGED <<kv, ttl, now>>

Tick ==
  /\ now < MaxTime
  /\ now' = now + 1
  /\ LET gone(k) == ttl[k] # NoExpire /\ ttl[k] <= now'
     IN /\ kv' = [k \in Keys |-> IF gone(k) THEN NoVal ELSE kv[k]]
        /\ ttl' = [k \in Keys |-> IF gone(k) THEN NoExpire ELSE ttl[k]]
  /\ UNCHANGED ret

Next ==
  \/ \E k \in Keys :
       \/ \E v \in Vals : Set(k, v)
       \/ Get(k) \/ Exists(k) \/ Delete(k) \/ GetExpire(k)
       \/ \E at \in 0..MaxTime + 1 : SetExpire(k, at)
  \/ Tick

Spec == Init /\ [][Next]_vars

=============================================================================
