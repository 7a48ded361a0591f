----------------------------- MODULE Hashtable -----------------------------
(***************************************************************************)
(* The keyspace table of hashtable.c: open addressing with linear probing, *)
(* tombstones, lazy expiry inside every probe, doubling resize on a 0.7    *)
(* load factor, and the storage-order iterator used by KEYS.               *)
(*                                                                         *)
(* The variable ht is the hashtable_t: entries, capacity, count, used.     *)
(* Each C function that changes or reads the table is one action; it      *)
(* reads the clock (current_time_ms) once, as every call of the C code     *)
(* calls is_expired at most once per probed entry.  The clock advances by  *)
(* Tick between any two calls.  ret holds the value the last call          *)
(* returned.  Keys and values are model values; the FNV-1a hash is the     *)
(* constant function Hash.                                                 *)
(***************************************************************************)
EXTENDS Integers, FiniteSets, Sequences, SequencesExt

CONSTANTS
  Keys,      \* keys, as model values
  Vals,      \* values, as model values
  Hash,      \* fnv1a_hash of each key
  InitCap,   \* HT_INITIAL_CAPACITY (64 in the code)
  MaxTime,   \* the clock stops here (bounds the model)
  NoKey,     \* a freed or never-set key
  NoVal,     \* a freed value, or ht_get's NULL
  NoIter     \* no KEYS iteration in progress

ASSUME Hash \in [Keys -> Nat]   \* a uint32_t in the code
ASSUME \E i \in 1..6 : InitCap = 2^i

VARIABLES
  ht,        \* the hashtable_t
  now,       \* current_time_ms()
  ret,       \* the result of the last call
  iter,      \* ht_iter_t.index of the iteration cmd_keys runs, or NoIter
  yielded    \* history: the keys ht_iter_next returned in this iteration

vars == <<ht, now, ret, iter, yielded>>

(***************************************************************************)
(* Entries.                                                                *)
(***************************************************************************)
Empty == "EMPTY"
Occupied == "OCCUPIED"
Tombstone == "TOMBSTONE"

NoExpire == -1

Entry == [state : {Empty, Occupied, Tombstone}, key : Keys \cup {NoKey},
          value : Vals \cup {NoVal}, expire : {NoExpire} \cup 0..MaxTime + 1]

\* calloc'd entry with expire_at = -1 (ht_create, ht_resize)
BlankEntry == [state |-> Empty, key |-> NoKey, value |-> NoVal, expire |-> NoExpire]

\* entry_free: release key and value, leave a tombstone
FreeEntry == [state |-> Tombstone, key |-> NoKey, value |-> NoVal, expire |-> NoExpire]

\* Mutant: an entry counts as expired only after its expiry instant.
is_expired_late(e) == e.expire # NoExpire /\ now > e.expire

is_expired(e) == e.expire # NoExpire /\ now >= e.expire

Slots(t) == 0..t.capacity - 1

\* The i-th slot of the probe chain of k: (hash + i) & (capacity - 1)
ChainSlot(t, k, i) == (Hash[k] + i) % t.capacity

MinOf(S) == CHOOSE x \in S : \A y \in S : x <= y

probe(t, k) ==
  LET E     == t.entries
      stops == {i \in Slots(t) : LET e == E[ChainSlot(t, k, i)] IN
                  e.state = Empty \/ (e.state = Occupied /\ e.key = k)}
      stop  == IF stops = {} THEN t.capacity ELSE MinOf(stops)
      s     == ChainSlot(t, k, stop)
      tombs == {i \in 0..stop - 1 : E[ChainSlot(t, k, i)].state = Tombstone}
      orTomb(dflt) == IF tombs = {} THEN dflt ELSE ChainSlot(t, k, MinOf(tombs))
      match == stop < t.capacity /\ E[s].state = Occupied
      stale == match /\ is_expired(E[s])
  IN [found |-> match /\ ~stale,
      slot  |-> CASE match /\ ~stale      -> s
                  [] stop < t.capacity    -> orTomb(s)
                  [] OTHER                -> orTomb(0),
      table |-> IF stale THEN [t EXCEPT !.entries[s] = FreeEntry, !.count = @ - 1]
                ELSE t]

(***************************************************************************)
(* ht_resize(): double the capacity and re-insert every Occupied entry,   *)
(* expired or not, in storage order, each at the first non-Occupied slot  *)
(* of its chain in the new table; tombstones are dropped.                 *)
(***************************************************************************)
\* Mutant: the home slot in the new table is taken with the old mask.
Rehash_old_mask(E, cap, ncap) ==
  FoldLeft(LAMBDA acc, i :
             IF E[i].state # Occupied THEN acc
             ELSE LET h == Hash[E[i].key] % cap
                      d == MinOf({j \in 0..ncap - 1 :
                                    acc[(h + j) % ncap].state # Occupied})
                  IN [acc EXCEPT ![(h + d) % ncap] = E[i]],
           [j \in 0..ncap - 1 |-> BlankEntry],
           [i \in 1..cap |-> i - 1])

Rehash(E, cap, ncap) ==
  FoldLeft(LAMBDA acc, i :
             IF E[i].state # Occupied THEN acc
             ELSE LET h == Hash[E[i].key] % ncap
                      d == MinOf({j \in 0..ncap - 1 :
                                    acc[(h + j) % ncap].state # Occupied})
                  IN [acc EXCEPT ![(h + d) % ncap] = E[i]],
           [j \in 0..ncap - 1 |-> BlankEntry],
           [i \in 1..cap |-> i - 1])

\* Mutant: used is not reset to count after the tombstones are dropped.
ht_resize_keeps_used(t) ==
  [entries  |-> Rehash(t.entries, t.capacity, 2 * t.capacity),
   capacity |-> 2 * t.capacity,
   count    |-> t.count,
   used     |-> t.used]

ht_resize(t) ==
  [entries  |-> Rehash(t.entries, t.capacity, 2 * t.capacity),
   capacity |-> 2 * t.capacity,
   count    |-> t.count,
   used     |-> t.count]

\* (double)used >= (double)capacity * HT_LOAD_FACTOR
NeedsResize(t) == t.used * 10 >= t.capacity * 7

(***************************************************************************)
(* The operations.  cmd_keys makes no other table call while it iterates, *)
(* so every operation but ht_iter_next requires iter = NoIter.            *)
(***************************************************************************)
\* Mutant: overwriting an existing key keeps its expiry.
ht_set_keeps_expire(k, v) ==
  LET t   == IF NeedsResize(ht) THEN ht_resize(ht) ELSE ht
      p   == probe(t, k)
      u   == p.table
      new == [state |-> Occupied, key |-> k, value |-> v, expire |-> NoExpire]
  IN /\ iter = NoIter
     /\ ht' = IF p.found
                THEN [u EXCEPT !.entries[p.slot].value = v]
                ELSE [u EXCEPT !.entries[p.slot] = new,
                               !.count = @ + 1,
                               !.used = IF u.entries[p.slot].state = Empty
                                          THEN @ + 1 ELSE @]
     /\ ret' = IF p.found THEN 0 ELSE 1
     /\ UNCHANGED <<now, iter, yielded>>

ht_set(k, v) ==
  LET t   == IF NeedsResize(ht) THEN ht_resize(ht) ELSE ht
      p   == probe(t, k)
      u   == p.table
      new == [state |-> Occupied, key |-> k, value |-> v, expire |-> NoExpire]
  IN /\ iter = NoIter
     /\ ht' = IF p.found
                THEN [u EXCEPT !.entries[p.slot] = new]
                ELSE [u EXCEPT !.entries[p.slot] = new,
                               !.count = @ + 1,
                               !.used = IF u.entries[p.slot].state = Empty
                                          THEN @ + 1 ELSE @]
     /\ ret' = IF p.found THEN 0 ELSE 1
     /\ UNCHANGED <<now, iter, yielded>>

ht_get(k) ==
  LET p == probe(ht, k) IN
  /\ iter = NoIter
  /\ ht' = p.table
  /\ ret' = IF p.found THEN p.table.entries[p.slot].value ELSE NoVal
  /\ UNCHANGED <<now, iter, yielded>>

ht_exists(k) ==
  LET p == probe(ht, k) IN
  /\ iter = NoIter
  /\ ht' = p.table
  /\ ret' = IF p.found THEN 1 ELSE 0
  /\ UNCHANGED <<now, iter, yielded>>

\* Mutant: count is decremented whether or not a key was deleted.
ht_delete_uncounted(k) ==
  LET p == probe(ht, k)
      u == p.table
  IN /\ iter = NoIter
     /\ ht' = [u EXCEPT !.entries[p.slot] = IF p.found THEN FreeEntry ELSE @,
                        !.count = @ - 1]
     /\ ret' = IF p.found THEN 1 ELSE 0
     /\ UNCHANGED <<now, iter, yielded>>

ht_delete(k) ==
  LET p == probe(ht, k)
      u == p.table
  IN /\ iter = NoIter
     /\ ht' = IF p.found
                THEN [u EXCEPT !.entries[p.slot] = FreeEntry, !.count = @ - 1]
                ELSE u
     /\ ret' = IF p.found THEN 1 ELSE 0
     /\ UNCHANGED <<now, iter, yielded>>

ht_set_expire(k, at) ==
  LET p == probe(ht, k)
      u == p.table
  IN /\ iter = NoIter
     /\ ht' = IF p.found THEN [u EXCEPT !.entries[p.slot].expire = at] ELSE u
     /\ UNCHANGED <<now, ret, iter, yielded>>

ht_get_expire(k) ==
  LET p == probe(ht, k) IN
  /\ iter = NoIter
  /\ ht' = p.table
  /\ ret' = IF p.found THEN p.table.entries[p.slot].expire ELSE NoExpire
  /\ UNCHANGED <<now, iter, yielded>>

ht_iter_init ==
  /\ iter = NoIter
  /\ iter' = 0
  /\ yielded' = <<>>
  /\ UNCHANGED <<ht, now, ret>>

\* Mutant: the cursor stays on the entry it has just returned.
ht_iter_next_no_advance ==
  LET E      == ht.entries
      live   == {j \in iter..ht.capacity - 1 :
                   E[j].state = Occupied /\ ~is_expired(E[j])}
      stop   == IF live = {} THEN ht.capacity ELSE MinOf(live)
      reaped == {j \in iter..stop - 1 : E[j].state = Occupied}
  IN /\ iter # NoIter
     /\ ht' = [ht EXCEPT
                 !.entries = [j \in Slots(ht) |->
                                IF j \in reaped THEN FreeEntry ELSE E[j]],
                 !.count = @ - Cardinality(reaped)]
     /\ iter' = IF live = {} THEN NoIter ELSE stop
     /\ yielded' = IF live = {} THEN yielded ELSE Append(yielded, E[stop].key)
     /\ UNCHANGED <<now, ret>>

(***************************************************************************)
(* ht_iter_next(): from the cursor, skip non-Occupied slots and free the  *)
(* expired entries met, up to the next live entry, which is returned with *)
(* the cursor one past it.  At the end it returns false and cmd_keys      *)
(* stops iterating.                                                       *)
(***************************************************************************)
ht_iter_next ==
  LET E      == ht.entries
      live   == {j \in iter..ht.capacity - 1 :
                   E[j].state = Occupied /\ ~is_expired(E[j])}
      stop   == IF live = {} THEN ht.capacity ELSE MinOf(live)
      reaped == {j \in iter..stop - 1 : E[j].state = Occupied}
  IN /\ iter # NoIter
     /\ ht' = [ht EXCEPT
                 !.entries = [j \in Slots(ht) |->
                                IF j \in reaped THEN FreeEntry ELSE E[j]],
                 !.count = @ - Cardinality(reaped)]
     /\ iter' = IF live = {} THEN NoIter ELSE stop + 1
     /\ yielded' = IF live = {} THEN yielded ELSE Append(yielded, E[stop].key)
     /\ UNCHANGED <<now, ret>>

\* current_time_ms() moves on between calls
Tick ==
  /\ now < MaxTime
  /\ now' = now + 1
  /\ UNCHANGED <<ht, ret, iter, yielded>>

Init ==
  /\ ht = [entries  |-> [j \in 0..InitCap - 1 |-> BlankEntry],
           capacity |-> InitCap, count |-> 0, used |-> 0]
  /\ now = 0
  /\ ret = NoVal
  /\ iter = NoIter
  /\ yielded = <<>>

Next ==
  \/ \E k \in Keys :
       \/ \E v \in Vals : ht_set(k, v)
       \/ ht_get(k) \/ ht_exists(k) \/ ht_delete(k) \/ ht_get_expire(k)
       \/ \E at \in 0..MaxTime + 1 : ht_set_expire(k, at)
  \/ ht_iter_init
  \/ ht_iter_next
  \/ Tick

Spec == Init /\ [][Next]_vars

(***************************************************************************)
(* Views used by the properties.                                          *)
(***************************************************************************)
OccupiedSlots(t) == {j \in Slots(t) : t.entries[j].state = Occupied}

LiveSlots == {j \in OccupiedSlots(ht) : ~is_expired(ht.entries[j])}

LiveKeys == {ht.entries[j].key : j \in LiveSlots}

\* The entry of a live key.
LiveEntry(k) == ht.entries[CHOOSE j \in LiveSlots : ht.entries[j].key = k]

(***************************************************************************)
(* Properties.                                                            *)
(***************************************************************************)
TypeOK ==
  /\ ht.capacity \in {InitCap * 2^i : i \in 0..3}
  /\ ht.entries \in [Slots(ht) -> Entry]
  /\ ht.count \in 0..ht.capacity
  /\ ht.used \in 0..ht.capacity
  /\ now \in 0..MaxTime
  /\ ret \in Vals \cup {NoVal} \cup {NoExpire} \cup 0..MaxTime + 1
  /\ iter \in {NoIter} \cup 0..ht.capacity
  /\ yielded \in Seq(Keys)

\* Probe-chain integrity (spec.md 8): for every Occupied slot, the linear
\* probe from its key's home slot reaches it without meeting an Empty slot.
\* Deletion (entry_free), lazy expiry in probe() and in ht_iter_next, the
\* tombstone reuse of ht_set and the rehash of ht_resize must all keep it.
ProbeChainIntact ==
  \A j \in OccupiedSlots(ht) :
    LET k == ht.entries[j].key
        d == (j - Hash[k]) % ht.capacity
    IN \A i \in 0..d : ht.entries[ChainSlot(ht, k, i)].state # Empty

CountersConsistent ==
  /\ ht.count = Cardinality(OccupiedSlots(ht))
  /\ ht.used = Cardinality({j \in Slots(ht) : ht.entries[j].state # Empty})
  /\ ht.used < ht.capacity

\* One KEYS iteration (cmd_keys over ht_iter_next) returns no key twice, and
\* when it ends it has returned every key that is live at that moment.
IterationComplete ==
  [][iter # NoIter /\ iter' = NoIter =>
       /\ IsInjective(yielded')
       /\ \A k \in {ht'.entries[j].key : j \in LiveSlots'} : k \in ToSet(yielded')
    ]_vars

(***************************************************************************)
(* Refinement: the table, read through lazy expiry, is the abstract store. *)
(* An entry that is Occupied but expired is already absent there; freeing *)
(* it later is a stuttering step.                                         *)
(***************************************************************************)
AbsKV == [k \in Keys |-> IF k \in LiveKeys THEN LiveEntry(k).value ELSE NoVal]
AbsTTL == [k \in Keys |-> IF k \in LiveKeys THEN LiveEntry(k).expire ELSE NoExpire]

KV == INSTANCE KeyValueStore WITH kv <- AbsKV, ttl <- AbsTTL

\* Every call of hashtable.c returns what the abstract key-value store
\* returns, and changes the live contents only as the store does.
ImplementsKeyValueStore == KV!Spec

=============================================================================
