----------------------------- MODULE Commands ------------------------------
(***************************************************************************)
(* The command handlers of commands.c over the keyspace of Hashtable.     *)
(* The server is single-threaded, so one command runs at a time and runs  *)
(* to completion; but a handler makes several table calls and reads the   *)
(* clock itself, and the clock moves (Tick) between any two of them.      *)
(* Each table call of a handler is one step, labelled by pc.              *)
(*                                                                         *)
(* Values are integers in IntMin..IntMax (standing for int64_t, whose     *)
(* bounds INT64_MIN and INT64_MAX they take) and the model value NotInt   *)
(* for a string parse_int64 rejects.  MsPerSec stands for the 1000 of     *)
(* seconds * 1000, so that one clock tick can be a whole second.  A reply *)
(* is a record: its kind and an integer, value or key set.                *)
(***************************************************************************)
EXTENDS Hashtable

CONSTANTS
  MsPerSec,   \* milliseconds per second (1000 in the code)
  Seconds,    \* seconds arguments of SET EX and EXPIRE, NotInt included
  IntMin,     \* INT64_MIN
  IntMax,     \* INT64_MAX
  NotInt,     \* a value or argument that is not a decimal integer
  Verbs       \* the commands a client sends ("ERR": a rejected one)

ASSUME MsPerSec \in Nat \ {0}
ASSUME IntMin < 0 /\ 0 < IntMax

VARIABLES
  pc,         \* the step of the running handler, or "idle"
  cmd,        \* the command being (or last) executed
  loc,        \* the handler's locals
  reply,      \* the last reply written
  snap        \* history: the logical store when the command began

cvars == <<pc, cmd, loc, reply, snap>>
allvars == <<ht, now, ret, iter, yielded, pc, cmd, loc, reply, snap>>

Reply(kind, n) == [kind |-> kind, n |-> n]
Nil == Reply("nil", 0)

\* parse_int64 on the argument or stored value; NoVal is a freed rstr_t
\* (data NULL, len 0), which parse_int64 rejects.
Parses(v) == v \in IntMin..IntMax

Cmd(verb, keys, val, opt, secs) ==
  [verb |-> verb, keys |-> keys, val |-> val, opt |-> opt, secs |-> secs]

LocInit == [i |-> 1, count |-> 0, expire_at |-> NoExpire, ptr |-> -1,
            current |-> 0, matches |-> {}]

\* A handler begins: its command is taken and the store is remembered.
Begin(c) ==
  /\ pc = "idle"
  /\ cmd' = c
  /\ snap' = [kv |-> AbsKV, ttl |-> AbsTTL]

Finish(r) == pc' = "idle" /\ reply' = r

Key == cmd.keys[1]

(***************************************************************************)
(* dispatch_command: the verb table with its arity bounds (-1: none); an  *)
(* unknown verb or an argument count outside the bounds is answered with  *)
(* an error and no handler runs.                                         *)
(***************************************************************************)
CommandTable ==
  [PING |-> <<1, 2>>, ECHO |-> <<2, 2>>, SET |-> <<3, 5>>, GET |-> <<2, 2>>,
   DEL |-> <<2, -1>>, EXISTS |-> <<2, -1>>, EXPIRE |-> <<3, 3>>,
   TTL |-> <<2, 2>>, KEYS |-> <<2, 2>>, TYPE |-> <<2, 2>>,
   INCR |-> <<2, 2>>, DECR |-> <<2, 2>>]

ArityOK(verb, argc) ==
  LET b == CommandTable[verb] IN
  argc >= b[1] /\ (b[2] = -1 \/ argc <= b[2])

dispatch_error(verb, argc) ==
  /\ IF verb \in DOMAIN CommandTable THEN ~ArityOK(verb, argc) ELSE TRUE
  /\ Begin(Cmd("ERR", <<>>, NoVal, "none", 0))
  /\ reply' = IF verb \notin DOMAIN CommandTable THEN Reply("err_unknown", 0)
                                                ELSE Reply("err_arity", 0)
  /\ UNCHANGED <<pc, loc, ht, now, ret, iter, yielded>>

(***************************************************************************)
(* PING, ECHO: no table call.                                             *)
(***************************************************************************)
cmd_ping(arg) ==
  /\ Begin(Cmd("PING", <<>>, arg, "none", 0))
  /\ reply' = IF arg = NoVal THEN Reply("pong", 0) ELSE Reply("bulk", arg)
  /\ UNCHANGED <<pc, loc, ht, now, ret, iter, yielded>>

cmd_echo(arg) ==
  /\ Begin(Cmd("ECHO", <<>>, arg, "none", 0))
  /\ reply' = Reply("bulk", arg)
  /\ UNCHANGED <<pc, loc, ht, now, ret, iter, yielded>>

(***************************************************************************)
(* SET k v [EX s]: ht_set first; with five arguments, either the expiry   *)
(* is set, or the key is deleted and an error replied.  With four         *)
(* arguments the fourth is ignored.                                       *)
(***************************************************************************)
cmd_set(k, v, opt, s) ==
  /\ Begin(Cmd("SET", <<k>>, v, opt, s))
  /\ ht_set(k, v)
  /\ loc' = LocInit
  /\ CASE opt \in {"none", "dangling"} -> Finish(Reply("ok", 0))
       [] opt = "EX" /\ Parses(s) /\ s > 0 -> pc' = "set_expire" /\ UNCHANGED reply
       [] OTHER -> pc' = "set_undo" /\ UNCHANGED reply

set_expire ==
  /\ pc = "set_expire"
  /\ ht_set_expire(Key, now + cmd.secs * MsPerSec)
  /\ Finish(Reply("ok", 0))
  /\ UNCHANGED <<cmd, loc, snap>>

set_undo ==
  /\ pc = "set_undo"
  /\ ht_delete(Key)
  /\ Finish(IF cmd.opt = "EX" THEN Reply("err_expire", 0) ELSE Reply("err_syntax", 0))
  /\ UNCHANGED <<cmd, loc, snap>>

cmd_get(k) ==
  /\ Begin(Cmd("GET", <<k>>, NoVal, "none", 0))
  /\ ht_get(k)
  /\ reply' = IF ret' = NoVal THEN Nil ELSE Reply("bulk", ret')
  /\ UNCHANGED <<pc, loc>>

cmd_type(k) ==
  /\ Begin(Cmd("TYPE", <<k>>, NoVal, "none", 0))
  /\ ht_exists(k)
  /\ reply' = IF ret' = 1 THEN Reply("string", 0) ELSE Reply("none", 0)
  /\ UNCHANGED <<pc, loc>>

(***************************************************************************)
(* DEL and EXISTS: one table call per key argument, in order, counting.   *)
(***************************************************************************)
cmd_multi(verb, ks) ==
  /\ Begin(Cmd(verb, ks, NoVal, "none", 0))
  /\ pc' = "multi"
  /\ loc' = LocInit
  /\ UNCHANGED <<reply, ht, now, ret, iter, yielded>>

\* Mutant: the loop stops one argument early.
multi_step_stops_early ==
  /\ pc = "multi"
  /\ IF cmd.verb = "DEL" THEN ht_delete(cmd.keys[loc.i])
                         ELSE ht_exists(cmd.keys[loc.i])
  /\ loc' = [loc EXCEPT !.i = @ + 1, !.count = @ + ret']
  /\ IF loc.i >= Len(cmd.keys) - 1 THEN Finish(Reply("int", loc'.count))
                                   ELSE UNCHANGED <<pc, reply>>
  /\ UNCHANGED <<cmd, snap>>

multi_step ==
  /\ pc = "multi"
  /\ IF cmd.verb = "DEL" THEN ht_delete(cmd.keys[loc.i])
                         ELSE ht_exists(cmd.keys[loc.i])
  /\ loc' = [loc EXCEPT !.i = @ + 1, !.count = @ + ret']
  /\ IF loc.i = Len(cmd.keys) THEN Finish(Reply("int", loc'.count))
                              ELSE UNCHANGED <<pc, reply>>
  /\ UNCHANGED <<cmd, snap>>

(***************************************************************************)
(* EXPIRE k s: parse s, ht_exists, then ht_set_expire at now + s * 1000.  *)
(***************************************************************************)
cmd_expire(k, s) ==
  /\ Begin(Cmd("EXPIRE", <<k>>, NoVal, "none", s))
  /\ loc' = LocInit
  /\ IF ~Parses(s)
       THEN /\ Finish(Reply("err_int", 0))
            /\ UNCHANGED <<ht, now, ret, iter, yielded>>
       ELSE /\ ht_exists(k)
            /\ IF ret' = 0 THEN Finish(Reply("int", 0))
                           ELSE pc' = "expire_set" /\ UNCHANGED reply

expire_set ==
  /\ pc = "expire_set"
  /\ ht_set_expire(Key, now + cmd.secs * MsPerSec)
  /\ Finish(Reply("int", 1))
  /\ UNCHANGED <<cmd, loc, snap>>

(***************************************************************************)
(* TTL k: ht_exists, then ht_get_expire (a second probe), then a clock    *)
(* read; an expiry already passed deletes the key.                        *)
(***************************************************************************)
cmd_ttl(k) ==
  /\ Begin(Cmd("TTL", <<k>>, NoVal, "none", 0))
  /\ ht_exists(k)
  /\ loc' = LocInit
  /\ IF ret' = 0 THEN Finish(Reply("int", -2))
                 ELSE pc' = "ttl_get_expire" /\ UNCHANGED reply

ttl_get_expire ==
  /\ pc = "ttl_get_expire"
  /\ ht_get_expire(Key)
  /\ loc' = [loc EXCEPT !.expire_at = ret']
  /\ IF ret' = NoExpire THEN Finish(Reply("int", -1))
                        ELSE pc' = "ttl_now" /\ UNCHANGED reply
  /\ UNCHANGED <<cmd, snap>>

\* remaining_ms = expire_at - current_time_ms(); ceil to seconds
ttl_now ==
  LET remaining == loc.expire_at - now IN
  /\ pc = "ttl_now"
  /\ IF remaining <= 0
       THEN pc' = "ttl_delete" /\ UNCHANGED reply
       ELSE Finish(Reply("int", (remaining + MsPerSec - 1) \div MsPerSec))
  /\ UNCHANGED <<cmd, loc, snap, ht, now, ret, iter, yielded>>

ttl_delete ==
  /\ pc = "ttl_delete"
  /\ ht_delete(Key)
  /\ Finish(Reply("int", -2))
  /\ UNCHANGED <<cmd, loc, snap>>

(***************************************************************************)
(* KEYS pattern: iterate the table, keep the keys the glob matches (the   *)
(* pattern is given by the set of keys it matches), reply them.           *)
(***************************************************************************)
cmd_keys(pat) ==
  /\ Begin(Cmd("KEYS", <<>>, pat, "none", 0))
  /\ ht_iter_init
  /\ pc' = "keys_next"
  /\ loc' = LocInit
  /\ UNCHANGED reply

\* Mutant: every yielded key is kept, matching the pattern or not.
keys_next_unfiltered ==
  /\ pc = "keys_next"
  /\ ht_iter_next
  /\ IF iter' = NoIter
       THEN Finish(Reply("array", loc.matches)) /\ UNCHANGED loc
       ELSE /\ loc' = [loc EXCEPT !.matches = @ \cup {Last(yielded')}]
            /\ UNCHANGED <<pc, reply>>
  /\ UNCHANGED <<cmd, snap>>

keys_next ==
  /\ pc = "keys_next"
  /\ ht_iter_next
  /\ IF iter' = NoIter
       THEN Finish(Reply("array", loc.matches)) /\ UNCHANGED loc
       ELSE /\ loc' = [loc EXCEPT !.matches =
                         IF Last(yielded') \in cmd.val THEN @ \cup {Last(yielded')} ELSE @]
            /\ UNCHANGED <<pc, reply>>
  /\ UNCHANGED <<cmd, snap>>

(***************************************************************************)
(* INCR / DECR k (delta 1 / -1, kept in the secs field of cmd): ht_get  *)
(* keeps a pointer to the stored value; if there is one, ht_get_expire    *)
(* probes again and the pointer is then parsed; the new value is written  *)
(* with ht_set and the old expiry put back with ht_set_expire.            *)
(***************************************************************************)
Overflows(cur, delta) ==
  \/ delta = 1 /\ cur = IntMax
  \/ delta = -1 /\ cur = IntMin

cmd_incr(k, delta) ==
  LET p == probe(ht, k) IN
  /\ Begin(Cmd(IF delta = 1 THEN "INCR" ELSE "DECR", <<k>>, NoVal, "none", delta))
  /\ ht_get(k)
  /\ IF ret' # NoVal
       THEN /\ loc' = [LocInit EXCEPT !.ptr = p.slot]
            /\ pc' = "incr_get_expire"
            /\ UNCHANGED reply
       ELSE /\ loc' = [LocInit EXCEPT !.current = delta]
            /\ pc' = "incr_store"
            /\ UNCHANGED reply

incr_get_expire ==
  LET v == ht'.entries[loc.ptr].value IN
  /\ pc = "incr_get_expire"
  /\ ht_get_expire(Key)
  /\ CASE ~Parses(v)                -> Finish(Reply("err_int", 0)) /\ UNCHANGED loc
       [] Overflows(v, cmd.secs)    -> Finish(Reply("err_int", 0)) /\ UNCHANGED loc
       [] OTHER -> /\ loc' = [loc EXCEPT !.expire_at = ret', !.current = v + cmd.secs]
                   /\ pc' = "incr_store"
                   /\ UNCHANGED reply
  /\ UNCHANGED <<cmd, snap>>

\* Mutant: the saved expiry is never put back after ht_set.
incr_store_drops_expiry ==
  /\ pc = "incr_store"
  /\ ht_set(Key, loc.current)
  /\ Finish(Reply("int", loc.current))
  /\ UNCHANGED <<cmd, loc, snap>>

incr_store ==
  /\ pc = "incr_store"
  /\ ht_set(Key, loc.current)
  /\ IF loc.expire_at # NoExpire THEN pc' = "incr_expire" /\ UNCHANGED reply
                                 ELSE Finish(Reply("int", loc.current))
  /\ UNCHANGED <<cmd, loc, snap>>

incr_expire ==
  /\ pc = "incr_expire"
  /\ ht_set_expire(Key, loc.expire_at)
  /\ Finish(Reply("int", loc.current))
  /\ UNCHANGED <<cmd, loc, snap>>

ClockTick == Tick /\ UNCHANGED cvars

CInit ==
  /\ Init
  /\ pc = "idle"
  /\ cmd = Cmd("NONE", <<>>, NoVal, "none", 0)
  /\ loc = LocInit
  /\ reply = Nil
  /\ snap = [kv |-> AbsKV, ttl |-> AbsTTL]

\* SET's options: none (3 arguments), a lone 4th argument, EX s, or
\* another token with an argument (5 arguments).
SetOptions == {<<"none", 0>>, <<"dangling", 0>>, <<"PX", 1>>}
                \cup {<<"EX", s>> : s \in Seconds}

KeyArgs == {<<k>> : k \in Keys} \cup {<<k, l>> : k, l \in Keys}

CNext ==
  \/ "ERR" \in Verbs /\ \E verb \in DOMAIN CommandTable \cup {"UNKNOWN"}, argc \in 1..6 :
       dispatch_error(verb, argc)
  \/ "PING" \in Verbs /\ \E v \in Vals \cup {NoVal} : cmd_ping(v)
  \/ "ECHO" \in Verbs /\ \E v \in Vals : cmd_echo(v)
  \/ \E k \in Keys :
       \/ "SET" \in Verbs /\ \E v \in Vals, o \in SetOptions : cmd_set(k, v, o[1], o[2])
       \/ "GET" \in Verbs /\ cmd_get(k)
       \/ "TYPE" \in Verbs /\ cmd_type(k)
       \/ "TTL" \in Verbs /\ cmd_ttl(k)
       \/ "EXPIRE" \in Verbs /\ \E s \in Seconds : cmd_expire(k, s)
       \/ "INCR" \in Verbs /\ \E delta \in {1, -1} : cmd_incr(k, delta)
  \/ \E verb \in {"DEL", "EXISTS"} \cap Verbs, ks \in KeyArgs : cmd_multi(verb, ks)
  \/ "KEYS" \in Verbs /\ \E pat \in {Keys} \cup {{k} : k \in Keys} : cmd_keys(pat)
  \/ set_expire \/ set_undo \/ multi_step \/ expire_set
  \/ ttl_get_expire \/ ttl_now \/ ttl_delete \/ keys_next
  \/ incr_get_expire \/ incr_store \/ incr_expire
  \/ ClockTick

CSpec == CInit /\ [][CNext]_allvars

(***************************************************************************)
(* Properties.  Each is about the command that last finished, whose       *)
(* start is remembered in snap.                                           *)
(***************************************************************************)
Done(verbs) == pc = "idle" /\ cmd.verb \in verbs

\* INCR/DECR (commands.c:256-332, spec.md 4.F): a successful reply is the
\* value now stored, and a key that had an expiry keeps that same expiry
\* (ht_set clears it, ht_set_expire must put it back), while it lives.
IncrKeepsValueAndExpiry ==
  Done({"INCR", "DECR"}) /\ reply.kind = "int" /\ Key \in LiveKeys =>
    /\ AbsKV[Key] = reply.n
    /\ snap.kv[Key] # NoVal => AbsTTL[Key] = snap.ttl[Key]

\* TTL (commands.c:169-196, spec.md 4.F): -1 means "no expiry", so it may
\* only be replied for a key that was live and had no expiry when TTL began.
TtlMinusOneMeansPersistent ==
  Done({"TTL"}) /\ reply.kind = "int" /\ reply.n = -1 =>
    snap.kv[Key] # NoVal /\ snap.ttl[Key] = NoExpire

\* INCR/DECR (spec.md 4.F): an absent key counts as 0, so the integer error
\* may only be replied when the key held a non-integer value, or the bound
\* the step would pass, when the command began.
IncrErrorMeansNotInteger ==
  Done({"INCR", "DECR"}) /\ reply.kind = "err_int" =>
    LET v == snap.kv[Key] IN
    \/ v = NotInt
    \/ v # NoVal /\ Overflows(v, cmd.secs)
    \/ v = NoVal /\ Overflows(0, cmd.secs)

\* KEYS (commands.c:198-244, spec.md 4.F): the reply holds every matching
\* key that stayed live through the iteration, and no key that was not
\* live when KEYS began, whatever expired (and was reaped by the iterator
\* or a probe) while the table was being walked, and each key once.
KeysReplyIsLiveMatches ==
  Done({"KEYS"}) /\ reply.kind = "array" =>
    /\ {k \in cmd.val : k \in LiveKeys} \subseteq reply.n
    /\ reply.n \subseteq {k \in cmd.val : snap.kv[k] # NoVal}

\* DEL and EXISTS (commands.c:127-147): after DEL no argument key is live,
\* and DEL counts each distinct key at most once, only if it was live when
\* DEL began; EXISTS counts an argument per occurrence, between the number
\* still live at the end and the number live at the start.
MultiKeyCounts ==
  LET args == 1..Len(cmd.keys)
      liveAtStart == {i \in args : snap.kv[cmd.keys[i]] # NoVal}
      liveAtEnd == {i \in args : cmd.keys[i] \in LiveKeys}
  IN
  /\ Done({"DEL"}) /\ reply.kind = "int" =>
       /\ liveAtEnd = {}
       /\ reply.n <= Cardinality({cmd.keys[i] : i \in liveAtStart})
  /\ Done({"EXISTS"}) /\ reply.kind = "int" =>
       Cardinality(liveAtEnd) <= reply.n /\ reply.n <= Cardinality(liveAtStart)

=============================================================================
