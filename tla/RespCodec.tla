----------------------------- MODULE RespCodec ------------------------------
(***************************************************************************)
(* The wire codec of resp.c, and the read path of server.c that drives it *)
(* on one connection.                                                     *)
(*                                                                         *)
(* resp_parse and its helpers are RECURSIVE operators over byte sequences *)
(* (a byte is a one-character string; CR and LF are named).  A parse      *)
(* result is [r, v]: r is the int resp_parse returns (0 need more data,   *)
(* -1 malformed, else the bytes consumed) and v the resp_value_t.  The    *)
(* resp_write_* functions are operators yielding the bytes they append.   *)
(*                                                                         *)
(* The state machine is handle_client_read (server.c:109-166): recv of a  *)
(* chunk of the peer's bytes, then the parse/dispatch loop that keeps the *)
(* residue.  dispatch_command is reduced to its frame-format check        *)
(* (commands.c:359-371); the handlers are the Commands module.            *)
(***************************************************************************)
EXTENDS ParseInt64, SequencesExt

CR == "CR"
LF == "LF"
CRLF == <<CR, LF>>

\* a resp_value_t: type, str bytes, integer, array elements
V(t, s, n, a) == [t |-> t, s |-> s, n |-> n, a |-> a]
NoV == V("none", <<>>, 0, <<>>)
Res(r, v) == [r |-> r, v |-> v]

Drop(b, k) == SubSeq(b, k + 1, Len(b))

(***************************************************************************)
(* Parser                                                                 *)
(***************************************************************************)

\* mutant: the last CRLF of the buffer instead of the first
parse_line_last(b) ==
  LET L == {i \in 0..Len(b) - 2 : b[i + 1] = CR /\ b[i + 2] = LF}
  IN IF L = {} THEN -1 ELSE Max(L)

\* offset of the first CRLF in b, or -1
parse_line(b) ==
  LET L == {i \in 0..Len(b) - 2 : b[i + 1] = CR /\ b[i + 2] = LF}
  IN IF L = {} THEN -1 ELSE Min(L)

\* b starts after '$'.  The two bytes after the payload are not examined.
parse_bulk_string(b) ==
  LET ll == parse_line(b)
      n == parse_integer_value(SubSeq(b, 1, ll))
  IN CASE ll < 0                          -> Res(0, NoV)
       [] ~n.ok \/ n.val < -1             -> Res(-1, NoV)
       [] n.val = -1                      -> Res(1 + ll + 2, V("null", <<>>, 0, <<>>))
       [] Len(b) < ll + 2 + n.val + 2     -> Res(0, NoV)
       [] OTHER -> Res(1 + ll + 2 + n.val + 2,
                       V("bulk", SubSeq(b, ll + 3, ll + 2 + n.val), 0, <<>>))

RECURSIVE resp_parse(_), parse_array(_), ArrayLoop(_, _, _, _, _)

\* the element loop of parse_array, from element i on
ArrayLoop(b, consumed, i, count, acc) ==
  IF i = count THEN Res(consumed, V("array", <<>>, 0, acc))
  ELSE IF consumed >= Len(b) THEN Res(0, NoV)
  ELSE LET r == resp_parse(Drop(b, consumed))
       IN IF r.r <= 0 THEN Res(r.r, NoV)
          ELSE ArrayLoop(b, consumed + r.r, i + 1, count, Append(acc, r.v))

\* b starts at '*'; the malloc of count elements is not modelled
parse_array(b) ==
  LET ll == parse_line(Drop(b, 1))
      n == parse_integer_value(SubSeq(b, 2, ll + 1))
  IN CASE ll < 0             -> Res(0, NoV)
       [] ~n.ok \/ n.val < 0 -> Res(-1, NoV)
       [] OTHER              -> ArrayLoop(b, 1 + ll + 2, 0, n.val, <<>>)

resp_parse(b) ==
  IF b = <<>> THEN Res(0, NoV)
  ELSE LET ll == parse_line(Drop(b, 1))
           line == SubSeq(b, 2, ll + 1)
       IN CASE b[1] \in {"+", "-"} ->
                 IF ll < 0 THEN Res(0, NoV)
                 ELSE Res(1 + ll + 2, V(IF b[1] = "+" THEN "simple" ELSE "error", line, 0, <<>>))
            [] b[1] = ":" ->
                 IF ll < 0 THEN Res(0, NoV)
                 ELSE IF ~parse_integer_value(line).ok THEN Res(-1, NoV)
                 ELSE Res(1 + ll + 2, V("int", <<>>, parse_integer_value(line).val, <<>>))
            [] b[1] = "$" -> parse_bulk_string(Drop(b, 1))
            [] b[1] = "*" -> parse_array(b)
            [] OTHER      -> Res(-1, NoV)

(***************************************************************************)
(* Serializer: the client_write_append calls each resp_write_* makes, as  *)
(* the sequence of their byte chunks.  PRId64, %zu and %d print a decimal *)
(* with a leading '-' for negatives.                                      *)
(***************************************************************************)
RECURSIVE Unsigned(_)
Unsigned(n) ==
  IF n < 10 THEN <<DigitChars[n + 1]>>
  ELSE Unsigned(n \div 10) \o <<DigitChars[(n % 10) + 1]>>

Decimal(n) == IF n < 0 THEN <<MINUS>> \o Unsigned(-n) ELSE Unsigned(n)

resp_write_simple_string(s) == <<<<"+">>, s, CRLF>>
resp_write_error(m) == <<<<"-">>, m, CRLF>>
resp_write_integer(n) == <<<<":">> \o Decimal(n) \o CRLF>>
resp_write_bulk_string(d) == <<<<"$">> \o Decimal(Len(d)) \o CRLF, d, CRLF>>
resp_write_null_bulk_string == <<<<"$", MINUS, "1">> \o CRLF>>
resp_write_array_header(k) == <<<<"*">> \o Decimal(k) \o CRLF>>

\* the chunks a handler writes for a value: an array is its header, then
\* its elements
RECURSIVE Serialize(_)
Serialize(v) ==
  CASE v.t = "simple" -> resp_write_simple_string(v.s)
    [] v.t = "error"  -> resp_write_error(v.s)
    [] v.t = "int"    -> resp_write_integer(v.n)
    [] v.t = "bulk"   -> resp_write_bulk_string(v.s)
    [] v.t = "null"   -> resp_write_null_bulk_string
    [] v.t = "array"  ->
         resp_write_array_header(Len(v.a))
           \o FlattenSeq([i \in 1..Len(v.a) |-> Serialize(v.a[i])])

\* the bytes those chunks put on the wire
Encode(v) == FlattenSeq(Serialize(v))

(***************************************************************************)
(* dispatch_command for the verbs that do not touch the keyspace (the    *)
(* others are the Commands module): the format check, the upper-cased    *)
(* and truncated name compared with strcmp (so only up to a NUL byte),   *)
(* the table lookup with its arity bounds, and the PING and ECHO         *)
(* handlers.  Its result is the value the handler writes.  Message texts *)
(* are single tokens, except the bytes a message copies from the request.*)
(***************************************************************************)
Lower == <<"a","b","c","d","e","f","g","h","i","j","k","l","m",
           "n","o","p","q","r","s","t","u","v","w","x","y","z">>
Upper == <<"A","B","C","D","E","F","G","H","I","J","K","L","M",
           "N","O","P","Q","R","S","T","U","V","W","X","Y","Z">>

\* toupper on one byte (ASCII only)
toupper(c) == IF \E k \in 1..26 : Lower[k] = c
                THEN Upper[CHOOSE k \in 1..26 : Lower[k] = c] ELSE c

NAME_BUF_SIZE == 64   \* char name_buf[64]

NUL == "NUL"

\* a byte array read as a C string: up to its first NUL
CStr(s) == LET z == {i \in 1..Len(s) : s[i] = NUL}
           IN IF z = {} THEN s ELSE SubSeq(s, 1, Min(z) - 1)

Err(m) == V("error", m, 0, <<>>)

\* a non-empty array of bulk strings
FormatOK(v) ==
  v.t = "array" /\ Len(v.a) > 0 /\ \A i \in 1..Len(v.a) : v.a[i].t = "bulk"

\* name_buf: the first element, truncated to 63 bytes and upper-cased
NameBuf(arg0) ==
  LET n == IF Len(arg0) >= NAME_BUF_SIZE THEN NAME_BUF_SIZE - 1 ELSE Len(arg0)
  IN [i \in 1..n |-> toupper(arg0[i])]

\* the rows of command_table this module runs (max -1 means unbounded)
command_table ==
  <<[name |-> <<"P", "I", "N", "G">>, min |-> 1, max |-> 2],
    [name |-> <<"E", "C", "H", "O">>, min |-> 2, max |-> 2]>>

cmd_ping(args) ==
  IF Len(args) = 1 THEN V("simple", <<"PONG">>, 0, <<>>) ELSE V("bulk", args[2].s, 0, <<>>)

cmd_echo(args) == V("bulk", args[2].s, 0, <<>>)

dispatch_command(v) ==
  IF ~FormatOK(v) THEN Err(<<"ERR invalid command format">>)
  ELSE LET name == CStr(NameBuf(v.a[1].s))
           hit == {i \in DOMAIN command_table : command_table[i].name = name}
       IN IF hit = {} THEN Err(<<"ERR unknown command '">> \o name \o <<"'">>)
          ELSE LET e == command_table[CHOOSE i \in hit : TRUE] IN
               IF Len(v.a) < e.min \/ (e.max # -1 /\ Len(v.a) > e.max)
                 THEN Err(<<"ERR wrong number of arguments for '">> \o e.name \o <<"' command">>)
               ELSE IF e.name = command_table[1].name THEN cmd_ping(v.a) ELSE cmd_echo(v.a)

(***************************************************************************)
(* One connection: its client_t buffers, the peer's byte stream to the    *)
(* server (wire, of which fed bytes have been received) and the bytes the *)
(* peer has received back (recvd).                                        *)
(***************************************************************************)
CONSTANTS
  Requests, \* the sequences of frames a peer may send
  Tails,    \* byte strings a peer may send after its frames
  Replies,  \* values the handlers write
  MinBuf    \* MIN_BUF_SIZE (1024 in the code)

VARIABLES
  reqs,     \* the frames the peer sends (fixed; a history of its intent)
  wire,     \* the peer's whole byte stream
  fed,      \* how many of its bytes the server has received
  rbuf,     \* read_buf[0..read_len)
  rcap,     \* read_cap
  wbuf,     \* write_buf[0..write_len)
  wcap,     \* write_cap
  recvd,    \* the bytes send has handed to the peer
  frames,   \* what the loop parsed: value, raw bytes, format check
  closedBy  \* "" while open, else why client_close was called

vars == <<reqs, wire, fed, rbuf, rcap, wbuf, wcap, recvd, frames, closedBy>>

\* the capacity growth of client_write_append
GrowWrite(cap, needed) ==
  LET c == IF cap * 2 < needed THEN needed ELSE cap * 2
  IN IF c < MinBuf THEN MinBuf ELSE c

\* mutant: the doubled capacity is used even when it is short of needed
GrowRead_no_fit(cap, needed) ==
  IF cap * 2 < MinBuf THEN MinBuf ELSE cap * 2

\* the same growth, written again in handle_client_read
GrowRead(cap, needed) ==
  LET c == IF cap * 2 < needed THEN needed ELSE cap * 2
  IN IF c < MinBuf THEN MinBuf ELSE c

\* client_write_append of one chunk to [buf, cap]
client_write_append(w, d) ==
  IF Len(d) = 0 THEN w
  ELSE [buf |-> w.buf \o d,
        cap |-> IF Len(w.buf) + Len(d) > w.cap
                  THEN GrowWrite(w.cap, Len(w.buf) + Len(d)) ELSE w.cap]

\* the appends of a resp_write_* sequence, in order
AppendAll(w, chunks) == FoldLeft(client_write_append, w, chunks)

RECURSIVE Drain(_, _)

\* mutant: an incomplete frame's bytes are dropped instead of kept
Drain_drop_residue(buf, st) ==
  LET r == resp_parse(buf) IN
  IF buf = <<>> \/ r.r = 0 THEN [st EXCEPT !.rest = <<>>]
  ELSE IF r.r < 0 THEN [st EXCEPT !.rest = buf, !.bad = TRUE]
  ELSE Drain(Drop(buf, r.r),
             [st EXCEPT !.out = Append(@, [v |-> r.v, raw |-> SubSeq(buf, 1, r.r),
                                            fmt |-> FormatOK(r.v)]),
                        !.w = AppendAll(@, Serialize(dispatch_command(r.v)))])

\* the parse/dispatch loop over the read buffer; st holds the parsed
\* frames (out) and the write buffer (w); a malformed frame stops it
Drain(buf, st) ==
  LET r == resp_parse(buf) IN
  IF buf = <<>> \/ r.r = 0 THEN [st EXCEPT !.rest = buf]
  ELSE IF r.r < 0 THEN [st EXCEPT !.rest = buf, !.bad = TRUE]
  ELSE Drain(Drop(buf, r.r),
             [st EXCEPT !.out = Append(@, [v |-> r.v, raw |-> SubSeq(buf, 1, r.r),
                                            fmt |-> FormatOK(r.v)]),
                        !.w = AppendAll(@, Serialize(dispatch_command(r.v)))])

\* client_init on a slot that has just accepted the peer
Init ==
  /\ reqs \in Requests
  /\ wire \in {FlattenSeq([i \in 1..Len(reqs) |-> Encode(reqs[i])]) \o t : t \in Tails}
  /\ fed = 0 /\ rbuf = <<>> /\ rcap = 0 /\ wbuf = <<>> /\ wcap = 0
  /\ recvd = <<>> /\ frames = <<>> /\ closedBy = ""

\* client_close: the fd and both buffers go, the slot is client_init'ed
Close(why) ==
  /\ closedBy' = why
  /\ rbuf' = <<>> /\ rcap' = 0 /\ wbuf' = <<>> /\ wcap' = 0

\* recv returns n bytes: grow the read buffer, append them and run the
\* parse/dispatch loop; a malformed frame gets "ERR Protocol error"
\* written and then client_close
handle_client_read(n) ==
  /\ closedBy = "" /\ fed + n <= Len(wire)
  /\ LET buf == rbuf \o SubSeq(wire, fed + 1, fed + n)
         cap == IF Len(buf) > rcap THEN GrowRead(rcap, Len(buf)) ELSE rcap
         d == Drain(buf, [rest |-> <<>>, out |-> frames, bad |-> FALSE,
                          w |-> [buf |-> wbuf, cap |-> wcap]])
     IN /\ frames' = d.out
        /\ IF d.bad THEN Close("malformed")
           ELSE /\ rbuf' = d.rest /\ rcap' = cap
                /\ wbuf' = d.w.buf /\ wcap' = d.w.cap
                /\ closedBy' = ""
  /\ fed' = fed + n
  /\ UNCHANGED <<reqs, wire, recvd>>

\* recv returns 0 once the peer has sent everything and closed, or fails
handle_client_eof ==
  /\ closedBy = "" /\ fed = Len(wire)
  /\ Close("eof")
  /\ UNCHANGED <<reqs, wire, fed, recvd, frames>>

handle_client_recv_error ==
  /\ closedBy = ""
  /\ Close("recv_error")
  /\ UNCHANGED <<reqs, wire, fed, recvd, frames>>

\* mutant: the unsent tail is taken from one byte too far on
handle_client_write_skip(m) ==
  /\ closedBy = "" /\ m \in 1..Len(wbuf)
  /\ recvd' = recvd \o SubSeq(wbuf, 1, m)
  /\ wbuf' = SubSeq(wbuf, m + 2, Len(wbuf))
  /\ UNCHANGED <<reqs, wire, fed, rbuf, rcap, wcap, frames, closedBy>>

\* send hands the peer m of the write_len bytes; memmove keeps the rest
handle_client_write(m) ==
  /\ closedBy = "" /\ m \in 1..Len(wbuf)
  /\ recvd' = recvd \o SubSeq(wbuf, 1, m)
  /\ wbuf' = Drop(wbuf, m)
  /\ UNCHANGED <<reqs, wire, fed, rbuf, rcap, wcap, frames, closedBy>>

\* send fails with an error other than EAGAIN (the peer reset)
handle_client_send_error ==
  /\ closedBy = "" /\ wbuf # <<>>
  /\ Close("send_error")
  /\ UNCHANGED <<reqs, wire, fed, recvd, frames>>

Next ==
  \/ \E n \in 1..Len(wire) : handle_client_read(n)
  \/ handle_client_eof
  \/ handle_client_recv_error
  \/ \E m \in 1..Len(wbuf) : handle_client_write(m)
  \/ handle_client_send_error

Spec == Init /\ [][Next]_vars

(***************************************************************************)
(* The reference: spec.md 4.B read as a recursive definition.  Every      *)
(* frame ends with CRLF, a bulk payload included; integer fields are      *)
(* decimals in range (Meaning); a line without its CRLF yet needs more.   *)
(***************************************************************************)
RECURSIVE Ref(_), RefElems(_, _, _, _)
RefElems(b, at, k, acc) ==
  IF k = 0 THEN Res(at, V("array", <<>>, 0, acc))
  ELSE LET r == Ref(Drop(b, at))
       IN IF r.r <= 0 THEN r ELSE RefElems(b, at + r.r, k - 1, Append(acc, r.v))

Ref(b) ==
  LET ends == {i \in 2..Len(b) - 1 : b[i] = CR /\ b[i + 1] = LF}
      k == Min(ends)
      line == SubSeq(b, 2, k - 1)
      m == Meaning(line)
      body == k + 1
  IN CASE b = <<>> \/ (b[1] \in {"+", "-", ":", "$", "*"} /\ ends = {}) -> Res(0, NoV)
       [] b[1] \in {"+", "-"} ->
            Res(body, V(IF b[1] = "+" THEN "simple" ELSE "error", line, 0, <<>>))
       [] b[1] \in {":", "$", "*"} /\ ~m.ok -> Res(-1, NoV)
       [] b[1] = ":" -> Res(body, V("int", <<>>, m.val, <<>>))
       [] b[1] = "$" /\ m.val = -1 -> Res(body, V("null", <<>>, 0, <<>>))
       [] b[1] = "$" /\ m.val < -1 -> Res(-1, NoV)
       [] b[1] = "$" /\ Len(b) < body + m.val + 2 -> Res(0, NoV)
       [] b[1] = "$" ->
            IF SubSeq(b, body + m.val + 1, body + m.val + 2) # CRLF THEN Res(-1, NoV)
            ELSE Res(body + m.val + 2, V("bulk", SubSeq(b, body + 1, body + m.val), 0, <<>>))
       [] b[1] = "*" /\ m.val < 0 -> Res(-1, NoV)
       [] b[1] = "*" -> RefElems(b, body, m.val, <<>>)
       [] OTHER -> Res(-1, NoV)

(***************************************************************************)
(* Properties.                                                            *)
(***************************************************************************)
TypeOK ==
  /\ fed \in 0..Len(wire)
  /\ rcap \in Nat /\ wcap \in Nat
  /\ closedBy \in {"", "eof", "malformed", "recv_error", "send_error"}

Values(f) == [i \in 1..Len(f) |-> f[i].v]

\* Restartability and pipelining (spec.md 8): however the peer's bytes are
\* split across recv calls, the loop of handle_client_read (server.c:141)
\* parses the frames the peer sent, in order, each once; once every byte
\* has arrived all of them are parsed; the connection is closed as
\* malformed only for bytes after them.
FramesRestartable ==
  /\ IsPrefix(Values(frames), reqs)
  /\ fed = Len(wire) => Values(frames) = reqs
  /\ closedBy = "malformed" => Values(frames) = reqs

\* Round trip (spec.md 8): every value a handler writes, and every frame
\* the loop has parsed so far written out again, parses back as itself,
\* consuming exactly the bytes written; bulk payloads holding CR, LF or a
\* whole CRLF included.
RoundTrip ==
  \A v \in Replies \cup Range(Values(frames)) :
    resp_parse(Encode(v)) = Res(Len(Encode(v)), v)

\* The last argument of a well-formed command, read by parse_int64 as
\* INCR/DECR values and EXPIRE/SET EX seconds are, is the decimal the
\* client sent, or is refused as "not an integer or out of range".
IntArgExact ==
  \A i \in 1..Len(frames) :
    frames[i].fmt =>
      LET arg == frames[i].v.a[Len(frames[i].v.a)].s
      IN parse_int64(arg) = Meaning(arg)

\* Every frame the loop accepted is a frame of spec.md 4.B, read from
\* exactly the bytes the parser consumed.
ParsedMeansValid ==
  \A i \in 1..Len(frames) : Ref(frames[i].raw) = Res(Len(frames[i].raw), frames[i].v)

\* what a client reading by spec.md 4.B makes of the bytes it has received:
\* the complete frames, up to the first it cannot read
RECURSIVE Decode(_)
Decode(b) ==
  LET r == Ref(b) IN IF r.r <= 0 THEN <<>> ELSE <<r.v>> \o Decode(Drop(b, r.r))

\* the reply dispatch_command writes for each frame parsed so far
Expected == [i \in 1..Len(frames) |-> dispatch_command(frames[i].v)]

\* Pipeline fidelity at the byte level (spec.md 8): through split recvs,
\* the parse/dispatch loop, client_write_append and partial sends with
\* memmove (server.c:168-186), the peer reads one reply per request, in
\* order; while the connection is open, what it has received followed by
\* the write buffer is exactly the replies written; once the buffer is
\* empty it has read every one of them.
ReplyStreamFaithful ==
  /\ IsPrefix(Decode(recvd), Expected)
  /\ closedBy = "" =>
       /\ recvd \o wbuf = FlattenSeq([i \in 1..Len(Expected) |-> Encode(Expected[i])])
       /\ wbuf = <<>> => Decode(recvd) = Expected

\* The memcpy of handle_client_read (server.c:138) and of
\* client_write_append (client.c:53) stays within the capacity the
\* realloc before it chose: every step leaves the read buffer, before
\* the loop consumes it, and the write buffer within their capacities.
NoBufferOverrun ==
  [][closedBy' = "" =>
       /\ Len(rbuf) + (fed' - fed) <= rcap'
       /\ Len(wbuf') <= wcap']_vars
=============================================================================
