---------------------------- MODULE MCRespCodec -----------------------------
\* Frames and replies for checking the codec at word width 5 (INT_MIN -16,
\* INT_MAX 15).  A command is an array of bulk strings: PING with and
\* without an argument, ECHO with too few, an unknown verb; the argument
\* is a decimal near the bounds, a non-number, an empty string or a
\* payload holding CRLF.
EXTENDS RespCodec

Bulk(s) == V("bulk", s, 0, <<>>)
Arr(a) == V("array", <<>>, 0, a)

Verb == <<"a">>
LastArgs == {<<"1", "5">>, <<"1", "6">>, <<"-", "9">>, <<CR, LF>>, <<>>}

Ping == <<"p", "i", "n", "g">>
Echo == <<"E", "c", "h", "o">>

CommandsWith(A) ==
  {Arr(<<Bulk(Ping)>>), Arr(<<Bulk(Echo)>>), Arr(<<Bulk(Verb)>>)}
    \cup {Arr(<<Bulk(Ping), Bulk(x)>>) : x \in A}

\* commands, a verb that is PING up to a NUL byte, and an integer frame
\* (not a command)
MCFrames == CommandsWith(LastArgs)
              \cup {Arr(<<Bulk(Ping \o <<NUL>>)>>), V("int", <<>>, 1, <<>>)}

\* every frame alone, and pairs of frames whose replies differ in kind
PairFrames == {Arr(<<Bulk(Ping)>>), Arr(<<Bulk(Ping), Bulk(<<CR, LF>>)>>),
               Arr(<<Bulk(Verb)>>), V("int", <<>>, 1, <<>>)}
MCRequests == {<<f>> : f \in MCFrames} \cup {<<f, g>> : f, g \in PairFrames}

\* a verb holding CR LF, which the unknown-command error copies
CrlfVerb == {<<Arr(<<Bulk(<<CR, LF>>)>>)>>}

\* nothing more, a byte no frame starts with, half a frame
MCTails == {<<>>, <<"x">>, <<"*", "1">>}

\* every byte string of up to six bytes over a small alphabet, after an
\* empty command
Bytes == {"$", "*", "0", "1", CR, LF, "a"}
AnyTails == UNION {[1..k -> Bytes] : k \in 0..6}
EmptyCommand == {<<Arr(<<>>)>>}

MCReplies ==
  {V("simple", Verb, 0, <<>>), V("error", Verb, 0, <<>>), V("null", <<>>, 0, <<>>)}
  \cup {V("int", <<>>, n, <<>>) : n \in {-16, -9, 0, 10, 15}}
  \cup {Bulk(s) : s \in LastArgs \cup {Verb}}
  \cup {Arr(a) : a \in {<<>>, <<Bulk(Verb)>>, <<Bulk(<<CR, LF>>), Bulk(Verb)>>}}
=============================================================================
