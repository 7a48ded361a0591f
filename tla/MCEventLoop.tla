---------------------------- MODULE MCEventLoop ----------------------------
(***************************************************************************)
(* EventLoop for TLC: two peers, frames of two units so that recv splits  *)
(* them, and the scripts each run uses.                                   *)
(***************************************************************************)
EXTENDS EventLoop, TLC

CONSTANTS c1, c2

\* Two pipelined requests on one connection, one on the other.
ScriptPipelined == (c1 :> <<1, 2>>) @@ (c2 :> <<3>>)
\* One request followed by a malformed frame on the second connection.
ScriptMalformed == (c1 :> <<1, 2>>) @@ (c2 :> <<3, Bad>>)
=============================================================================
