----------------------------- MODULE EventLoop ------------------------------
(***************************************************************************)
(* The poll loop of server.c with the connection slots of client.c, and   *)
(* the peers at the other end of the sockets as the environment.          *)
(*                                                                         *)
(* A request is a frame of FrameLen byte units; recv may return any       *)
(* non-empty prefix of what is in flight, so frames arrive split.  The    *)
(* frame Bad is malformed from its first unit on.  The handler of a       *)
(* well-formed request r writes one reply unit, r itself: which command   *)
(* ran does not matter to the loop (Commands models that), only that      *)
(* dispatch_command writes exactly one reply per frame, in order.         *)
(*                                                                         *)
(* One iteration of main's while loop is: check g_shutdown (loop_top),    *)
(* poll, the listener's accept loop, then, for each polled slot in order, *)
(* hangup / handle_client_read / handle_client_write.  Peers act between  *)
(* any two of these steps: they are the kernel and the remote processes.  *)
(***************************************************************************)
EXTENDS Integers, Sequences, SequencesExt

CONSTANTS
  Conns,          \* client connections (a peer each), as model values
  MaxClients,     \* MAX_CLIENTS: the number of slots
  Script,         \* Script[c]: the requests peer c sends, in order
  FrameLen,       \* byte units per request frame
  Bad,            \* a malformed frame
  PERR,           \* the reply unit "-ERR Protocol error"
  NoFd,           \* fd == -1: a free slot
  AllowHalfClose, \* peers may shutdown(SHUT_WR) once they have sent all
  AllowReset      \* peers may abort the connection (RST)

ASSUME MaxClients \in Nat \ {0} /\ FrameLen \in Nat \ {0}
ASSUME \A c \in Conns : Script[c] \in Seq(Nat \cup {Bad})

Slots == 1..MaxClients

VARIABLES
  pc,          \* where main is in its loop
  g_shutdown,  \* the flag the signal handler sets
  slot,        \* clients[]: fd, read buffer, write buffer
  backlog,     \* connections the kernel completed, not yet accepted
  pollset,     \* fds[1..nfds-1] after poll: slot index and revents
  listenReady, \* fds[0].revents & POLLIN
  idx,         \* the loop index over pollset
  srv,         \* the server's end of each connection
  net,         \* units sent by the peer, not yet received by the server
  sent,        \* how many units of its byte stream the peer has sent
  peer,        \* the peer's end of each connection
  recvd,       \* reply units the peer has received, in order
  closedBy     \* history: why the server closed each connection

vars == <<pc, g_shutdown, slot, backlog, pollset, listenReady, idx,
          srv, net, sent, peer, recvd, closedBy>>
envVars == <<sent, peer>>

Frame(r) == [j \in 1..FrameLen |-> [r |-> r, part |-> j]]
Bytes(c) == FlattenSeq([j \in 1..Len(Script[c]) |-> Frame(Script[c][j])])
Unit == [r : Nat \cup {Bad}, part : 1..FrameLen]

\* client_init: a free slot
FreeSlot == [fd |-> NoFd, rbuf |-> <<>>, wbuf |-> <<>>]

Init ==
  /\ pc = "top"
  /\ g_shutdown = 0
  /\ slot = [i \in Slots |-> FreeSlot]
  /\ backlog = <<>>
  /\ pollset = <<>>
  /\ listenReady = FALSE
  /\ idx = 1
  /\ srv = [c \in Conns |-> "none"]
  /\ net = [c \in Conns |-> <<>>]
  /\ sent = [c \in Conns |-> 0]
  /\ peer = [c \in Conns |-> "idle"]
  /\ recvd = [c \in Conns |-> <<>>]
  /\ closedBy = [c \in Conns |-> "none"]

(***************************************************************************)
(* resp_parse on a read buffer that starts at a frame boundary: 0 (need   *)
(* more), -1 (malformed) or the units consumed.  Drain is the parse and   *)
(* dispatch loop of handle_client_read: it stops on need-more or at the  *)
(* first malformed frame, after queueing "ERR Protocol error".            *)
(***************************************************************************)
resp_parse(buf) ==
  CASE buf = <<>>             -> 0
    [] Head(buf).r = Bad      -> -1
    [] Len(buf) >= FrameLen   -> FrameLen
    [] OTHER                  -> 0

\* Mutant: one frame per recv ("if" for "while").
Drain_once(buf, out) ==
  LET k == resp_parse(buf) IN
  CASE k = 0 -> [rest |-> buf, out |-> out, bad |-> FALSE]
    [] k < 0 -> [rest |-> buf, out |-> Append(out, PERR), bad |-> TRUE]
    [] OTHER -> [rest |-> SubSeq(buf, k + 1, Len(buf)), out |-> Append(out, Head(buf).r),
                 bad |-> FALSE]

RECURSIVE Drain(_, _)
Drain(buf, out) ==
  LET k == resp_parse(buf) IN
  CASE k = 0 -> [rest |-> buf, out |-> out, bad |-> FALSE]
    [] k < 0 -> [rest |-> buf, out |-> Append(out, PERR), bad |-> TRUE]
    [] OTHER -> Drain(SubSeq(buf, k + 1, Len(buf)), Append(out, Head(buf).r))

\* client_close: close the fd, free both buffers, client_init.  Whatever
\* the peer had in flight is dropped with the socket.
client_close(i, why) ==
  LET c == slot[i].fd IN
  /\ slot' = [slot EXCEPT ![i] = FreeSlot]
  /\ srv' = [srv EXCEPT ![c] = "closed"]
  /\ net' = [net EXCEPT ![c] = <<>>]
  /\ closedBy' = [closedBy EXCEPT ![c] = why]

(***************************************************************************)
(* Server steps.                                                          *)
(***************************************************************************)
MaxBytes == Max({Len(Bytes(c)) : c \in Conns} \cup {1})

Readable(c) == net[c] # <<>> \/ peer[c] \in {"halfclosed", "reset"}

\* Mutant: the flag is never consulted.
loop_top_ignores_flag ==
  /\ pc = "top"
  /\ pc' = "poll"
  /\ UNCHANGED <<g_shutdown, slot, backlog, pollset, listenReady, idx,
                 srv, net, recvd, closedBy>>

\* while (!g_shutdown): the flag is read only here.
loop_top ==
  /\ pc = "top"
  /\ pc' = IF g_shutdown = 1 THEN "cleanup" ELSE "poll"
  /\ UNCHANGED <<g_shutdown, slot, backlog, pollset, listenReady, idx,
                 srv, net, recvd, closedBy>>

\* Build fds[] (listener, then every active slot in index order, POLLOUT
\* iff its write buffer is non-empty) and take the readiness poll reports.
poll ==
  LET active == SetToSortSeq({i \in Slots : slot[i].fd # NoFd}, <) IN
  /\ pc = "poll"
  /\ pollset' = [j \in 1..Len(active) |->
                   LET i == active[j] IN
                   [ci |-> i, in |-> Readable(slot[i].fd),
                    out |-> slot[i].wbuf # <<>>,
                    hup |-> peer[slot[i].fd] = "reset"]]
  /\ listenReady' = (backlog # <<>>)
  /\ pc' = "accept"
  /\ UNCHANGED <<g_shutdown, slot, backlog, idx, srv, net, recvd, closedBy>>

\* A signal during the wait: the handler sets the flag, poll fails with
\* EINTR, and the loop continues to its top.
poll_eintr ==
  /\ pc = "poll"
  /\ g_shutdown' = 1
  /\ pc' = "top"
  /\ UNCHANGED <<slot, backlog, pollset, listenReady, idx, srv, net, recvd, closedBy>>

\* Any other poll error: perror and break out of the loop.
poll_fail ==
  /\ pc = "poll"
  /\ pc' = "cleanup"
  /\ UNCHANGED <<g_shutdown, slot, backlog, pollset, listenReady, idx,
                 srv, net, recvd, closedBy>>

\* accept until EAGAIN; each socket takes the first free slot, or is
\* closed at once when there is none.
RECURSIVE Admit(_, _, _)
Admit(q, sl, sv) ==
  IF q = <<>> THEN [slot |-> sl, srv |-> sv]
  ELSE LET c == Head(q)
           free == {i \in Slots : sl[i].fd = NoFd}
       IN IF free = {}
            THEN Admit(Tail(q), sl, [sv EXCEPT ![c] = "closed"])
            ELSE Admit(Tail(q), [sl EXCEPT ![Min(free)] = [FreeSlot EXCEPT !.fd = c]],
                       [sv EXCEPT ![c] = "open"])

accept_new_client ==
  LET a == Admit(backlog, slot, srv) IN
  /\ pc = "accept"
  /\ IF listenReady
       THEN /\ slot' = a.slot
            /\ srv' = a.srv
            /\ net' = [c \in Conns |-> IF a.srv[c] = "closed" THEN <<>> ELSE net[c]]
            /\ backlog' = <<>>
            /\ closedBy' = [c \in Conns |-> IF a.srv[c] = "closed" /\ srv[c] = "backlog"
                                               THEN "refused" ELSE closedBy[c]]
       ELSE UNCHANGED <<slot, srv, net, backlog, closedBy>>
  /\ pc' = "entry"
  /\ idx' = 1
  /\ UNCHANGED <<g_shutdown, pollset, listenReady, recvd>>

Cur == pollset[idx]

NextEntry == pc' = "entry" /\ idx' = idx + 1

\* revents & (POLLERR | POLLHUP): close.
client_hup ==
  /\ pc = "entry" /\ idx <= Len(pollset)
  /\ Cur.hup
  /\ client_close(Cur.ci, "hup")
  /\ NextEntry
  /\ UNCHANGED <<g_shutdown, backlog, pollset, listenReady, recvd>>

\* handle_client_read: recv n units (0: peer closed; error: reset), then
\* parse and dispatch every complete frame, keeping the residue; on a
\* malformed frame queue the error reply and client_close.
handle_client_read(n) ==
  LET i == Cur.ci
      c == slot[i].fd
      d == Drain(slot[i].rbuf \o SubSeq(net[c], 1, n), <<>>)
  IN
  /\ pc = "entry" /\ idx <= Len(pollset)
  /\ ~Cur.hup /\ Cur.in
  /\ IF peer[c] = "reset" \/ net[c] = <<>>
       THEN client_close(i, "recv") /\ NextEntry
       ELSE /\ n <= Len(net[c])
            /\ IF d.bad
                 THEN client_close(i, "malformed") /\ NextEntry
                 ELSE /\ net' = [net EXCEPT ![c] = SubSeq(@, n + 1, Len(@))]
                      /\ slot' = [slot EXCEPT ![i].rbuf = d.rest, ![i].wbuf = @ \o d.out]
                      /\ IF Cur.out THEN pc' = "write" /\ UNCHANGED idx ELSE NextEntry
                      /\ UNCHANGED <<srv, closedBy>>
  /\ UNCHANGED <<g_shutdown, backlog, pollset, listenReady, recvd>>

client_no_read ==
  /\ pc = "entry" /\ idx <= Len(pollset)
  /\ ~Cur.hup /\ ~Cur.in
  /\ IF Cur.out THEN pc' = "write" /\ UNCHANGED idx ELSE NextEntry
  /\ UNCHANGED <<g_shutdown, slot, backlog, pollset, listenReady, srv, net, recvd, closedBy>>

\* Mutant: write_len shrinks but the residue is not moved to the front.
handle_client_write_no_memmove(m) ==
  LET i == Cur.ci
      c == slot[i].fd
      w == slot[i].wbuf
  IN
  /\ pc = "write"
  /\ IF peer[c] = "reset"
       THEN client_close(i, "send") /\ UNCHANGED recvd
       ELSE /\ m <= Len(w)
            /\ recvd' = [recvd EXCEPT ![c] = @ \o SubSeq(w, 1, m)]
            /\ slot' = [slot EXCEPT ![i].wbuf = SubSeq(w, 1, Len(w) - m)]
            /\ UNCHANGED <<srv, net, closedBy>>
  /\ NextEntry
  /\ UNCHANGED <<g_shutdown, backlog, pollset, listenReady>>

\* handle_client_write: send m units and keep the rest; a hard error
\* (the peer reset the connection) closes.
handle_client_write(m) ==
  LET i == Cur.ci
      c == slot[i].fd
      w == slot[i].wbuf
  IN
  /\ pc = "write"
  /\ IF peer[c] = "reset"
       THEN client_close(i, "send") /\ UNCHANGED recvd
       ELSE /\ m <= Len(w)
            /\ recvd' = [recvd EXCEPT ![c] = @ \o SubSeq(w, 1, m)]
            /\ slot' = [slot EXCEPT ![i].wbuf = SubSeq(w, m + 1, Len(w))]
            /\ UNCHANGED <<srv, net, closedBy>>
  /\ NextEntry
  /\ UNCHANGED <<g_shutdown, backlog, pollset, listenReady>>

entries_done ==
  /\ pc = "entry" /\ idx > Len(pollset)
  /\ pc' = "top"
  /\ UNCHANGED <<g_shutdown, slot, backlog, pollset, listenReady, idx,
                 srv, net, recvd, closedBy>>

\* After the loop: close every open client and the listener.
cleanup ==
  /\ pc = "cleanup"
  /\ slot' = [i \in Slots |-> FreeSlot]
  /\ srv' = [c \in Conns |-> IF srv[c] \in {"open", "backlog"} THEN "closed" ELSE srv[c]]
  /\ net' = [c \in Conns |-> IF srv'[c] = "closed" THEN <<>> ELSE net[c]]
  /\ closedBy' = [c \in Conns |-> IF srv[c] \in {"open", "backlog"} THEN "shutdown" ELSE closedBy[c]]
  /\ backlog' = <<>>
  /\ pc' = "exited"
  /\ UNCHANGED <<g_shutdown, pollset, listenReady, idx, recvd>>

(***************************************************************************)
(* The environment: peers and signals.  None of these is fair.            *)
(***************************************************************************)
PeerConnect(c) ==
  /\ peer[c] = "idle" /\ pc # "exited"
  /\ peer' = [peer EXCEPT ![c] = "connected"]
  /\ srv' = [srv EXCEPT ![c] = "backlog"]
  /\ backlog' = Append(backlog, c)
  /\ UNCHANGED <<pc, g_shutdown, slot, pollset, listenReady, idx, net, sent, recvd, closedBy>>

\* Bytes sent to a socket the server has closed are lost.
PeerSend(c) ==
  /\ peer[c] = "connected" /\ sent[c] < Len(Bytes(c))
  /\ sent' = [sent EXCEPT ![c] = @ + 1]
  /\ net' = IF srv[c] \in {"backlog", "open"}
              THEN [net EXCEPT ![c] = Append(@, Bytes(c)[sent'[c]])] ELSE net
  /\ UNCHANGED <<pc, g_shutdown, slot, backlog, pollset, listenReady, idx, srv, peer, recvd, closedBy>>

PeerHalfClose(c) ==
  /\ AllowHalfClose
  /\ peer[c] = "connected" /\ sent[c] = Len(Bytes(c))
  /\ peer' = [peer EXCEPT ![c] = "halfclosed"]
  /\ UNCHANGED <<pc, g_shutdown, slot, backlog, pollset, listenReady, idx, srv, net, sent, recvd, closedBy>>

PeerReset(c) ==
  /\ AllowReset
  /\ peer[c] \in {"connected", "halfclosed"}
  /\ peer' = [peer EXCEPT ![c] = "reset"]
  /\ net' = [net EXCEPT ![c] = <<>>]
  /\ UNCHANGED <<pc, g_shutdown, slot, backlog, pollset, listenReady, idx, srv, sent, recvd, closedBy>>

\* signal_handler for SIGINT / SIGTERM
Signal ==
  /\ g_shutdown = 0 /\ pc # "exited"
  /\ g_shutdown' = 1
  /\ UNCHANGED <<pc, slot, backlog, pollset, listenReady, idx, srv, net, sent, peer, recvd, closedBy>>

ServerStep ==
  \/ loop_top \/ poll \/ poll_eintr \/ poll_fail \/ accept_new_client
  \/ client_hup \/ client_no_read \/ entries_done \/ cleanup
  \/ \E n \in 1..MaxBytes : handle_client_read(n)
  \/ \E m \in 1..MaxBytes : handle_client_write(m)

\* The process has exited; the peers may still act on their ends.
Exited == pc = "exited" /\ UNCHANGED vars

Next ==
  \/ ServerStep /\ UNCHANGED envVars
  \/ \E c \in Conns : PeerConnect(c) \/ PeerSend(c) \/ PeerHalfClose(c) \/ PeerReset(c)
  \/ Signal
  \/ Exited

\* The loop never blocks except in poll, which returns within 1000 ms:
\* while the process runs, its next step is always taken.
Fairness == WF_vars(ServerStep /\ UNCHANGED envVars)

Spec == Init /\ [][Next]_vars /\ Fairness

(***************************************************************************)
(* Properties.                                                            *)
(***************************************************************************)
TypeOK ==
  /\ pc \in {"top", "poll", "accept", "entry", "write", "cleanup", "exited"}
  /\ g_shutdown \in {0, 1}
  /\ \A i \in Slots : slot[i].fd \in Conns \cup {NoFd}
                      /\ slot[i].rbuf \in Seq(Unit)
                      /\ slot[i].wbuf \in Seq(Nat \cup {PERR})
  /\ srv \in [Conns -> {"none", "backlog", "open", "closed"}]
  /\ peer \in [Conns -> {"idle", "connected", "halfclosed", "reset"}]
  /\ sent \in [Conns -> 0..MaxBytes]
  /\ closedBy \in [Conns -> {"none", "hup", "recv", "send", "malformed", "refused", "shutdown"}]

\* What peer c should get back for what it has sent: one reply per complete
\* request frame, in order, up to the first malformed frame; then, once a
\* unit of that frame is sent, "ERR Protocol error" (spec.md 4.G step 5).
Expected(c) ==
  LET s == Script[c]
      bads == {j \in 1..Len(s) : s[j] = Bad}
      firstBad == IF bads = {} THEN Len(s) + 1 ELSE Min(bads)
      complete == Min({sent[c] \div FrameLen, firstBad - 1})
  IN SubSeq(s, 1, complete)
       \o (IF firstBad <= Len(s) /\ sent[c] > (firstBad - 1) * FrameLen
             THEN <<PERR>> ELSE <<>>)

\* Replies on a connection (spec.md 5, ordering): what a peer receives is
\* always a prefix of the replies to its own requests, in request order,
\* across split frames, pipelining, partial sends, closes and the reuse of
\* a slot by the next connection (client_close / client_init).
RepliesInOrder == \A c \in Conns : IsPrefix(recvd[c], Expected(c))

\* Pipeline fidelity (spec.md 8): a peer whose requests have all been sent
\* on an accepted connection eventually receives every reply, unless it
\* resets the connection or the server shuts down.
PipelineFidelity ==
  \A c \in Conns :
    (peer[c] \in {"connected", "halfclosed"} /\ sent[c] = Len(Bytes(c)) /\ srv[c] = "open")
      ~> (recvd[c] = Expected(c) \/ peer[c] = "reset"
          \/ g_shutdown = 1 \/ pc \in {"cleanup", "exited"})

\* Shutdown (spec.md 5): once the signal handler has set g_shutdown, the
\* loop eventually exits having closed every connection.
ShutdownCompletes ==
  g_shutdown = 1 ~> (pc = "exited" /\ \A i \in Slots : slot[i].fd = NoFd)

\* Malformed input (spec.md 4.G step 5, 7): a connection the server closes
\* because of a malformed frame has been sent "ERR Protocol error" first.
ProtocolErrorDelivered ==
  \A c \in Conns :
    closedBy[c] = "malformed" => recvd[c] # <<>> /\ Last(recvd[c]) = PERR

=============================================================================
