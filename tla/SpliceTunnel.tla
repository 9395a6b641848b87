---------------------------- MODULE SpliceTunnel -----------------------------
(***************************************************************************)
(* One connection through the splicing proxies of src/networking/splice    *)
(* (sp_trans_proxy; sp_exp differs only in how it connects): the main      *)
(* thread accepts the client and queues it, a thread of the work queue     *)
(* connects to the server and moves bytes, from the client with recv and   *)
(* send and from the server with splice through a pipe.                    *)
(*                                                                         *)
(* The bytes of each direction are numbered 1, 2, ...; both sockets are    *)
(* non-blocking and every system call may fail.  A splice or a send moves  *)
(* as many bytes as the kernel has room for, at least one.  A pipe has     *)
(* room for a number of buffers, whatever their length: one that is read   *)
(* in part still takes its place.                                          *)
(***************************************************************************)
EXTENDS Naturals, Sequences, FiniteSets

CONSTANTS
    SpliceSize,   \* g_splice_size
    PipeSlots,    \* buffers the pipe holds
    MaxBytes      \* bound: bytes the client sends, and bytes of the server the
                  \* model remembers

VARIABLES
    pc,        \* where the thread that has the connection is
    open,      \* of "client", "os", "pipe" (descriptors) and "info" (proxy_info)
    fromClient, fromServer,  \* bytes in the receive buffers of the two sockets
    buf,       \* bytes received from the client and not yet sent
    pipe,      \* bytes in the pipe
    lasts,     \* the last byte of each buffer in the pipe
    toServer, toClient,      \* bytes given to the kernel for each peer
    cSent, sSent,            \* how many bytes each peer sent
    cClosed, sClosed,        \* whether each peer closed
    short,     \* whether a splice to the client ever left bytes in the pipe
    why        \* how the tunnel ended

up == <<fromClient, buf, toServer, cSent, cClosed>>
down == <<fromServer, pipe, lasts, toClient, sSent, sClosed, short>>
vars == <<pc, open, up, down, why>>

Init ==
    /\ pc = "accept" /\ open = {} /\ why = "running"
    /\ fromClient = <<>> /\ buf = <<>> /\ toServer = <<>> /\ cSent = 0 /\ cClosed = FALSE
    /\ fromServer = <<>> /\ pipe = <<>> /\ lasts = {} /\ toClient = <<>>
    /\ sSent = 0 /\ sClosed = FALSE /\ short = FALSE

First(s, k) == SubSeq(s, 1, k)
Rest(s, k) == SubSeq(s, k + 1, Len(s))
Smaller(a, b) == IF a < b THEN a ELSE b

\* The loop of proxy_poll_and_tunnel is left.
Leave(reason) == pc' = "close_pipe" /\ why' = reason

(***************************************************************************)
(* main, and the set-up in tunnel_the_request                              *)
(***************************************************************************)
Accept ==
    /\ pc = "accept"
    /\ \/ open' = {"client", "info"} /\ pc' = "queue"
       \/ open' = {} /\ pc' = "done"        \* set_socket_non_blocking failed
    /\ UNCHANGED <<up, down, why>>

\* A failed WorkQAdd is logged, and nothing is closed or freed.
WorkQAdd ==
    /\ pc = "queue"
    /\ pc' \in {"connect", "dropped"}
    /\ UNCHANGED <<open, up, down, why>>

\* When the connect fails after socket() the descriptor is forgotten.
TransparentConnect ==
    /\ pc = "connect"
    /\ \/ open' = open \cup {"os"} /\ pc' = "setup" /\ UNCHANGED why
       \/ open' = {} /\ pc' = "done" /\ why' = "connect"
       \/ open' = {"os"} /\ pc' = "done" /\ why' = "connect"
    /\ UNCHANGED <<up, down>>

\* set_socket_non_blocking on the server's socket, and pipe().
SetUp ==
    /\ pc = "setup"
    /\ \/ open' = open \cup {"pipe"} /\ pc' = "poll" /\ UNCHANGED why
       \/ pc' = "release" /\ why' = "error" /\ UNCHANGED open
    /\ UNCHANGED <<up, down>>

(***************************************************************************)
(* proxy_poll_and_tunnel: the client is looked at first                    *)
(***************************************************************************)
ClientReady == fromClient # <<>> \/ cClosed
ServerReady == fromServer # <<>> \/ sClosed

\* Bug: the server is looked at first.
PollServerFirst ==
    /\ pc = "poll"
    /\ \/ ClientReady /\ ~ServerReady /\ pc' = "recv"
       \/ ServerReady /\ pc' = "splice_in"
    /\ UNCHANGED <<open, up, down, why>>

Poll ==
    /\ pc = "poll"
    /\ \/ ClientReady /\ pc' = "recv"
       \/ ~ClientReady /\ ServerReady /\ pc' = "splice_in"
    /\ UNCHANGED <<open, up, down, why>>

(***************************************************************************)
(* proxy_recv_and_send                                                     *)
(***************************************************************************)
\* recv: some bytes, the end of the stream, or EAGAIN.
Recv ==
    /\ pc = "recv"
    /\ \/ /\ fromClient # <<>>
          /\ \E k \in 1..Len(fromClient) :
                buf' = First(fromClient, k) /\ fromClient' = Rest(fromClient, k)
          /\ pc' = "send" /\ UNCHANGED why
       \/ /\ fromClient = <<>> /\ cClosed
          /\ Leave("client_closed")
          /\ UNCHANGED <<fromClient, buf>>
       \/ /\ fromClient = <<>> /\ ~cClosed
          /\ pc' = "poll" /\ UNCHANGED <<fromClient, buf, why>>
    /\ UNCHANGED <<open, toServer, cSent, cClosed, down>>

\* Bug: what a short send left over is not sent again.
SendOnce ==
    /\ pc = "send"
    /\ \E k \in 1..Len(buf) : toServer' = toServer \o First(buf, k) /\ buf' = <<>>
    /\ pc' = "recv"
    /\ UNCHANGED <<open, fromClient, cSent, cClosed, down, why>>

\* tcp_send_data_with_poll goes on until the buffer is empty; then recv again.
Send ==
    /\ pc = "send"
    /\ \E k \in 1..Len(buf) : toServer' = toServer \o First(buf, k) /\ buf' = Rest(buf, k)
    /\ pc' = IF buf' = <<>> THEN "recv" ELSE "send"
    /\ UNCHANGED <<open, fromClient, cSent, cClosed, down, why>>

(***************************************************************************)
(* make_splice                                                             *)
(***************************************************************************)
Room == PipeSlots - Cardinality(lasts)

\* Socket to pipe: some bytes, the end of the stream, or EAGAIN, because there
\* is nothing to read or because the pipe is full.
SpliceIn ==
    /\ pc = "splice_in"
    /\ \/ /\ Room > 0 /\ fromServer # <<>>
          /\ \E k \in 1..Smaller(SpliceSize, Len(fromServer)) :
             \E cuts \in SUBSET {fromServer[i] : i \in 1..k} :
                /\ fromServer[k] \in cuts /\ Cardinality(cuts) <= Room
                /\ pipe' = pipe \o First(fromServer, k) /\ lasts' = lasts \cup cuts
                /\ fromServer' = Rest(fromServer, k)
          /\ pc' = "splice_out" /\ UNCHANGED why
       \/ /\ Room > 0 /\ fromServer = <<>> /\ sClosed
          /\ Leave("server_closed")
          /\ UNCHANGED <<pipe, lasts, fromServer>>
       \/ /\ Room = 0 \/ (fromServer = <<>> /\ ~sClosed)
          /\ pc' = "poll" /\ UNCHANGED <<pipe, lasts, fromServer, why>>
    /\ UNCHANGED <<open, up, toClient, sSent, sClosed, short>>

\* Pipe to socket, once: what the client's socket does not take stays in the pipe.
SpliceOut ==
    /\ pc = "splice_out"
    /\ \E k \in 1..Smaller(SpliceSize, Len(pipe)) :
          /\ toClient' = toClient \o First(pipe, k)
          /\ pipe' = Rest(pipe, k) /\ lasts' = {b \in lasts : b > pipe[k]}
          /\ short' = (short \/ k < Len(pipe))
    /\ pc' = "splice_in"
    /\ UNCHANGED <<open, up, fromServer, sSent, sClosed, why>>

\* A system call fails or a poll times out; the first poll takes EINTR for an
\* error, too.
Fails ==
    /\ pc \in {"poll", "recv", "send", "splice_in", "splice_out"}
    /\ Leave("error")
    /\ UNCHANGED <<open, up, down>>

ClosePipe ==
    /\ pc = "close_pipe"
    /\ open' = open \ {"pipe"}
    /\ pc' = "release"
    /\ UNCHANGED <<up, down, why>>

\* Bug: the server's socket is not closed.
ReleaseClient ==
    /\ pc = "release"
    /\ open' = open \ {"client", "info"}
    /\ pc' = "done"
    /\ UNCHANGED <<up, down, why>>

\* The end of tunnel_the_request.
Release ==
    /\ pc = "release"
    /\ open' = open \ {"client", "os", "info"}
    /\ pc' = "done"
    /\ UNCHANGED <<up, down, why>>

(***************************************************************************)
(* The peers                                                               *)
(***************************************************************************)
ClientSends ==
    /\ pc # "accept" /\ ~cClosed /\ cSent < MaxBytes
    /\ cSent' = cSent + 1
    /\ fromClient' = Append(fromClient, cSent')
    /\ UNCHANGED <<pc, open, buf, toServer, cClosed, down, why>>

\* The numbers of the bytes, counted from the second byte on.
Shifted(s) == [i \in 1..Len(s) |-> s[i] - 1]

\* The server may send for ever: once it has sent MaxBytes, the oldest byte that
\* reached the client is forgotten and the others are numbered from 1 again.
ServerSends ==
    /\ pc \notin {"accept", "queue", "connect", "dropped"} /\ ~sClosed
    /\ \/ /\ sSent < MaxBytes
          /\ sSent' = sSent + 1
          /\ fromServer' = Append(fromServer, sSent')
          /\ UNCHANGED <<pipe, lasts, toClient>>
       \/ /\ sSent = MaxBytes /\ toClient # <<>>
          /\ fromServer' = Append(Shifted(fromServer), sSent)
          /\ pipe' = Shifted(pipe) /\ lasts' = {b - 1 : b \in lasts}
          /\ toClient' = Shifted(Tail(toClient))
          /\ UNCHANGED sSent
    /\ UNCHANGED <<pc, open, up, sClosed, short, why>>

ClientCloses ==
    /\ pc # "accept" /\ ~cClosed
    /\ cClosed' = TRUE
    /\ UNCHANGED <<pc, open, fromClient, buf, toServer, cSent, down, why>>

ServerCloses ==
    /\ pc \notin {"accept", "queue", "connect", "dropped"} /\ ~sClosed
    /\ sClosed' = TRUE
    /\ UNCHANGED <<pc, open, up, fromServer, pipe, lasts, toClient, sSent, short, why>>

Step ==
    \/ WorkQAdd \/ TransparentConnect \/ SetUp \/ Poll \/ Recv \/ Send
    \/ SpliceIn \/ SpliceOut \/ ClosePipe \/ Release

Next ==
    \/ Accept \/ Step \/ Fails
    \/ ClientSends \/ ServerSends \/ ClientCloses \/ ServerCloses

Spec == Init /\ [][Next]_vars

\* Queued work is done and a running thread goes on: a system call that can
\* succeed does so or fails.
FairSpec == Spec /\ WF_vars(Step)

-----------------------------------------------------------------------------
(* Properties *)

Bytes(n) == [i \in 1..n |-> i]

\* Nothing is lost, duplicated or reordered in either direction: not by short
\* sends and their retries, nor in the pipe, which may keep bytes from one call
\* of make_splice to a later one.
BytesIntact ==
    /\ toServer \o buf \o fromClient = Bytes(cSent)
    /\ toClient \o pipe \o fromServer = Bytes(sSent)

\* When the client closes, the server has got all it sent.  When the server
\* closes, all it sent was read; the client has got it if every splice to the
\* client emptied the pipe.  What a short splice left there is lost: splice_in
\* returning 0 ends the tunnel without looking at the pipe.
CloseComesLast ==
    /\ why = "client_closed" => toServer = Bytes(cSent)
    /\ why = "server_closed" =>
          /\ fromServer = <<>>
          /\ ~short => toClient = Bytes(sSent)

\* What the code never gives back: the server's socket when connect() fails, the
\* client's socket and proxy_info when the work queue refuses the item.
KeptAtEnd ==
    CASE pc = "dropped" -> {"client", "info"}
      [] why = "connect" -> {"os"}
      [] OTHER -> {}

\* A tunnel that is over has given back its sockets, its pipe and its
\* proxy_info, except for the two leaks above.
EverythingReleased == pc \in {"done", "dropped"} => open \subseteq KeptAtEnd

\* What the client sent reaches the server or the tunnel ends.
Forwarded ==
    \A n \in 1..MaxBytes :
        (cSent = n /\ pc # "dropped") ~> (Len(toServer) >= n \/ pc \in {"done", "dropped"})


==============================================================================
