------------------------------- MODULE TcpEcho -------------------------------
(***************************************************************************)
(* networking/socket/tcp/echoserver: myServer.c starts a thread per       *)
(* connection, which nobody joins, with the socket in a block of its own;  *)
(* myClient.c sends a line and calls recv once.  The unit of data is a     *)
(* piece of a line: the server's buffer holds ServerMax pieces, the        *)
(* client's, which is twice as long, ClientMax, and a stream may be read   *)
(* in smaller pieces than it was written in.  A piece is <<line, index>>.  *)
(***************************************************************************)
EXTENDS Naturals, Sequences

CONSTANTS
    TClients,       \* the client processes
    MaxLines,       \* bound on the lines of a client
    LineLengths,    \* lengths of a line, in pieces
    ServerMax,      \* MAX_LENGTH of myServer.c, in pieces
    ClientMax       \* MAX_LENGTH of myClient.c, in pieces

VARIABLES
    tserver,        \* "running" or "exited"
    cli,            \* client: "away", "idle", "waiting" or "done"
    said,           \* pieces the client sent, in order
    heard,          \* pieces the client received, in order
    up,             \* on the way to the server
    down,           \* on the way to the client
    handler,        \* thread of a connection: "none", "failed", "recv", "send", "done"
    handler_data,   \* the connection a thread works on
    buf,            \* what a thread received last
    bye,            \* the client's last line if it begins with "bye", or 0
    rst             \* clients that are gone and answered data with a reset

vars == <<tserver, cli, said, heard, up, down, handler, handler_data, buf, bye, rst>>

Init ==
    /\ tserver = "running"
    /\ cli = [c \in TClients |-> "away"]
    /\ said = [c \in TClients |-> <<>>] /\ heard = [c \in TClients |-> <<>>]
    /\ up = [c \in TClients |-> <<>>] /\ down = [c \in TClients |-> <<>>]
    /\ handler = [c \in TClients |-> "none"]
    /\ handler_data = [c \in TClients |-> c]
    /\ buf = [c \in TClients |-> <<>>]
    /\ bye \in [TClients -> {0, MaxLines}]
    /\ rst = {}

Line(c) == IF said[c] = <<>> THEN 0 ELSE said[c][Len(said[c])][1]
AtMost(n, s) == 1 .. (IF Len(s) < n THEN Len(s) ELSE n)

-----------------------------------------------------------------------------
(* myServer.c *)

\* Bug: the threads share one handler_data.
accept_shares_data(c) ==
    /\ tserver = "running" /\ cli[c] # "away" /\ handler[c] = "none"
    /\ handler' = [handler EXCEPT ![c] = "recv"]
    /\ handler_data' = [t \in TClients |-> c]
    /\ UNCHANGED <<tserver, cli, said, heard, up, down, buf, bye, rst>>

\* One turn of main's loop: a thread with the new socket in a block of its own.
\* Nobody looks at what pthread_create returns: without a thread the
\* connection stays open and unserved.
accept(c) ==
    /\ tserver = "running" /\ cli[c] # "away" /\ handler[c] = "none"
    /\ \E how \in {"recv", "failed"} : handler' = [handler EXCEPT ![c] = how]
    /\ handler_data' = [handler_data EXCEPT ![c] = c]
    /\ UNCHANGED <<tserver, cli, said, heard, up, down, buf, bye, rst>>

\* main returns when accept or getsockopt fails, and handleSignal exits: every
\* thread ends with the process.
exit ==
    /\ tserver = "running"
    /\ tserver' = "exited"
    /\ handler' = [t \in TClients |-> "done"]
    /\ UNCHANGED <<cli, said, heard, up, down, handler_data, buf, bye, rst>>

\* recv in Handler, and the test for "bye" at the beginning of the buffer.
HandlerRecv(t) ==
    LET c == handler_data[t] IN
    /\ handler[t] = "recv" /\ up[c] # <<>>
    /\ \E n \in AtMost(ServerMax, up[c]) :
         /\ buf' = [buf EXCEPT ![t] = SubSeq(up[c], 1, n)]
         /\ up' = [up EXCEPT ![c] = SubSeq(@, n + 1, Len(@))]
    /\ handler' = [handler EXCEPT ![t] =
                     IF buf'[t][1] = <<bye[c], 1>> THEN "done" ELSE "send"]
    /\ UNCHANGED <<tserver, cli, said, heard, down, handler_data, bye, rst>>

\* recv returns 0, or an error after a reset: the loop ends.
HandlerEof(t) ==
    LET c == handler_data[t] IN
    /\ handler[t] = "recv" /\ up[c] = <<>> /\ cli[c] = "done"
    /\ handler' = [handler EXCEPT ![t] = "done"]
    /\ UNCHANGED <<tserver, cli, said, heard, up, down, handler_data, buf, bye, rst>>

\* send in Handler.  To a client that is gone the first one is answered with a
\* reset; one after the reset fails, or raises SIGPIPE and ends the server.
HandlerSend(t) ==
    LET c == handler_data[t] IN
    /\ handler[t] = "send"
    /\ \/ /\ cli[c] # "done"
          /\ down' = [down EXCEPT ![c] = @ \o buf[t]]
          /\ buf' = [buf EXCEPT ![t] = <<>>]
          /\ handler' = [handler EXCEPT ![t] = "recv"]
          /\ UNCHANGED <<tserver, rst>>
       \/ /\ cli[c] = "done" /\ c \notin rst
          /\ rst' = rst \cup {c}
          /\ buf' = [buf EXCEPT ![t] = <<>>]
          /\ handler' = [handler EXCEPT ![t] = "recv"]
          /\ UNCHANGED <<tserver, down>>
       \/ /\ c \in rst
          /\ handler' = [handler EXCEPT ![t] = "done"]
          /\ UNCHANGED <<tserver, down, buf, rst>>
       \/ /\ c \in rst
          /\ tserver' = "exited"
          /\ handler' = [u \in TClients |-> "done"]
          /\ UNCHANGED <<down, buf, rst>>
    /\ UNCHANGED <<cli, said, heard, up, handler_data, bye>>

Handler(t) == HandlerRecv(t) \/ HandlerEof(t) \/ HandlerSend(t)

-----------------------------------------------------------------------------
(* myClient.c *)

\* The kernel completes a connection before anybody accepts it.
connect(c) ==
    /\ cli[c] = "away"
    /\ cli' = [cli EXCEPT ![c] = IF tserver = "running" THEN "idle" ELSE "done"]
    /\ UNCHANGED <<tserver, said, heard, up, down, handler, handler_data, buf, bye, rst>>

\* fgets and send.
ClientSend(c) ==
    /\ cli[c] = "idle" /\ Line(c) < MaxLines
    /\ \E n \in LineLengths :
         LET line == [i \in 1 .. n |-> <<Line(c) + 1, i>>]
         IN /\ said' = [said EXCEPT ![c] = @ \o line]
            /\ up' = [up EXCEPT ![c] = IF handler[c] = "done" THEN @ ELSE @ \o line]
    /\ cli' = [cli EXCEPT ![c] = "waiting"]
    /\ UNCHANGED <<tserver, heard, down, handler, handler_data, buf, bye, rst>>

\* One recv for the whole line: what is there, up to the buffer's length.
ClientRecv(c) ==
    /\ cli[c] = "waiting" /\ down[c] # <<>>
    /\ \E n \in AtMost(ClientMax, down[c]) :
         /\ heard' = [heard EXCEPT ![c] = @ \o SubSeq(down[c], 1, n)]
         /\ down' = [down EXCEPT ![c] = SubSeq(@, n + 1, Len(@))]
    /\ cli' = [cli EXCEPT ![c] = "idle"]
    /\ UNCHANGED <<tserver, said, up, handler, handler_data, buf, bye, rst>>

\* The end of the input, or a recv that returns 0 or fails.
ClientEnds(c) ==
    /\ \/ cli[c] = "idle"
       \/ cli[c] = "waiting" /\ down[c] = <<>> /\ handler[c] = "done"
    /\ cli' = [cli EXCEPT ![c] = "done"]
    /\ UNCHANGED <<tserver, said, heard, up, down, handler, handler_data, buf, bye, rst>>

Next ==
    \/ exit
    \/ \E c \in TClients :
         \/ accept(c) \/ Handler(c)
         \/ connect(c) \/ ClientSend(c) \/ ClientRecv(c) \/ ClientEnds(c)

\* Threads and processes go on; who types at a client need not.
Spec ==
    /\ Init /\ [][Next]_vars
    /\ \A c \in TClients : WF_vars(Handler(c)) /\ WF_vars(ClientRecv(c) \/ ClientEnds(c))

-----------------------------------------------------------------------------
(* Properties *)

IsPrefix(s, t) == Len(s) <= Len(t) /\ s = SubSeq(t, 1, Len(s))

\* myServer.c and myClient.c: a client only ever hears its own lines, in order
\* and once, though the echo of a long line is cut and may be heard with the
\* next one; and while its thread runs nothing of them is missing.
EchoIntact ==
    \A c \in TClients :
      /\ IsPrefix(heard[c] \o down[c], said[c])
      /\ handler[c] \in {"recv", "send"} /\ cli[c] # "done" =>
           heard[c] \o down[c] \o buf[c] \o up[c] = said[c]

==============================================================================
