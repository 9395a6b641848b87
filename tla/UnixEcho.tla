------------------------------ MODULE UnixEcho -------------------------------
(***************************************************************************)
(* networking/socket/unixSock: myServer.c starts a thread per connection   *)
(* but keeps the socket in one block that every thread points to and every *)
(* accept overwrites: a thread reads *cliSock anew for each call.  recv    *)
(* returning 0 is not noticed, so the thread goes on to a send, which on a *)
(* socket whose peer has closed raises SIGPIPE.  myClient.c sends a line   *)
(* and waits for one.  A message is <<client, number>>; Bye ends a         *)
(* conversation.                                                           *)
(***************************************************************************)
EXTENDS Naturals, Sequences

CONSTANTS
    UClients,       \* the client processes
    MaxMessages,    \* bound on the messages of a client
    MaxAccepts      \* bound on the calls of accept that return

VARIABLES
    userver,        \* "running" or "killed"
    cliSock,        \* the shared socket: a client's, or "bad" for -1
    accepts,        \* number of accepts so far: thread n is started by the nth
    thread,         \* "none", "sleep", "recv", "send", "close" or "gone"
    ubuf,           \* a thread's buffer
    g_ClientCount,
    upending,       \* clients that connected and were not accepted yet
    uopen,          \* clients whose server-side socket is open
    ucli,           \* client: "away", "idle", "waiting" or "done"
    spoken,         \* number of messages a client sent
    uup, udown,     \* on the way to the server and to the client
    foreign,        \* a client received what it had not sent
    hungup,         \* a client left without saying Bye
    overlap         \* an accept returned while an earlier thread lived

vars == <<userver, cliSock, accepts, thread, ubuf, g_ClientCount, upending, uopen,
          ucli, spoken, uup, udown, foreign, hungup, overlap>>

Threads == 1 .. MaxAccepts
Bye == 0

Init ==
    /\ userver = "running" /\ cliSock = "bad" /\ accepts = 0
    /\ thread = [t \in Threads |-> "none"] /\ ubuf = [t \in Threads |-> <<>>]
    /\ g_ClientCount = 0 /\ upending = {} /\ uopen = {}
    /\ ucli = [c \in UClients |-> "away"] /\ spoken = [c \in UClients |-> 0]
    /\ uup = [c \in UClients |-> <<>>] /\ udown = [c \in UClients |-> <<>>]
    /\ foreign = FALSE /\ hungup = FALSE /\ overlap = FALSE

Live(t) == thread[t] \notin {"none", "gone"}

-----------------------------------------------------------------------------
(* main of myServer.c *)

\* One turn of the loop; a failing accept starts a thread all the same.
accept ==
    /\ userver = "running" /\ accepts < MaxAccepts
    /\ accepts' = accepts + 1
    /\ \/ cliSock' = "bad" /\ UNCHANGED <<upending, uopen>>
       \/ \E c \in upending :
            /\ upending' = upending \ {c}
            /\ cliSock' = c /\ uopen' = uopen \cup {c}
    /\ thread' = [thread EXCEPT ![accepts'] = "sleep"]
    /\ overlap' = (overlap \/ \E t \in Threads : Live(t))
    /\ g_ClientCount' = g_ClientCount + 1
    /\ UNCHANGED <<userver, ubuf, ucli, spoken, uup, udown, foreign, hungup>>

-----------------------------------------------------------------------------
(* clientHandler *)

Wakes(t) ==
    /\ userver = "running" /\ thread[t] = "sleep"
    /\ thread' = [thread EXCEPT ![t] = "recv"]
    /\ UNCHANGED <<userver, cliSock, accepts, ubuf, g_ClientCount, upending, uopen, ucli, spoken, uup, udown, foreign, hungup, overlap>>

\* Bug: a bye is echoed like any line.
HandlerRecv_ignores_bye(t) ==
    /\ userver = "running" /\ thread[t] = "recv"
    /\ \/ /\ cliSock \notin uopen
          /\ thread' = [thread EXCEPT ![t] = "close"]
          /\ UNCHANGED <<ubuf, uup>>
       \/ /\ cliSock \in uopen /\ uup[cliSock] # <<>>
          /\ ubuf' = [ubuf EXCEPT ![t] = <<Head(uup[cliSock])>>]
          /\ uup' = [uup EXCEPT ![cliSock] = Tail(@)]
          /\ thread' = [thread EXCEPT ![t] = "send"]
       \/ /\ cliSock \in uopen /\ uup[cliSock] = <<>> /\ ucli[cliSock] = "done"
          /\ thread' = [thread EXCEPT ![t] = "send"]
          /\ UNCHANGED <<ubuf, uup>>
    /\ UNCHANGED <<userver, cliSock, accepts, g_ClientCount, upending, uopen, ucli, spoken, udown, foreign, hungup, overlap>>

\* recv on whatever *cliSock is now: a closed descriptor ends the loop, and so
\* does Bye; the end of the stream leaves the buffer as it was and goes on.
HandlerRecv(t) ==
    /\ userver = "running" /\ thread[t] = "recv"
    /\ \/ /\ cliSock \notin uopen
          /\ thread' = [thread EXCEPT ![t] = "close"]
          /\ UNCHANGED <<ubuf, uup>>
       \/ /\ cliSock \in uopen /\ uup[cliSock] # <<>>
          /\ ubuf' = [ubuf EXCEPT ![t] = <<Head(uup[cliSock])>>]
          /\ uup' = [uup EXCEPT ![cliSock] = Tail(@)]
          /\ thread' = [thread EXCEPT ![t] =
                          IF Head(uup[cliSock])[2] = Bye THEN "close" ELSE "send"]
       \/ /\ cliSock \in uopen /\ uup[cliSock] = <<>> /\ ucli[cliSock] = "done"
          /\ thread' = [thread EXCEPT ![t] = "send"]
          /\ UNCHANGED <<ubuf, uup>>
    /\ UNCHANGED <<userver, cliSock, accepts, g_ClientCount, upending, uopen, ucli, spoken, udown, foreign, hungup, overlap>>

\* send on whatever *cliSock is by then.
HandlerSend(t) ==
    /\ userver = "running" /\ thread[t] = "send"
    /\ \/ /\ cliSock \notin uopen
          /\ thread' = [thread EXCEPT ![t] = "close"]
          /\ UNCHANGED <<userver, udown>>
       \/ /\ cliSock \in uopen /\ ucli[cliSock] = "done"
          /\ userver' = "killed"
          /\ UNCHANGED <<thread, udown>>
       \/ /\ cliSock \in uopen /\ ucli[cliSock] # "done"
          /\ udown' = [udown EXCEPT ![cliSock] = @ \o ubuf[t]]
          /\ thread' = [thread EXCEPT ![t] = "recv"]
          /\ UNCHANGED userver
    /\ UNCHANGED <<cliSock, accepts, ubuf, g_ClientCount, upending, uopen, ucli, spoken, uup, foreign, hungup, overlap>>

\* The end of the thread: closes whatever *cliSock is, and counts down.
HandlerEnds(t) ==
    /\ userver = "running" /\ thread[t] = "close"
    /\ thread' = [thread EXCEPT ![t] = "gone"]
    /\ uopen' = uopen \ {cliSock}
    /\ g_ClientCount' = g_ClientCount - 1
    /\ UNCHANGED <<userver, cliSock, accepts, ubuf, upending, ucli, spoken, uup, udown, foreign, hungup, overlap>>

-----------------------------------------------------------------------------
(* myClient.c *)

Served(c) == userver = "running" /\ c \in upending \cup uopen

connect(c) ==
    /\ ucli[c] = "away" /\ userver = "running"
    /\ ucli' = [ucli EXCEPT ![c] = "idle"]
    /\ upending' = upending \cup {c}
    /\ UNCHANGED <<userver, cliSock, accepts, thread, ubuf, g_ClientCount, uopen, spoken, uup, udown, foreign, hungup, overlap>>

\* A send on a connection the server closed raises SIGPIPE.
ClientSend(c) ==
    /\ ucli[c] = "idle"
    /\ \/ /\ Served(c) /\ spoken[c] < MaxMessages
          /\ spoken' = [spoken EXCEPT ![c] = @ + 1]
          /\ uup' = [uup EXCEPT ![c] = Append(@, <<c, spoken'[c]>>)]
          /\ ucli' = [ucli EXCEPT ![c] = "waiting"]
       \/ /\ ~Served(c)
          /\ ucli' = [ucli EXCEPT ![c] = "done"]
          /\ UNCHANGED <<spoken, uup>>
    /\ UNCHANGED <<userver, cliSock, accepts, thread, ubuf, g_ClientCount, upending, uopen, udown, foreign, hungup, overlap>>

ClientBye(c) ==
    /\ ucli[c] = "idle" /\ Served(c)
    /\ uup' = [uup EXCEPT ![c] = Append(@, <<c, Bye>>)]
    /\ ucli' = [ucli EXCEPT ![c] = "done"]
    /\ UNCHANGED <<userver, cliSock, accepts, thread, ubuf, g_ClientCount, upending, uopen, spoken, udown, foreign, hungup, overlap>>

\* fgets returns NULL: the client closes without a word.
ClientHangsUp(c) ==
    /\ ucli[c] = "idle"
    /\ ucli' = [ucli EXCEPT ![c] = "done"]
    /\ hungup' = TRUE
    /\ UNCHANGED <<userver, cliSock, accepts, thread, ubuf, g_ClientCount, upending, uopen, spoken, uup, udown, foreign, overlap>>

\* recv; 0 from a closed connection is taken for a line.
ClientRecv(c) ==
    /\ ucli[c] = "waiting"
    /\ ucli' = [ucli EXCEPT ![c] = "idle"]
    /\ \/ /\ udown[c] # <<>>
          /\ udown' = [udown EXCEPT ![c] = Tail(@)]
          /\ foreign' = (foreign \/ Head(udown[c]) # <<c, spoken[c]>>)
       \/ /\ udown[c] = <<>> /\ ~Served(c)
          /\ UNCHANGED <<udown, foreign>>
    /\ UNCHANGED <<userver, cliSock, accepts, thread, ubuf, g_ClientCount, upending, uopen, spoken, uup, hungup, overlap>>

clientHandler(t) == Wakes(t) \/ HandlerRecv(t) \/ HandlerSend(t) \/ HandlerEnds(t)

Next ==
    \/ accept
    \/ \E t \in Threads : clientHandler(t)
    \/ \E c \in UClients :
         connect(c) \/ ClientSend(c) \/ ClientBye(c) \/ ClientHangsUp(c) \/ ClientRecv(c)

Spec == Init /\ [][Next]_vars

-----------------------------------------------------------------------------
(* Properties *)

\* myServer.c: as long as a connection is accepted only after the thread of the
\* one before has ended, every line comes back to its sender and the server
\* is killed only by a client that leaves without a bye.  Neither holds once
\* two connections share *cliSock.
SafeOneByOne ==
    ~overlap => ~foreign /\ (userver = "killed" => hungup)

==============================================================================
