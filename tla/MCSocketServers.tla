--------------------------- MODULE MCSocketServers ---------------------------
(***************************************************************************)
(* One run for the five servers: a behaviour is one of LibeventServer,     *)
(* EpollServer, TcpEcho, UnixEcho and UdpEcho, and leaves the others'      *)
(* variables at their initial values.                                      *)
(***************************************************************************)
EXTENDS Naturals

CONSTANTS
    Clients, MaxRequests,
    EClients, MaxChunks, MAXEVENTS,
    TClients, MaxLines, LineLengths, ServerMax, ClientMax,
    UClients, MaxMessages, MaxAccepts,
    Singles, Ports, Mmp, MaxSends, MaxCopies

VARIABLES
    which,
    server, sock, peer, sent, unread, failed, cinfo, leaked, ev_read, ev_write,
    active, reads, answers,
    poller, at, backlog, gaveUp, fds, end, out, arrived, shown, closed, edges,
    batch, errors,
    tserver, cli, said, heard, up, down, handler, handler_data, buf, bye, rst,
    userver, cliSock, accepts, thread, ubuf, g_ClientCount, upending, uopen,
    ucli, spoken, uup, udown, foreign, hungup, overlap,
    srvr, msg, clt_addr, single, mmp, sends, requests, replies, copied, echoed, got

Lib == INSTANCE LibeventServer
Epoll == INSTANCE EpollServer
Tcp == INSTANCE TcpEcho
Unix == INSTANCE UnixEcho
Udp == INSTANCE UdpEcho

\* The listening socket's descriptor is no client's, and a client has a number
\* of chunks to send.
ASSUME EpollConstants == Epoll!Listener \notin EClients /\ MaxChunks \in Nat

\* Lines and buffers have a length.
ASSUME TcpConstants == LineLengths \subseteq Nat /\ ServerMax \in Nat /\ ClientMax \in Nat

\* -1 is no client's socket, and accept returns a number of times.
ASSUME UnixConstants == "bad" \notin UClients /\ MaxAccepts \in Nat

\* The two client programs are different processes.
ASSUME UdpConstants == Mmp \notin Singles /\ MaxSends \in Nat

lib_vars == <<server, sock, peer, sent, unread, failed, cinfo, leaked, ev_read,
              ev_write, active, reads, answers>>
epoll_vars == <<poller, at, backlog, gaveUp, fds, end, out, arrived, shown,
                closed, edges, batch, errors>>
tcp_vars == <<tserver, cli, said, heard, up, down, handler, handler_data, buf, bye, rst>>
unix_vars == <<userver, cliSock, accepts, thread, ubuf, g_ClientCount, upending,
               uopen, ucli, spoken, uup, udown, foreign, hungup, overlap>>
udp_vars == <<srvr, msg, clt_addr, single, mmp, sends, requests, replies, copied,
              echoed, got>>
vars == <<which, lib_vars, epoll_vars, tcp_vars, unix_vars, udp_vars>>

Init ==
    /\ which \in {"lib", "epoll", "tcp", "unix", "udp"}
    /\ Lib!Init /\ Epoll!Init /\ Tcp!Init /\ Unix!Init /\ Udp!Init
    /\ which # "tcp" => \A c \in TClients : bye[c] = 0

\* The server that runs, and what stays as it is.
InLib == which = "lib" /\ UNCHANGED <<which, epoll_vars, tcp_vars, unix_vars, udp_vars>>
InEpoll == which = "epoll" /\ UNCHANGED <<which, lib_vars, tcp_vars, unix_vars, udp_vars>>
InTcp == which = "tcp" /\ UNCHANGED <<which, lib_vars, epoll_vars, unix_vars, udp_vars>>
InUnix == which = "unix" /\ UNCHANGED <<which, lib_vars, epoll_vars, tcp_vars, udp_vars>>
InUdp == which = "udp" /\ UNCHANGED <<which, lib_vars, epoll_vars, tcp_vars, unix_vars>>

Next ==
    \/ (InLib /\ Lib!Next)
    \/ (InEpoll /\ Epoll!Next)
    \/ (InTcp /\ Tcp!Next)
    \/ (InUnix /\ Unix!Next)
    \/ (InUdp /\ Udp!Next)

\* The event loop goes on while an event is ready; clients need not.
Spec ==
    /\ Init /\ [][Next]_vars
    /\ WF_vars(InLib /\ Lib!Server)

-----------------------------------------------------------------------------
(* Properties, each of one of the servers *)

\* server.c: no event without its socket and its conn_info, no answer without a
\* request, no SIGPIPE without an answer due.
LibEventsSound == Lib!NoStaleEvent /\ Lib!AnswersAreAsked

\* server.c: a request in the buffer of an open connection is read and answered,
\* or the connection or the server is gone.
LibRequestsAnswered ==
    \A c \in Clients :
      (sock[c] = "open" /\ unread[c] > 0)
        ~> (sock[c] = "closed" \/ server = "killed" \/ (unread[c] = 0 /\ c \notin ev_write))

\* epoll.c: nothing is left without a notification to come, and at the end of a
\* client's data all of it is on standard output.
EpollNothingLost == Epoll!NothingStranded /\ Epoll!ShownBeforeClose

\* The echo programs: over TCP a client hears its own lines, whole and in order;
\* over a Unix socket, as long as there is one connection at a time; over UDP a
\* datagram is sent back once for each time it arrives, to its sender alone.
EchoIntact == Tcp!EchoIntact /\ Unix!SafeOneByOne /\ Udp!EchoedOnce

==============================================================================
