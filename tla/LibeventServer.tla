--------------------------- MODULE LibeventServer ----------------------------
(***************************************************************************)
(* networking/server/server.c: one thread, one event base, level-triggered *)
(* events.  The listening socket's callback accepts; every client has a    *)
(* conn_info with a read event, always added, and a write event, added     *)
(* when a request was read and deleted when the one canned response went   *)
(* out.  A round of the loop first activates every ready event, then runs  *)
(* their callbacks in any order; event_free takes an event out of both     *)
(* sets.                                                                   *)
(***************************************************************************)
EXTENDS Naturals, FiniteSets

CONSTANTS
    Clients,        \* the clients that may connect, each once
    MaxRequests     \* bound on the requests a client sends

VARIABLES
    server,     \* "new", "running", "exited" or "killed" (by SIGPIPE)
    sock,       \* the server's socket: "none", "pending", "open" or "closed"
    peer,       \* the client's end: "away", "connected", "closed" or "reset"
    sent,       \* number of requests the client sent
    unread,     \* of these, the ones in the kernel's buffer
    failed,     \* clients whose reset no call of the server has reported yet
    cinfo,      \* clients whose conn_info is allocated
    leaked,     \* of these, the ones no event and no variable points to
    ev_read,    \* clients whose read event is added
    ev_write,   \* clients whose write event is added
    active,     \* events of this round whose callback has not run yet
    reads,      \* number of recv calls that returned data
    answers     \* number of responses sent

vars == <<server, sock, peer, sent, unread, failed, cinfo, leaked, ev_read,
          ev_write, active, reads, answers>>

Listen == <<"listen">>
Read(c) == <<"read", c>>
Write(c) == <<"write", c>>

Init ==
    /\ server = "new"
    /\ sock = [c \in Clients |-> "none"]
    /\ peer = [c \in Clients |-> "away"]
    /\ sent = [c \in Clients |-> 0] /\ unread = [c \in Clients |-> 0]
    /\ failed = {} /\ cinfo = {} /\ leaked = {}
    /\ ev_read = {} /\ ev_write = {} /\ active = {}
    /\ reads = [c \in Clients |-> 0] /\ answers = [c \in Clients |-> 0]

-----------------------------------------------------------------------------
(* The clients and the network *)

ClientConnects(c) ==
    /\ server = "running" /\ peer[c] = "away"
    /\ peer' = [peer EXCEPT ![c] = "connected"]
    /\ sock' = [sock EXCEPT ![c] = "pending"]
    /\ UNCHANGED <<server, sent, unread, failed, cinfo, leaked, ev_read, ev_write, active, reads, answers>>

ClientSends(c) ==
    /\ peer[c] = "connected" /\ sent[c] < MaxRequests
    /\ sent' = [sent EXCEPT ![c] = @ + 1]
    /\ unread' = [unread EXCEPT ![c] = IF sock[c] = "closed" THEN 0 ELSE @ + 1]
    /\ UNCHANGED <<server, sock, peer, failed, cinfo, leaked, ev_read, ev_write, active, reads, answers>>

\* An orderly close, or a reset: what was sent before can still be read.
ClientLeaves(c) ==
    /\ peer[c] = "connected"
    /\ \/ peer' = [peer EXCEPT ![c] = "closed"] /\ UNCHANGED failed
       \/ peer' = [peer EXCEPT ![c] = "reset"] /\ failed' = failed \cup {c}
    /\ UNCHANGED <<server, sock, sent, unread, cinfo, leaked, ev_read, ev_write, active, reads, answers>>

-----------------------------------------------------------------------------
(* The server *)

\* main and run_server, up to the dispatch: any failing call ends the program.
run_server ==
    /\ server = "new"
    /\ server' \in {"running", "exited"}
    /\ UNCHANGED <<sock, peer, sent, unread, failed, cinfo, leaked, ev_read, ev_write, active, reads, answers>>

\* The answers are short: the socket of a client has room for them, whether or not
\* the client reads.
Ready ==
    {Listen : c \in {d \in Clients : sock[d] = "pending"}}
      \cup {Read(c) : c \in {d \in ev_read : unread[d] > 0 \/ peer[d] # "connected"}}
      \cup {Write(c) : c \in ev_write}

\* One call of epoll_wait inside event_base_dispatch.
Dispatch ==
    /\ server = "running" /\ active = {} /\ Ready # {}
    /\ active' = Ready
    /\ UNCHANGED <<server, sock, peer, sent, unread, failed, cinfo, leaked, ev_read, ev_write, reads, answers>>

\* Bug: the socket is closed and the conn_info with its events kept.
Drop_close_only(c) ==
    /\ active' = active \ {Read(c)}
    /\ sock' = [sock EXCEPT ![c] = "closed"]
    /\ unread' = [unread EXCEPT ![c] = 0]
    /\ UNCHANGED <<cinfo, ev_read, ev_write>>

\* conn_info_free and the close that follows it.  The event that runs is
\* already out of the active ones.
Drop(c) ==
    /\ cinfo' = cinfo \ {c}
    /\ ev_read' = ev_read \ {c} /\ ev_write' = ev_write \ {c}
    /\ active' = active \ {Read(c), Write(c)}
    /\ sock' = [sock EXCEPT ![c] = "closed"]
    /\ unread' = [unread EXCEPT ![c] = 0]

\* srvr_accept_cb: accept fails, or the set-up of the client fails before or
\* after its conn_info exists (which is then lost), or all goes well.
srvr_accept_cb ==
    /\ server = "running" /\ Listen \in active
    /\ active' = active \ {Listen}
    /\ \/ UNCHANGED <<sock, cinfo, leaked, ev_read>>
       \/ \E c \in Clients :
            /\ sock[c] = "pending"
            /\ \/ /\ sock' = [sock EXCEPT ![c] = "closed"]
                  /\ UNCHANGED <<cinfo, leaked, ev_read>>
               \/ /\ sock' = [sock EXCEPT ![c] = "closed"]
                  /\ cinfo' = cinfo \cup {c} /\ leaked' = leaked \cup {c}
                  /\ UNCHANGED ev_read
               \/ /\ sock' = [sock EXCEPT ![c] = "open"]
                  /\ cinfo' = cinfo \cup {c} /\ ev_read' = ev_read \cup {c}
                  /\ UNCHANGED leaked
    /\ UNCHANGED <<server, peer, sent, unread, failed, ev_write, reads, answers>>

\* cli_recv_cb when the first event_add of the write event fails.
RecvAddFails(c) ==
    /\ server = "running" /\ Read(c) \in active
    /\ unread[c] > 0 /\ c \notin ev_write
    /\ reads' = [reads EXCEPT ![c] = @ + 1]
    /\ Drop(c)
    /\ UNCHANGED <<server, peer, sent, failed, leaked, answers>>

\* Bug: the read event lacks EV_PERSIST, so that one callback takes it off.
cli_recv_cb_not_persistent(c) ==
    /\ server = "running" /\ Read(c) \in active
    /\ reads' = [reads EXCEPT ![c] = @ + 1]
    /\ unread' = [unread EXCEPT ![c] = 0]
    /\ ev_read' = ev_read \ {c} /\ ev_write' = ev_write \cup {c}
    /\ active' = active \ {Read(c)}
    /\ UNCHANGED <<server, sock, peer, sent, failed, cinfo, leaked, answers>>

\* cli_recv_cb: everything there is, in n calls of recv (the requests may come
\* joined), each adding the write event, then the call that ends the loop: 0
\* when the client closed, a reset that is only logged, or EAGAIN.
cli_recv_cb(c) ==
    /\ server = "running" /\ Read(c) \in active
    /\ \E n \in (IF unread[c] = 0 THEN {0} ELSE 1 .. unread[c]) :
         reads' = [reads EXCEPT ![c] = @ + n]
    /\ \/ /\ peer[c] # "connected" /\ c \notin failed
          /\ Drop(c)
          /\ UNCHANGED failed
       \/ /\ peer[c] = "connected" \/ c \in failed
          /\ unread' = [unread EXCEPT ![c] = 0]
          /\ ev_write' = IF unread[c] > 0 THEN ev_write \cup {c} ELSE ev_write
          /\ active' = active \ {Read(c)}
          /\ failed' = failed \ {c}
          /\ UNCHANGED <<sock, cinfo, ev_read>>
    /\ UNCHANGED <<server, peer, sent, leaked, answers>>

\* cli_send_cb does not look at what send returned.  A client that is gone
\* answers with a reset; a send after that reset was reported raises SIGPIPE,
\* which nothing in the program handles or ignores.
cli_send_cb(c) ==
    /\ server = "running" /\ Write(c) \in active
    /\ active' = active \ {Write(c)}
    /\ ev_write' = ev_write \ {c}
    /\ \/ /\ peer[c] = "connected"
          /\ answers' = [answers EXCEPT ![c] = @ + 1]
          /\ UNCHANGED <<server, peer, failed>>
       \/ /\ peer[c] = "closed"
          /\ answers' = [answers EXCEPT ![c] = @ + 1]
          /\ peer' = [peer EXCEPT ![c] = "reset"] /\ failed' = failed \cup {c}
          /\ UNCHANGED server
       \/ /\ peer[c] = "reset" /\ c \in failed
          /\ failed' = failed \ {c}
          /\ UNCHANGED <<server, peer, answers>>
       \/ /\ peer[c] = "reset"
          /\ server' = "killed"
          /\ UNCHANGED <<peer, failed, answers>>
    /\ UNCHANGED <<sock, sent, unread, cinfo, leaked, ev_read, reads>>

Server ==
    \/ Dispatch \/ srvr_accept_cb
    \/ \E c \in Clients : RecvAddFails(c) \/ cli_recv_cb(c) \/ cli_send_cb(c)

Next ==
    \/ run_server \/ Server
    \/ \E c \in Clients : ClientConnects(c) \/ ClientSends(c) \/ ClientLeaves(c)

Spec == Init /\ [][Next]_vars /\ WF_vars(Server)

-----------------------------------------------------------------------------
(* Properties *)

\* server.c: every event that is added or about to run belongs to an open
\* socket and to a conn_info that is still allocated, every open socket has
\* both, and a conn_info outlives its socket only when the event_add in
\* srvr_accept_cb failed.
NoStaleEvent ==
    /\ {c \in Clients : sock[c] = "open"} = ev_read
    /\ ev_write \subseteq ev_read
    /\ \A c \in Clients : {Read(c), Write(c)} \cap active # {} => c \in ev_read
    /\ cinfo = ev_read \cup leaked

\* server.c: a client gets at most one response per recv that found data,
\* however often the write event is added before it fires; and the program
\* dies of SIGPIPE only over a client that left while a response was due.
AnswersAreAsked ==
    /\ \A c \in Clients : answers[c] <= reads[c]
    /\ server = "killed" =>
         \E c \in Clients : peer[c] = "reset" /\ reads[c] > answers[c]

==============================================================================
