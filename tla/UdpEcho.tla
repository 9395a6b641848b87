------------------------------- MODULE UdpEcho -------------------------------
(***************************************************************************)
(* networking/socket/udp/echoserver: udp_server.c echoes datagrams in a    *)
(* loop; udp_client.c sends one and waits for one; udp_client_test_2.c     *)
(* has two threads that send, to two servers, and one that receives on the *)
(* same socket.  Datagrams are lost, overtake each other and may be        *)
(* delivered more than once.  A datagram is [from, port, n]: its sender,   *)
(* the server's port, and its number; a reply is a datagram's data and the *)
(* address it goes to.                                                     *)
(***************************************************************************)
EXTENDS Naturals

CONSTANTS
    Singles,    \* processes running udp_client.c
    Ports,      \* the servers; thread s of udp_client_test_2.c sends to port s
    Mmp,        \* the process running udp_client_test_2.c
    MaxSends,   \* bound on the datagrams each of its threads sends
    MaxCopies   \* bound on the further deliveries of one request

VARIABLES
    srvr,       \* "new", "recv", "send", "exited" or "spinning" (bad socket)
    msg,        \* the datagram in a server's buffer
    clt_addr,   \* the address recvfrom filled in
    single,     \* "new", "waiting", "answered" or "failed"
    mmp,        \* "new", "receiving", "running" or "exited"
    sends,      \* number of datagrams each thread of Mmp sent
    requests,   \* datagrams on the way to a server
    replies,    \* datagrams on the way back, [to, data]
    copied,     \* how often the network delivered a datagram once more
    echoed,     \* how often a datagram was sent back
    got         \* datagrams received by a client

vars == <<srvr, msg, clt_addr, single, mmp, sends, requests, replies, copied, echoed, got>>

Datagrams == [from : Singles \cup {Mmp}, port : Ports, n : 1 .. MaxSends + 1]
NoDatagram == [from |-> Mmp, port |-> "none", n |-> 0]

Init ==
    /\ srvr = [p \in Ports |-> "new"]
    /\ msg = [p \in Ports |-> NoDatagram] /\ clt_addr = [p \in Ports |-> "none"]
    /\ single = [c \in Singles |-> "new"]
    /\ mmp = "new" /\ sends = [p \in Ports |-> 0]
    /\ requests = {} /\ replies = {} /\ got = {}
    /\ copied = [d \in Datagrams |-> 0] /\ echoed = [d \in Datagrams |-> 0]

-----------------------------------------------------------------------------
(* The network *)

\* A request is delivered, for the last time or not.
Delivered(d) ==
    \/ requests' = requests \ {d} /\ UNCHANGED copied
    \/ /\ copied[d] < MaxCopies
       /\ copied' = [copied EXCEPT ![d] = @ + 1]
       /\ UNCHANGED requests

\* A reply is delivered to a client; it may be again.
Received(c, r) ==
    /\ r.to = c
    /\ got' = got \cup {<<c, r.data>>}
    /\ replies' \in {replies, replies \ {r}}

Lose ==
    /\ \/ \E d \in requests : requests' = requests \ {d} /\ UNCHANGED replies
       \/ \E r \in replies : replies' = replies \ {r} /\ UNCHANGED requests
    /\ UNCHANGED <<srvr, msg, clt_addr, single, mmp, sends, copied, echoed, got>>

-----------------------------------------------------------------------------
(* udp_server.c *)

\* Wrong arguments end the program.
process_command_line_args == {"ok", "usage"}

\* A socket that cannot be made or bound: a negative number in its place.
create_udp_server == {"socket", "negative"}

\* main goes into the loop whether or not it has a socket.
ServerMain(p) ==
    /\ srvr[p] = "new"
    /\ \E args \in process_command_line_args, sock \in create_udp_server :
         srvr' = [srvr EXCEPT ![p] = IF args = "usage" THEN "exited"
                                     ELSE IF sock = "socket" THEN "recv" ELSE "spinning"]
    /\ UNCHANGED <<msg, clt_addr, single, mmp, sends, requests, replies, copied, echoed, got>>

\* Bug: after an error of recvfrom the last datagram is sent again.
ServerRecv_goes_on(p) ==
    /\ srvr[p] = "recv"
    /\ \/ \E d \in requests :
            /\ d.port = p /\ Delivered(d)
            /\ msg' = [msg EXCEPT ![p] = d]
            /\ clt_addr' = [clt_addr EXCEPT ![p] = d.from]
       \/ msg[p] # NoDatagram /\ UNCHANGED <<msg, clt_addr, requests, copied>>
    /\ srvr' = [srvr EXCEPT ![p] = "send"]
    /\ UNCHANGED <<single, mmp, sends, replies, echoed, got>>

\* recvfrom in data_rx_tx_loop: with an error the loop starts again.
ServerRecv(p) ==
    /\ srvr[p] = "recv"
    /\ \E d \in requests :
         /\ d.port = p /\ Delivered(d)
         /\ msg' = [msg EXCEPT ![p] = d]
         /\ clt_addr' = [clt_addr EXCEPT ![p] = d.from]
    /\ srvr' = [srvr EXCEPT ![p] = "send"]
    /\ UNCHANGED <<single, mmp, sends, replies, echoed, got>>

\* sendto to the address recvfrom filled in; a failure is only logged.
ServerSend(p) ==
    /\ srvr[p] = "send"
    /\ srvr' = [srvr EXCEPT ![p] = "recv"]
    /\ \/ UNCHANGED <<replies, echoed>>
       \/ /\ replies' = replies \cup {[to |-> clt_addr[p], data |-> msg[p]]}
          /\ echoed' = [echoed EXCEPT ![msg[p]] = @ + 1]
    /\ UNCHANGED <<msg, clt_addr, single, mmp, sends, requests, copied, got>>

data_rx_tx_loop(p) == ServerRecv(p) \/ ServerSend(p)

-----------------------------------------------------------------------------
(* udp_client.c *)

\* main up to sendto: the arguments, the socket, the address, the message.
SingleSends(c) ==
    /\ single[c] = "new"
    /\ \/ \E p \in Ports :
            /\ requests' = requests \cup {[from |-> c, port |-> p, n |-> 1]}
            /\ single' = [single EXCEPT ![c] = "waiting"]
       \/ /\ single' = [single EXCEPT ![c] = "failed"]
          /\ UNCHANGED requests
    /\ UNCHANGED <<srvr, msg, clt_addr, mmp, sends, replies, copied, echoed, got>>

\* recvfrom blocks until a datagram comes, which may be never, or fails.
SingleRecv(c) ==
    /\ single[c] = "waiting"
    /\ \/ /\ \E r \in replies : Received(c, r)
          /\ single' = [single EXCEPT ![c] = "answered"]
       \/ /\ single' = [single EXCEPT ![c] = "failed"]
          /\ UNCHANGED <<replies, got>>
    /\ UNCHANGED <<srvr, msg, clt_addr, mmp, sends, requests, copied, echoed>>

-----------------------------------------------------------------------------
(* udp_client_test_2.c *)

\* udp_mmp_init: the socket and the receiving thread, or the program exits.
udp_mmp_init ==
    /\ mmp = "new"
    /\ mmp' \in {"receiving", "exited"}
    /\ UNCHANGED <<srvr, msg, clt_addr, single, sends, requests, replies, copied, echoed, got>>

\* main starts the senders and then waits for the receiver, which never ends.
MmpMain ==
    /\ mmp = "receiving"
    /\ mmp' \in {"running", "exited"}
    /\ UNCHANGED <<srvr, msg, clt_addr, single, sends, requests, replies, copied, echoed, got>>

\* udp_mmp_msg_tx: the datagram goes out, or an error is reported.
udp_mmp_msg_tx(p) ==
    /\ sends' = [sends EXCEPT ![p] = @ + 1]
    /\ \/ requests' = requests \cup {[from |-> Mmp, port |-> p, n |-> sends'[p]]}
       \/ UNCHANGED requests

\* One turn of a sending thread; it sends on after an error.
udp_msp_sender_thread(p) ==
    /\ mmp = "running" /\ sends[p] < MaxSends
    /\ udp_mmp_msg_tx(p)
    /\ UNCHANGED <<srvr, msg, clt_addr, single, mmp, replies, copied, echoed, got>>

\* One turn of the receiving thread: a datagram from either server.
udp_mmp_msg_rx_thread ==
    /\ mmp \in {"receiving", "running"}
    /\ \E r \in replies : Received(Mmp, r)
    /\ UNCHANGED <<srvr, msg, clt_addr, single, mmp, sends, requests, copied, echoed>>

Next ==
    \/ \E p \in Ports : ServerMain(p) \/ data_rx_tx_loop(p) \/ udp_msp_sender_thread(p)
    \/ \E c \in Singles : SingleSends(c) \/ SingleRecv(c)
    \/ udp_mmp_init \/ MmpMain \/ udp_mmp_msg_rx_thread \/ Lose

Spec == Init /\ [][Next]_vars

-----------------------------------------------------------------------------
(* Properties *)

\* The UDP programs: a server sends a datagram back at most as often as the
\* network delivers it.  What a client receives is a datagram of its own that a
\* server sent back, whoever else talks to that server, and the receiving thread
\* of udp_client_test_2.c only gets what one of the two senders sent.
EchoedOnce ==
    /\ \A d \in Datagrams : echoed[d] <= 1 + copied[d]
    /\ \A g \in got : g[1] = g[2].from /\ echoed[g[2]] > 0
    /\ \A g \in got : g[1] = Mmp => g[2].n <= sends[g[2].port]

==============================================================================
