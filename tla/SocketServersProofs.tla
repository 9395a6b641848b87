-------------------------- MODULE SocketServersProofs ------------------------
(***************************************************************************)
(* Proofs about the socket servers, for any clients and any number of      *)
(* requests, pieces and datagrams.                                         *)
(***************************************************************************)
EXTENDS MCSocketServers, Integers, FiniteSets, SequenceTheorems, TLAPS

(***************************************************************************)
(* The libevent server.  LibEventsSound is not inductive: that no response *)
(* goes out unasked rests on the write event being added only after a recv *)
(* that found data, and that Drop leaves no conn_info on the lost ones     *)
(* being of sockets already closed.                                        *)
(***************************************************************************)
LibTyped ==
    /\ server \in {"new", "running", "exited", "killed"}
    /\ sock \in [Clients -> {"none", "pending", "open", "closed"}]
    /\ peer \in [Clients -> {"away", "connected", "closed", "reset"}]
    /\ unread \in [Clients -> Nat]
    /\ ev_read \subseteq Clients /\ ev_write \subseteq Clients
    /\ cinfo \subseteq Clients /\ leaked \subseteq Clients
    /\ reads \in [Clients -> Nat] /\ answers \in [Clients -> Nat]

LibLinked ==
    /\ \A c \in leaked : sock[c] = "closed"
    /\ \A c \in Clients : peer[c] = "away" => sock[c] = "none"
    /\ \A c \in Clients : Lib!Write(c) \in active => c \in ev_write

LibDue == \A c \in ev_write : reads[c] > answers[c]

LibInv == LibTyped /\ LibLinked /\ LibDue /\ LibEventsSound

\* The server starts without clients and without events.
LEMMA LibStarts == Lib!Init => LibInv
  BY DEF Lib!Init, LibInv, LibTyped, LibLinked, LibDue, LibEventsSound,
         Lib!NoStaleEvent, Lib!AnswersAreAsked, Lib!Read, Lib!Write

\* No step of a client, of the kernel or of a callback breaks the invariant.
LEMMA LibStep == LibInv /\ Lib!Next => LibInv'
<1> SUFFICES ASSUME LibInv, Lib!Next PROVE LibInv'
  OBVIOUS
<1> USE DEF LibInv, LibTyped, LibLinked, LibDue, LibEventsSound,
            Lib!NoStaleEvent, Lib!AnswersAreAsked
<1> USE DEF Lib!Read, Lib!Write, Lib!Listen
<1>1. ASSUME NEW c \in Clients, Lib!ClientConnects(c) PROVE LibInv'
  BY <1>1 DEF Lib!ClientConnects
<1>2. ASSUME NEW c \in Clients, Lib!ClientSends(c) PROVE LibInv'
  BY <1>2 DEF Lib!ClientSends
<1>3. ASSUME NEW c \in Clients, Lib!ClientLeaves(c) PROVE LibInv'
  BY <1>3 DEF Lib!ClientLeaves
<1>4. CASE Lib!run_server
  BY <1>4 DEF Lib!run_server
<1>5. CASE Lib!Dispatch
  BY <1>5 DEF Lib!Dispatch, Lib!Ready
<1>6. CASE Lib!srvr_accept_cb
  BY <1>6 DEF Lib!srvr_accept_cb
<1>7. ASSUME NEW c \in Clients, Lib!RecvAddFails(c) PROVE LibInv'
  BY <1>7 DEF Lib!RecvAddFails, Lib!Drop
<1>8. ASSUME NEW c \in Clients, Lib!cli_recv_cb(c) PROVE LibInv'
  BY <1>8 DEF Lib!cli_recv_cb, Lib!Drop
<1>9. ASSUME NEW c \in Clients, Lib!cli_send_cb(c) PROVE LibInv'
  BY <1>9 DEF Lib!cli_send_cb
<1> QED
  BY <1>1, <1>2, <1>3, <1>4, <1>5, <1>6, <1>7, <1>8, <1>9, Zenon DEF Lib!Next, Lib!Server

\* server.c: with any number of clients and requests, connecting, sending,
\* leaving and resetting at any moment of a round of the event loop, no event
\* is left without its socket and its conn_info, a client gets at most one
\* response per recv that found data, and only a client that left while a
\* response was due can kill the server.
THEOREM LibServerIsSound == Spec => []LibEventsSound
<1>1. Init => LibInv
  BY LibStarts DEF Init
<1>2. LibInv /\ [Next]_vars => LibInv'
  <2> SUFFICES ASSUME LibInv, [Next]_vars PROVE LibInv'
    OBVIOUS
  <2>1. CASE InLib /\ Lib!Next
    BY <2>1, LibStep
  <2>2. CASE UNCHANGED lib_vars
    BY <2>2 DEF lib_vars, LibInv, LibTyped, LibLinked, LibDue, LibEventsSound,
                Lib!NoStaleEvent, Lib!AnswersAreAsked
  <2> QED
    BY <2>1, <2>2 DEF Next, vars, InEpoll, InTcp, InUnix, InUdp
<1>3. LibInv => LibEventsSound
  BY DEF LibInv
<1> QED
  BY <1>1, <1>2, <1>3, PTL DEF Spec

-----------------------------------------------------------------------------
(***************************************************************************)
(* The epoll server.  While a descriptor is handled it is the one that may *)
(* have data and no notification to come; all the others keep theirs.      *)
(* That the end of the file comes after the last piece needs the pieces of *)
(* an open connection to be all somewhere, and a closed descriptor to be   *)
(* in no set of the kernel's or of the round.                              *)
(***************************************************************************)
EpollTyped ==
    /\ poller \in {"new", "bound", "waiting", "handling", "aborted"}
    /\ at \in EClients \cup {Epoll!Listener}
    /\ backlog \in Seq(EClients)
    /\ fds \subseteq EClients
    /\ end \in [EClients -> {"no", "fin", "rst"}]
    /\ closed \in [EClients -> {"no", "eof", "error"}]
    /\ out \in [EClients -> Nat] /\ arrived \in [EClients -> Nat]
    /\ shown \in [EClients -> Nat]

\* A client waits once, or has a descriptor, or had one.
EpollOnce ==
    /\ \A i, j \in 1..Len(backlog) : backlog[i] = backlog[j] => i = j
    /\ \A i \in 1..Len(backlog) : backlog[i] \notin fds /\ closed[backlog[i]] = "no"
    /\ \A c \in fds : closed[c] = "no"

EpollRound ==
    /\ (batch \cup edges) \subseteq fds \cup {Epoll!Listener}
    /\ errors \subseteq batch \cap EClients
    /\ poller = "handling" => at \in (fds \cup {Epoll!Listener}) \ batch
    /\ poller \in {"new", "bound"} => fds = {} /\ backlog = <<>>

Handled(f) == poller = "handling" /\ at = f
EpollNotified ==
    poller \in {"waiting", "handling"} =>
      /\ \A c \in fds : arrived[c] > 0 \/ end[c] # "no" =>
             c \in batch \cup edges \/ Handled(c)
      /\ backlog # <<>> =>
             Epoll!Listener \in batch \cup edges \/ gaveUp \/ Handled(Epoll!Listener)

EpollCounted ==
    \A c \in EClients :
        /\ closed[c] = "no" /\ poller # "aborted" => shown[c] + arrived[c] + out[c] = MaxChunks
        /\ closed[c] = "eof" => shown[c] + out[c] = MaxChunks

EpollInv == EpollTyped /\ EpollOnce /\ EpollRound /\ EpollNotified /\ EpollCounted

\* Who is connected, without Range.
LEMMA ConnectedMeans ==
    ASSUME EpollTyped, NEW c \in EClients
    PROVE  Epoll!Connected(c) <=> c \in fds \/ \E i \in 1..Len(backlog) : backlog[i] = c
  BY SMTT(30) DEF EpollTyped, Epoll!Connected, Epoll!Range

\* The server starts with nothing to handle and everything to be sent.
LEMMA EpollStarts == Epoll!Init => EpollInv
  BY EpollConstants DEF Epoll!Init, EpollInv, EpollTyped, EpollOnce, EpollRound, EpollNotified,
     EpollCounted, Handled, Epoll!Listener

\* No step of a client or of main breaks the invariant.
LEMMA EpollStep == EpollInv /\ Epoll!Next => EpollInv'
<1> SUFFICES ASSUME EpollInv, Epoll!Next PROVE EpollInv'
  OBVIOUS
<1> USE EpollConstants
<1> USE DEF EpollInv, EpollTyped, EpollOnce, EpollRound, EpollNotified, EpollCounted, Handled
<1>0. \A c \in EClients :
        Epoll!Connected(c) <=> c \in fds \/ \E i \in 1..Len(backlog) : backlog[i] = c
  BY ConnectedMeans
<1>1. CASE Epoll!create_and_bind
  BY <1>1 DEF Epoll!create_and_bind
<1>2. CASE Epoll!SetUp
  BY <1>2 DEF Epoll!SetUp
<1>3. CASE Epoll!epoll_wait
  BY <1>3 DEF Epoll!epoll_wait
<1>4. ASSUME NEW c \in EClients, Epoll!CloseOnError(c) PROVE EpollInv'
  <2>1. EpollTyped'
    BY <1>4, SMTT(30) DEF Epoll!CloseOnError, Epoll!Close
  <2>2. EpollOnce'
    BY <1>4, SMTT(30) DEF Epoll!CloseOnError, Epoll!Close
  <2>3. EpollRound'
    BY <1>4 DEF Epoll!CloseOnError, Epoll!Close
  <2>4. EpollNotified'
    BY <1>4 DEF Epoll!CloseOnError, Epoll!Close
  <2>5. EpollCounted'
    BY <1>4 DEF Epoll!CloseOnError, Epoll!Close
  <2> QED
    BY <2>1, <2>2, <2>3, <2>4, <2>5 DEF EpollInv
<1>5. ASSUME NEW f \in EClients \cup {Epoll!Listener}, Epoll!HandleEvent(f) PROVE EpollInv'
  <2>1. EpollTyped'
    BY <1>5 DEF Epoll!HandleEvent
  <2>2. EpollOnce'
    BY <1>5 DEF Epoll!HandleEvent
  <2>3. EpollRound'
    BY <1>5 DEF Epoll!HandleEvent
  <2>4. EpollNotified'
    BY <1>5 DEF Epoll!HandleEvent
  <2>5. EpollCounted'
    BY <1>5 DEF Epoll!HandleEvent
  <2> QED
    BY <2>1, <2>2, <2>3, <2>4, <2>5 DEF EpollInv
<1>6. CASE Epoll!accept
  <2>a. /\ backlog # <<>> /\ at = Epoll!Listener /\ poller = "handling"
        /\ Len(backlog) > 0 /\ Head(backlog) = backlog[1] /\ Head(backlog) \in EClients
        /\ Tail(backlog) \in Seq(EClients) /\ Len(Tail(backlog)) = Len(backlog) - 1
        /\ \A i \in 1..Len(Tail(backlog)) : Tail(backlog)[i] = backlog[i + 1]
    BY <1>6 DEF Epoll!accept
  <2>b. CASE poller' = "aborted" /\ UNCHANGED <<backlog, fds, edges>>
    BY <1>6, <2>b DEF Epoll!accept
  <2>c. CASE /\ backlog' = Tail(backlog) /\ fds' = fds \cup {Head(backlog)}
             /\ edges' = IF arrived[Head(backlog)] > 0 \/ end[Head(backlog)] # "no"
                         THEN edges \cup {Head(backlog)} ELSE edges
             /\ UNCHANGED poller
    <3>0. UNCHANGED <<at, gaveUp, end, out, arrived, shown, closed, batch, errors>>
      BY <1>6 DEF Epoll!accept
    <3>1. EpollTyped'
      BY <2>a, <2>c, <3>0
    <3>2. EpollOnce'
      <4>1. \A i, j \in 1..Len(backlog') : backlog'[i] = backlog'[j] => i = j
        BY <2>a, <2>c
      <4>2. \A i \in 1..Len(backlog') : backlog'[i] \notin fds' /\ closed'[backlog'[i]] = "no"
        BY <2>a, <2>c, <3>0
      <4>3. \A c \in fds' : closed'[c] = "no"
        BY <2>a, <2>c, <3>0
      <4> QED
        BY <4>1, <4>2, <4>3
    <3>3. EpollRound'
      BY <2>a, <2>c, <3>0
    <3>4. EpollNotified'
      BY <2>a, <2>c, <3>0
    <3>5. EpollCounted'
      BY <2>a, <2>c, <3>0
    <3> QED
      BY <3>1, <3>2, <3>3, <3>4, <3>5 DEF EpollInv
  <2> QED
    BY <1>6, <2>b, <2>c DEF Epoll!accept
<1>7. CASE Epoll!AcceptEnds
  <2>1. EpollTyped'
    BY <1>7 DEF Epoll!AcceptEnds
  <2>2. EpollOnce'
    BY <1>7 DEF Epoll!AcceptEnds
  <2>3. EpollRound'
    BY <1>7 DEF Epoll!AcceptEnds
  <2>a. backlog # <<>> => gaveUp'
    BY <1>7, Zenon DEF Epoll!AcceptEnds
  <2>4. EpollNotified'
    BY <1>7, <2>a DEF Epoll!AcceptEnds
  <2>5. EpollCounted'
    BY <1>7 DEF Epoll!AcceptEnds
  <2> QED
    BY <2>1, <2>2, <2>3, <2>4, <2>5 DEF EpollInv
<1>8. CASE Epoll!ReadChunk
  <2>a. /\ at \in EClients /\ poller = "handling" /\ closed[at] = "no"
        /\ arrived[at] \in Nat /\ arrived[at] - 1 \in Nat
        /\ shown[at] \in Nat /\ shown[at] + 1 \in Nat
        /\ arrived' = [arrived EXCEPT ![at] = arrived[at] - 1]
        /\ \/ shown' = [shown EXCEPT ![at] = shown[at] + 1] /\ UNCHANGED poller
           \/ poller' = "aborted" /\ UNCHANGED shown
        /\ UNCHANGED <<at, backlog, gaveUp, fds, end, out, closed, edges, batch, errors>>
    BY <1>8 DEF Epoll!ReadChunk
  <2>1. EpollTyped'
    <3> HIDE DEF EpollOnce, EpollRound, EpollNotified, EpollCounted
    <3>1. arrived' \in [EClients -> Nat] /\ shown' \in [EClients -> Nat]
      <4>1. arrived \in [EClients -> Nat] /\ shown \in [EClients -> Nat]
        OBVIOUS
      <4> HIDE DEF EpollInv, EpollTyped
      <4>2. arrived' \in [EClients -> Nat]
        BY <2>a, <4>1
      <4>3. shown' \in [EClients -> Nat]
        BY <2>a, <4>1
      <4> QED
        BY <4>2, <4>3
    <3>2. poller' \in {"handling", "aborted"}
      BY <2>a
    <3> QED
      BY <2>a, <3>1, <3>2
  <2>2. EpollOnce'
    BY <1>8 DEF Epoll!ReadChunk
  <2>3. EpollRound'
    BY <1>8 DEF Epoll!ReadChunk
  <2>4. EpollNotified'
    BY <1>8 DEF Epoll!ReadChunk
  <2>5. EpollCounted'
    <3> SUFFICES ASSUME NEW c \in EClients
                 PROVE  /\ closed[c] = "no" /\ poller' # "aborted" =>
                             shown'[c] + arrived'[c] + out[c] = MaxChunks
                        /\ closed[c] = "eof" => shown'[c] + out[c] = MaxChunks
      BY <2>a
    <3>1. CASE c = at
      BY <2>a, <3>1
    <3>2. CASE c # at
      BY <2>a, <3>2
    <3> QED
      BY <3>1, <3>2
  <2> QED
    BY <2>1, <2>2, <2>3, <2>4, <2>5 DEF EpollInv
<1>9. CASE Epoll!ReadEnds
  <2>a. at \in EClients /\ closed[at] = "no" /\ poller = "handling" /\ poller' = "waiting"
    BY <1>9 DEF Epoll!ReadEnds
  <2>b. \/ UNCHANGED <<fds, closed, edges, arrived>>
        \/ \E why \in {"eof", "error"} :
             /\ fds' = fds \ {at}
             /\ closed' = [closed EXCEPT ![at] = why]
             /\ edges' = edges \ {at}
             /\ arrived' = [arrived EXCEPT ![at] = 0]
    BY <1>9 DEF Epoll!ReadEnds, Epoll!Close
  <2>c. UNCHANGED <<at, backlog, gaveUp, end, out, shown, batch, errors>>
    BY <1>9 DEF Epoll!ReadEnds
  <2>1. EpollTyped'
    <3> HIDE DEF EpollOnce, EpollRound, EpollNotified, EpollCounted
    <3>1. closed' \in [EClients -> {"no", "eof", "error"}]
      <4>1. CASE UNCHANGED closed
        BY <4>1
      <4>2. ASSUME NEW why \in {"eof", "error"}, closed' = [closed EXCEPT ![at] = why]
            PROVE  closed' \in [EClients -> {"no", "eof", "error"}]
        BY <4>2
      <4> QED
        BY <2>b, <4>1, <4>2
    <3>2. arrived' \in [EClients -> Nat]
      BY <2>a, <2>b
    <3>3. fds' \subseteq EClients
      BY <2>b
    <3> QED
      BY <2>a, <2>c, <3>1, <3>2, <3>3
  <2>2. EpollOnce'
    <3>1. \A d \in EClients : d # at => closed'[d] = closed[d]
      BY <2>a, <2>b
    <3>2. (fds' = fds /\ closed' = closed) \/ fds' = fds \ {at}
      BY <2>b
    <3>3. \A i \in 1..Len(backlog) : backlog[i] # at /\ backlog[i] \in EClients
      BY <2>a, SMTT(30)
    <3> QED
      BY <2>c, <3>1, <3>2, <3>3, SMTT(30)
  <2>3. EpollRound'
    BY <1>9 DEF Epoll!ReadEnds, Epoll!Close
  <2>4. EpollNotified'
    BY <1>9, SMTT(30) DEF Epoll!ReadEnds, Epoll!Close
  <2>5. EpollCounted'
    BY <1>9 DEF Epoll!ReadEnds, Epoll!Close
  <2> QED
    BY <2>1, <2>2, <2>3, <2>4, <2>5 DEF EpollInv
<1>10. ASSUME NEW c \in EClients, Epoll!EClientConnects(c) PROVE EpollInv'
  <2>1. EpollTyped'
    BY <1>0, <1>10 DEF Epoll!EClientConnects
  <2>a. /\ backlog' = Append(backlog, c) /\ c \notin fds /\ closed[c] = "no"
        /\ \A i \in 1..Len(backlog) : backlog[i] # c
        /\ UNCHANGED <<fds, closed>>
    BY <1>0, <1>10 DEF Epoll!EClientConnects
  <2>b. /\ Len(backlog') = Len(backlog) + 1 /\ Len(backlog) \in Nat
        /\ \A i \in 1..Len(backlog') :
             backlog'[i] = IF i = Len(backlog) + 1 THEN c ELSE backlog[i]
    BY <2>a
  <2>2. EpollOnce'
    <3>1. \A i, j \in 1..Len(backlog') : backlog'[i] = backlog'[j] => i = j
      BY <2>a, <2>b, SMTT(30)
    <3>2. \A i \in 1..Len(backlog') : backlog'[i] \notin fds' /\ closed'[backlog'[i]] = "no"
      BY <2>a, <2>b, SMTT(30)
    <3> QED
      BY <2>a, <3>1, <3>2
  <2>3. EpollRound'
    BY <1>0, <1>10 DEF Epoll!EClientConnects
  <2>4. EpollNotified'
    BY <1>0, <1>10 DEF Epoll!EClientConnects
  <2>5. EpollCounted'
    BY <1>0, <1>10 DEF Epoll!EClientConnects
  <2> QED
    BY <2>1, <2>2, <2>3, <2>4, <2>5 DEF EpollInv
<1>11. ASSUME NEW c \in EClients, Epoll!EClientSends(c) PROVE EpollInv'
  <2>1. EpollTyped'
    BY <1>0, <1>11, SMTT(30) DEF Epoll!EClientSends
  <2>2. EpollOnce'
    BY <1>0, <1>11 DEF Epoll!EClientSends
  <2>3. EpollRound'
    BY <1>0, <1>11 DEF Epoll!EClientSends
  <2>4. EpollNotified'
    BY <1>0, <1>11 DEF Epoll!EClientSends
  <2>a. closed[c] = "no"
    <3>1. c \in fds \/ \E i \in 1..Len(backlog) : backlog[i] = c
      BY <1>0, <1>11 DEF Epoll!EClientSends
    <3> QED
      BY <3>1
  <2>5. EpollCounted'
    <3> SUFFICES ASSUME NEW d \in EClients
                 PROVE  /\ closed[d] = "no" /\ poller # "aborted" =>
                             shown[d] + arrived'[d] + out'[d] = MaxChunks
                        /\ closed[d] = "eof" => shown[d] + out'[d] = MaxChunks
      BY <1>11 DEF Epoll!EClientSends
    <3>1. CASE d = c
      BY <1>11, <2>a, <3>1 DEF Epoll!EClientSends
    <3>2. CASE d # c
      BY <1>11, <3>2 DEF Epoll!EClientSends
    <3> QED
      BY <3>1, <3>2
  <2> QED
    BY <2>1, <2>2, <2>3, <2>4, <2>5 DEF EpollInv
<1>12. ASSUME NEW c \in EClients, Epoll!EClientLeaves(c) PROVE EpollInv'
  <2>1. EpollTyped'
    BY <1>0, <1>12, SMTT(30) DEF Epoll!EClientLeaves
  <2>2. EpollOnce'
    BY <1>0, <1>12 DEF Epoll!EClientLeaves
  <2>3. EpollRound'
    BY <1>0, <1>12 DEF Epoll!EClientLeaves
  <2>4. EpollNotified'
    BY <1>0, <1>12 DEF Epoll!EClientLeaves
  <2>5. EpollCounted'
    BY <1>0, <1>12 DEF Epoll!EClientLeaves
  <2> QED
    BY <2>1, <2>2, <2>3, <2>4, <2>5 DEF EpollInv
<1> QED
  BY <1>1, <1>2, <1>3, <1>4, <1>5, <1>6, <1>7, <1>8, <1>9, <1>10, <1>11, <1>12, Zenon
  DEF Epoll!Next

\* epoll.c: with any number of clients, pieces and events per call of
\* epoll_wait, no open descriptor is left with data and without a notification
\* to come, though the events are edge-triggered, and no connection is closed
\* at the end of its data before all of it was shown.
THEOREM EpollLosesNothing == Spec => []EpollNothingLost
<1>1. Init => EpollInv
  BY EpollStarts DEF Init
<1>2. EpollInv /\ [Next]_vars => EpollInv'
  <2> SUFFICES ASSUME EpollInv, [Next]_vars PROVE EpollInv'
    OBVIOUS
  <2>1. CASE InEpoll /\ Epoll!Next
    BY <2>1, EpollStep
  <2>2. CASE UNCHANGED epoll_vars
    BY <2>2 DEF epoll_vars, EpollInv, EpollTyped, EpollOnce, EpollRound, EpollNotified,
                EpollCounted, Handled
  <2> QED
    BY <2>1, <2>2 DEF Next, vars, InLib, InTcp, InUnix, InUdp
<1>3. EpollInv => EpollNothingLost
  BY DEF EpollInv, EpollTyped, EpollNotified, EpollCounted, Handled, EpollNothingLost,
         Epoll!NothingStranded, Epoll!ShownBeforeClose
<1> QED
  BY <1>1, <1>2, <1>3, PTL DEF Spec

-----------------------------------------------------------------------------
(***************************************************************************)
(* The TCP echo programs.  What a client heard, what is on its way, what   *)
(* its thread holds and what the thread has not read are together what it  *)
(* said, as long as both are there; afterwards what it heard and will hear *)
(* stays a beginning of it.  This needs a recv to find the buffer empty,   *)
(* and a thread to keep to its own connection.                             *)
(***************************************************************************)
Pieces == Nat \X Nat

TcpTyped ==
    /\ cli \in [TClients -> {"away", "idle", "waiting", "done"}]
    /\ handler \in [TClients -> {"none", "failed", "recv", "send", "done"}]
    /\ handler_data \in [TClients -> TClients]
    /\ said \in [TClients -> Seq(Pieces)] /\ heard \in [TClients -> Seq(Pieces)]
    /\ up \in [TClients -> Seq(Pieces)] /\ down \in [TClients -> Seq(Pieces)]
    /\ buf \in [TClients -> Seq(Pieces)]

TcpOwn ==
    \A t \in TClients :
        /\ handler_data[t] = t
        /\ handler[t] \in {"none", "failed", "recv"} => buf[t] = <<>>

TcpWhole ==
    \A c \in TClients : handler[c] # "done" /\ cli[c] # "done" =>
        ((heard[c] \o down[c]) \o buf[c]) \o up[c] = said[c]

TcpBegun ==
    \A c \in TClients : \E r \in Seq(Pieces) : (heard[c] \o down[c]) \o r = said[c]

TcpInv == TcpTyped /\ TcpOwn /\ TcpWhole /\ TcpBegun

LEMMA Associative ==
    ASSUME NEW a \in Seq(Pieces), NEW b \in Seq(Pieces), NEW c \in Seq(Pieces)
    PROVE  (a \o b) \o c = a \o (b \o c)
OBVIOUS

LEMMA NothingAdded ==
    ASSUME NEW S, NEW a \in Seq(S)
    PROVE  a \o <<>> = a /\ <<>> \o a = a
OBVIOUS

\* A sequence cut in two is what it was.
LEMMA CutInTwo ==
    ASSUME NEW S, NEW s \in Seq(S), NEW n \in 1..Len(s)
    PROVE  /\ SubSeq(s, 1, n) \in Seq(S) /\ SubSeq(s, n + 1, Len(s)) \in Seq(S)
           /\ SubSeq(s, 1, n) \o SubSeq(s, n + 1, Len(s)) = s
<1>1. SubSeq(s, 1, n) \in Seq(S) /\ SubSeq(s, n + 1, Len(s)) \in Seq(S)
  BY SubSeqProperties
<1>2. SubSeq(s, 1, n) \o SubSeq(s, n + 1, Len(s)) = SubSeq(s, 1, Len(s))
  BY ConcatAdjacentSubSeq
<1>3. SubSeq(s, 1, Len(s)) = s
  BY SubSeqFull
<1> QED
  BY <1>1, <1>2, <1>3

\* How many pieces a recv with room for n returns.
LEMMA AtMostMeans ==
    ASSUME NEW s \in Seq(Pieces), NEW n \in Nat, NEW k \in Tcp!AtMost(n, s)
    PROVE  k \in 1..Len(s)
BY DEF Tcp!AtMost

\* What comes first in a sequence is a prefix of it.
LEMMA BeginningIsPrefix ==
    ASSUME NEW a \in Seq(Pieces), NEW r \in Seq(Pieces)
    PROVE  Tcp!IsPrefix(a, a \o r)
<1>1. Len(a \o r) = Len(a) + Len(r) /\ Len(a) \in Nat /\ Len(r) \in Nat
  OBVIOUS
<1>2. SubSeq(a \o r, 1, Len(a)) = a
  BY <1>1
<1> QED
  BY <1>1, <1>2 DEF Tcp!IsPrefix

\* Nobody said anything yet.
LEMMA TcpStarts == Tcp!Init => TcpInv
<1> SUFFICES ASSUME Tcp!Init PROVE TcpInv
  OBVIOUS
<1>1. TcpTyped /\ TcpOwn
  BY DEF Tcp!Init, TcpTyped, TcpOwn
<1>2. \A c \in TClients : heard[c] = <<>> /\ down[c] = <<>> /\ buf[c] = <<>> /\ up[c] = <<>> /\ said[c] = <<>>
  BY DEF Tcp!Init
<1>3. <<>> \in Seq(Pieces) /\ <<>> \o <<>> = <<>>
  OBVIOUS
<1> QED
  BY <1>1, <1>2, <1>3 DEF TcpInv, TcpWhole, TcpBegun

\* No step of a thread or of a client breaks the invariant.
LEMMA TcpStep == TcpInv /\ Tcp!Next => TcpInv'
<1> SUFFICES ASSUME TcpInv, Tcp!Next PROVE TcpInv'
  OBVIOUS
<1>0. TcpTyped /\ TcpOwn /\ TcpWhole /\ TcpBegun
  BY DEF TcpInv
<1>0a. ASSUME NEW c \in TClients
       PROVE  /\ said[c] \in Seq(Pieces) /\ heard[c] \in Seq(Pieces) /\ up[c] \in Seq(Pieces)
              /\ down[c] \in Seq(Pieces) /\ buf[c] \in Seq(Pieces) /\ handler_data[c] = c
  BY <1>0 DEF TcpTyped, TcpOwn
<1>1. ASSUME NEW c \in TClients, Tcp!accept(c) PROVE TcpInv'
  <2>1. TcpTyped' /\ TcpOwn'
    BY <1>0, <1>1 DEF Tcp!accept, TcpTyped, TcpOwn
  <2>2. TcpWhole'
    BY <1>0, <1>1 DEF Tcp!accept, TcpTyped, TcpWhole
  <2>3. TcpBegun'
    BY <1>0, <1>1 DEF Tcp!accept, TcpBegun
  <2> QED
    BY <2>1, <2>2, <2>3 DEF TcpInv
<1>2. CASE Tcp!exit
  BY <1>0, <1>2 DEF Tcp!exit, TcpInv, TcpTyped, TcpOwn, TcpWhole, TcpBegun
<1>3. ASSUME NEW c \in TClients, Tcp!HandlerRecv(c) PROVE TcpInv'
  <2>1. PICK n \in Tcp!AtMost(ServerMax, up[c]) :
             /\ buf' = [buf EXCEPT ![c] = SubSeq(up[c], 1, n)]
             /\ up' = [up EXCEPT ![c] = SubSeq(up[c], n + 1, Len(up[c]))]
    BY <1>0a, <1>3 DEF Tcp!HandlerRecv
  <2>2. /\ handler[c] = "recv" /\ handler' \in [TClients -> {"none", "failed", "recv", "send", "done"}]
        /\ handler'[c] \in {"send", "done"} /\ \A t \in TClients : t # c => handler'[t] = handler[t]
        /\ UNCHANGED <<cli, said, heard, down, handler_data>>
    BY <1>0, <1>3 DEF Tcp!HandlerRecv, TcpTyped
  <2>3. /\ buf'[c] \in Seq(Pieces) /\ up'[c] \in Seq(Pieces) /\ buf'[c] \o up'[c] = up[c]
    BY <1>0, <1>0a, <2>1, CutInTwo, AtMostMeans, TcpConstants DEF TcpTyped
  <2>4. TcpTyped'
    BY <1>0, <2>1, <2>2, <2>3 DEF TcpTyped
  <2>5. \A t \in TClients : t # c => buf'[t] = buf[t] /\ up'[t] = up[t]
    BY <1>0, <2>1 DEF TcpTyped
  <2>6. TcpOwn'
    BY <1>0, <2>2, <2>5 DEF TcpOwn
  <2>7. buf[c] = <<>>
    BY <1>0, <2>2 DEF TcpOwn
  <2>8. ((heard[c] \o down[c]) \o buf[c]) \o up[c] = ((heard[c] \o down[c]) \o buf'[c]) \o up'[c]
    <3>1. heard[c] \o down[c] \in Seq(Pieces)
      BY <1>0a
    <3> QED
      <4>1. ((heard[c] \o down[c]) \o buf'[c]) \o up'[c] = (heard[c] \o down[c]) \o (buf'[c] \o up'[c])
        BY <2>3, <3>1, Associative
      <4>2. (heard[c] \o down[c]) \o buf[c] = heard[c] \o down[c]
        BY <2>7, <3>1, NothingAdded
      <4> QED
        BY <2>3, <4>1, <4>2
  <2>9. TcpWhole'
    BY <1>0, <2>2, <2>5, <2>8 DEF TcpWhole
  <2>10. TcpBegun'
    BY <1>0, <2>2 DEF TcpBegun
  <2> QED
    BY <2>4, <2>6, <2>9, <2>10 DEF TcpInv
<1>4. ASSUME NEW c \in TClients, Tcp!HandlerEof(c) PROVE TcpInv'
  BY <1>0, <1>0a, <1>4 DEF Tcp!HandlerEof, TcpInv, TcpTyped, TcpOwn, TcpWhole, TcpBegun
<1>5. ASSUME NEW c \in TClients, Tcp!HandlerSend(c) PROVE TcpInv'
  <2>0. handler[c] = "send" /\ UNCHANGED <<cli, said, heard, up, handler_data>> /\ handler_data[c] = c
    BY <1>0a, <1>5 DEF Tcp!HandlerSend
  <2>1. CASE /\ cli[c] # "done"
             /\ down' = [down EXCEPT ![c] = down[c] \o buf[c]]
             /\ buf' = [buf EXCEPT ![c] = <<>>]
             /\ handler' = [handler EXCEPT ![c] = "recv"]
    <3>1. down[c] \o buf[c] \in Seq(Pieces) /\ <<>> \in Seq(Pieces)
      BY <1>0a
    <3>2. TcpTyped'
      BY <1>0, <2>0, <2>1, <3>1 DEF TcpTyped
    <3>3. /\ down'[c] = down[c] \o buf[c] /\ buf'[c] = <<>>
          /\ \A t \in TClients : t # c => down'[t] = down[t] /\ buf'[t] = buf[t] /\ handler'[t] = handler[t]
      BY <1>0, <2>1 DEF TcpTyped
    <3>4. TcpOwn'
      BY <1>0, <2>0, <2>1, <3>3 DEF TcpOwn, TcpTyped
    <3>5. ((heard[c] \o down[c]) \o buf[c]) \o up[c] = said[c]
      BY <1>0, <2>0, <2>1 DEF TcpWhole
    <3>6. (heard[c] \o down'[c]) \o up[c] = said[c] /\ ((heard[c] \o down'[c]) \o buf'[c]) \o up[c] = said[c]
      <4>1. heard[c] \o down'[c] = (heard[c] \o down[c]) \o buf[c]
        <5>0. heard[c] \in Seq(Pieces) /\ down[c] \in Seq(Pieces) /\ buf[c] \in Seq(Pieces)
          BY <1>0a
        <5>1. (heard[c] \o down[c]) \o buf[c] = heard[c] \o (down[c] \o buf[c])
          BY <5>0, Associative
        <5> QED
          BY <3>3, <5>1
      <4>2. heard[c] \o down'[c] \in Seq(Pieces)
        BY <1>0a, <3>1, <3>3
      <4> QED
        BY <3>3, <3>5, <4>1, <4>2, NothingAdded
    <3>7. TcpWhole'
      BY <1>0, <2>0, <3>3, <3>6 DEF TcpWhole
    <3>8. TcpBegun'
      BY <1>0, <1>0a, <2>0, <3>3, <3>6, ZenonT(60) DEF TcpBegun
    <3> QED
      BY <3>2, <3>4, <3>7, <3>8 DEF TcpInv
  <2>2. CASE /\ cli[c] = "done"
             /\ buf' = [buf EXCEPT ![c] = <<>>]
             /\ handler' = [handler EXCEPT ![c] = "recv"]
             /\ UNCHANGED down
    <3>1. TcpTyped' /\ TcpOwn'
      BY <1>0, <2>0, <2>2 DEF TcpTyped, TcpOwn
    <3>2. TcpWhole'
      BY <1>0, <2>0, <2>2 DEF TcpTyped, TcpWhole
    <3>3. TcpBegun'
      BY <1>0, <2>0, <2>2 DEF TcpBegun
    <3> QED
      BY <3>1, <3>2, <3>3 DEF TcpInv
  <2>3. CASE /\ handler' = [handler EXCEPT ![c] = "done"] \/ handler' = [u \in TClients |-> "done"]
             /\ UNCHANGED <<down, buf>>
    BY <1>0, <2>0, <2>3, ZenonT(60) DEF TcpInv, TcpTyped, TcpOwn, TcpWhole, TcpBegun
  <2> QED
    BY <1>5, <2>0, <2>1, <2>2, <2>3 DEF Tcp!HandlerSend
<1>6. ASSUME NEW c \in TClients, Tcp!connect(c) PROVE TcpInv'
  BY <1>0, <1>6 DEF Tcp!connect, TcpInv, TcpTyped, TcpOwn, TcpWhole, TcpBegun
<1>7. ASSUME NEW c \in TClients, Tcp!ClientSend(c) PROVE TcpInv'
  <2>1. PICK n \in LineLengths :
             LET line == [i \in 1 .. n |-> <<Tcp!Line(c) + 1, i>>]
             IN  /\ said' = [said EXCEPT ![c] = said[c] \o line]
                 /\ up' = [up EXCEPT ![c] = IF handler[c] = "done" THEN up[c] ELSE up[c] \o line]
    BY <1>7 DEF Tcp!ClientSend
  <2> DEFINE line == [i \in 1 .. n |-> <<Tcp!Line(c) + 1, i>>]
  <2>2. Tcp!Line(c) \in Nat
    <3>1. CASE said[c] = <<>>
      BY <3>1 DEF Tcp!Line
    <3>2. CASE said[c] # <<>>
      <4>1. said[c][Len(said[c])] \in Pieces
        BY <1>0a, <3>2
      <4> QED
        BY <3>2, <4>1 DEF Tcp!Line, Pieces
    <3> QED
      BY <3>1, <3>2
  <2>3. line \in Seq(Pieces)
    <3>1. n \in Nat
      BY TcpConstants
    <3>2. line \in [1..n -> Pieces]
      BY <2>2, <3>1 DEF Pieces
    <3> QED
      BY <3>1, <3>2
  <2> HIDE DEF line
  <2>4. /\ said' = [said EXCEPT ![c] = said[c] \o line]
        /\ up' = [up EXCEPT ![c] = IF handler[c] = "done" THEN up[c] ELSE up[c] \o line]
    BY <2>1 DEF line
  <2>5. /\ cli[c] = "idle" /\ cli' = [cli EXCEPT ![c] = "waiting"]
        /\ UNCHANGED <<heard, down, handler, handler_data, buf>>
    BY <1>7 DEF Tcp!ClientSend
  <2>6. said[c] \o line \in Seq(Pieces) /\ up[c] \o line \in Seq(Pieces)
    BY <1>0a, <2>3
  <2>7. TcpTyped'
    BY <1>0, <2>4, <2>5, <2>6 DEF TcpTyped
  <2>8. TcpOwn'
    BY <1>0, <2>5 DEF TcpOwn
  <2>9. /\ said'[c] = said[c] \o line /\ (handler[c] # "done" => up'[c] = up[c] \o line)
        /\ \A t \in TClients : t # c => said'[t] = said[t] /\ up'[t] = up[t] /\ cli'[t] = cli[t]
    BY <1>0, <2>4, <2>5 DEF TcpTyped
  <2>10. TcpWhole'
    <3>1. ASSUME handler[c] # "done"
          PROVE  ((heard[c] \o down[c]) \o buf[c]) \o up'[c] = said'[c]
      <4>1. ((heard[c] \o down[c]) \o buf[c]) \o up[c] = said[c]
        BY <1>0, <2>5, <3>1 DEF TcpWhole
      <4>2. (heard[c] \o down[c]) \o buf[c] \in Seq(Pieces)
        BY <1>0a
      <4> QED
        <5> DEFINE before == (heard[c] \o down[c]) \o buf[c]
        <5>1. before \in Seq(Pieces) /\ up[c] \in Seq(Pieces)
          BY <1>0a, <4>2
        <5> HIDE DEF before
        <5>2. (before \o up[c]) \o line = before \o (up[c] \o line)
          BY <2>3, <5>1, Associative
        <5>3. said[c] = before \o up[c]
          BY <4>1 DEF before
        <5>a. said'[c] = said[c] \o line /\ up'[c] = up[c] \o line
          BY <2>9, <3>1
        <5>b. said'[c] = (before \o up[c]) \o line
          BY <5>a, <5>3, Zenon
        <5>4. said'[c] = before \o up'[c]
          BY <5>2, <5>a, <5>b, Zenon
        <5> QED
          BY <5>4 DEF before
    <3> QED
      BY <1>0, <2>5, <2>9, <3>1 DEF TcpWhole
  <2>11. TcpBegun'
    <3>1. PICK r \in Seq(Pieces) : (heard[c] \o down[c]) \o r = said[c]
      BY <1>0 DEF TcpBegun
    <3>2. (heard[c] \o down[c]) \o (r \o line) = said'[c] /\ r \o line \in Seq(Pieces)
      <4>1. heard[c] \o down[c] \in Seq(Pieces)
        BY <1>0a
      <4> QED
        <5> DEFINE before == heard[c] \o down[c]
        <5> HIDE DEF before
        <5>1. before \in Seq(Pieces)
          BY <4>1 DEF before
        <5>2. (before \o r) \o line = before \o (r \o line) /\ r \o line \in Seq(Pieces)
          BY <2>3, <5>1, Associative
        <5>3. said[c] = before \o r
          BY <3>1 DEF before
        <5>a. said'[c] = said[c] \o line
          BY <2>9
        <5>b. said'[c] = (before \o r) \o line
          BY <5>a, <5>3, Zenon
        <5>4. said'[c] = before \o (r \o line)
          BY <5>2, <5>b, Zenon
        <5> QED
          BY <5>2, <5>4 DEF before
    <3> QED
      BY <1>0, <2>5, <2>9, <3>2, ZenonT(60) DEF TcpBegun
  <2> QED
    BY <2>7, <2>8, <2>10, <2>11 DEF TcpInv
<1>8. ASSUME NEW c \in TClients, Tcp!ClientRecv(c) PROVE TcpInv'
  <2>1. PICK n \in Tcp!AtMost(ClientMax, down[c]) :
             /\ heard' = [heard EXCEPT ![c] = heard[c] \o SubSeq(down[c], 1, n)]
             /\ down' = [down EXCEPT ![c] = SubSeq(down[c], n + 1, Len(down[c]))]
    BY <1>8 DEF Tcp!ClientRecv
  <2> DEFINE first == SubSeq(down[c], 1, n)
             rest == SubSeq(down[c], n + 1, Len(down[c]))
  <2>2. first \in Seq(Pieces) /\ rest \in Seq(Pieces) /\ first \o rest = down[c]
    BY <1>0a, CutInTwo, AtMostMeans, TcpConstants
  <2>3. /\ heard' = [heard EXCEPT ![c] = heard[c] \o first]
        /\ down' = [down EXCEPT ![c] = rest]
    BY <2>1
  <2> HIDE DEF first, rest
  <2>4. /\ cli[c] = "waiting" /\ cli' = [cli EXCEPT ![c] = "idle"]
        /\ UNCHANGED <<said, up, handler, handler_data, buf>>
    BY <1>8 DEF Tcp!ClientRecv
  <2>5. heard[c] \o first \in Seq(Pieces)
    BY <1>0a, <2>2
  <2>6. TcpTyped'
    BY <1>0, <2>2, <2>3, <2>4, <2>5 DEF TcpTyped
  <2>7. /\ heard'[c] = heard[c] \o first /\ down'[c] = rest
        /\ \A t \in TClients : t # c => heard'[t] = heard[t] /\ down'[t] = down[t] /\ cli'[t] = cli[t]
    BY <1>0, <2>3, <2>4 DEF TcpTyped
  <2>8. heard'[c] \o down'[c] = heard[c] \o down[c]
    <3>0. heard[c] \in Seq(Pieces)
      BY <1>0a
    <3>1. (heard[c] \o first) \o rest = heard[c] \o (first \o rest)
      BY <2>2, <3>0, Associative
    <3> QED
      BY <2>2, <2>7, <3>1
  <2>9. TcpOwn'
    BY <1>0, <2>4 DEF TcpOwn
  <2>10. \A t \in TClients : heard'[t] \o down'[t] = heard[t] \o down[t]
    BY <2>7, <2>8
  <2>11. TcpWhole'
    <3> SUFFICES ASSUME NEW t \in TClients, handler[t] # "done", cli'[t] # "done"
                 PROVE  ((heard'[t] \o down'[t]) \o buf[t]) \o up[t] = said[t]
      BY <2>4 DEF TcpWhole
    <3>1. cli[t] # "done"
      BY <2>4, <2>7
    <3>2. ((heard[t] \o down[t]) \o buf[t]) \o up[t] = said[t]
      BY <1>0, <3>1 DEF TcpWhole
    <3> QED
      BY <2>10, <3>2
  <2>12. TcpBegun'
    <3> SUFFICES ASSUME NEW t \in TClients
                 PROVE  \E r \in Seq(Pieces) : (heard'[t] \o down'[t]) \o r = said[t]
      BY <2>4 DEF TcpBegun
    <3>1. PICK r \in Seq(Pieces) : (heard[t] \o down[t]) \o r = said[t]
      BY <1>0 DEF TcpBegun
    <3> QED
      BY <2>10, <3>1
  <2> QED
    BY <2>6, <2>9, <2>11, <2>12 DEF TcpInv
<1>9. ASSUME NEW c \in TClients, Tcp!ClientEnds(c) PROVE TcpInv'
  BY <1>0, <1>9 DEF Tcp!ClientEnds, TcpInv, TcpTyped, TcpOwn, TcpWhole, TcpBegun
<1> QED
  BY <1>1, <1>2, <1>3, <1>4, <1>5, <1>6, <1>7, <1>8, <1>9, Zenon DEF Tcp!Next, Tcp!Handler

\* myServer.c and myClient.c: with any number of clients, lines and pieces,
\* however the streams are cut, a client hears its own lines, in order and
\* once, and none of it is missing while its thread runs.
THEOREM TcpEchoes == Spec => []Tcp!EchoIntact
<1>1. Init => TcpInv
  BY TcpStarts DEF Init
<1>2. TcpInv /\ [Next]_vars => TcpInv'
  <2> SUFFICES ASSUME TcpInv, [Next]_vars PROVE TcpInv'
    OBVIOUS
  <2>1. CASE InTcp /\ Tcp!Next
    BY <2>1, TcpStep
  <2>2. CASE UNCHANGED tcp_vars
    BY <2>2 DEF tcp_vars, TcpInv, TcpTyped, TcpOwn, TcpWhole, TcpBegun
  <2> QED
    BY <2>1, <2>2 DEF Next, vars, InLib, InEpoll, InUnix, InUdp
<1>3. TcpInv => Tcp!EchoIntact
  <2> SUFFICES ASSUME TcpInv, NEW c \in TClients
               PROVE  /\ Tcp!IsPrefix(heard[c] \o down[c], said[c])
                      /\ handler[c] \in {"recv", "send"} /\ cli[c] # "done" =>
                           heard[c] \o down[c] \o buf[c] \o up[c] = said[c]
    BY DEF Tcp!EchoIntact
  <2>1. PICK r \in Seq(Pieces) : (heard[c] \o down[c]) \o r = said[c]
    BY DEF TcpInv, TcpBegun
  <2>2. heard[c] \o down[c] \in Seq(Pieces)
    BY DEF TcpInv, TcpTyped
  <2> QED
    BY <2>1, <2>2, BeginningIsPrefix DEF TcpInv, TcpWhole
<1> QED
  BY <1>1, <1>2, <1>3, PTL DEF Spec

-----------------------------------------------------------------------------
(***************************************************************************)
(* The UDP programs.  A datagram is sent once; each further delivery is    *)
(* counted in copied.  It is echoed from the buffer of one server, so that *)
(* in the network and in the buffer it has fewer echoes than deliveries.   *)
(* The reply goes where recvfrom said the datagram came from.              *)
(***************************************************************************)
\* The datagram was handed to sendto.
Sent(d) == IF d.from = Mmp THEN d.n <= sends[d.port] ELSE single[d.from] # "new"
UdpTyped ==
    /\ srvr \in [Ports -> {"new", "recv", "send", "exited", "spinning"}]
    /\ msg \in [Ports -> Udp!Datagrams \cup {Udp!NoDatagram}]
    /\ single \in [Singles -> {"new", "waiting", "answered", "failed"}]
    /\ sends \in [Ports -> 0..MaxSends]
    /\ echoed \in [Udp!Datagrams -> Nat] /\ copied \in [Udp!Datagrams -> Nat]
    /\ clt_addr \in [Ports -> Singles \cup {Mmp, "none"}]
    /\ requests \subseteq Udp!Datagrams
    /\ replies \subseteq [to : Singles \cup {Mmp}, data : Udp!Datagrams]
    /\ got \subseteq (Singles \cup {Mmp}) \X Udp!Datagrams

\* The datagram is in the buffer of the server that is about to send it back.
Holds(p, d) == srvr[p] = "send" /\ msg[p] = d
UdpOnce ==
    /\ \A d \in requests :
         /\ Sent(d) /\ echoed[d] <= copied[d]
         /\ \A p \in Ports : Holds(p, d) => echoed[d] < copied[d]
    /\ \A p \in Ports : srvr[p] = "send" =>
         /\ msg[p] \in Udp!Datagrams /\ msg[p].port = p /\ clt_addr[p] = msg[p].from
         /\ Sent(msg[p]) /\ echoed[msg[p]] <= copied[msg[p]]
    /\ \A r \in replies : r.to = r.data.from /\ echoed[r.data] > 0
    /\ \A d \in Udp!Datagrams : echoed[d] <= 1 + copied[d] /\ (echoed[d] # 0 => Sent(d))
    /\ \A g \in got : g[1] = g[2].from /\ echoed[g[2]] > 0
UdpInv == UdpTyped /\ UdpOnce

\* No datagram exists yet.
LEMMA UdpStarts == Udp!Init => UdpInv
  BY UdpConstants DEF Udp!Init, UdpInv, UdpTyped, UdpOnce, Holds, Sent

\* No step of a server, of a client or of the network breaks the invariant.
LEMMA UdpStep == UdpInv /\ Udp!Next => UdpInv'
<1> SUFFICES ASSUME UdpInv, Udp!Next PROVE UdpInv'
  OBVIOUS
<1> USE UdpConstants
<1> USE DEF UdpInv, UdpTyped, UdpOnce, Holds, Sent
<1>1. ASSUME NEW p \in Ports, Udp!ServerMain(p) PROVE UdpInv'
  BY <1>1 DEF Udp!ServerMain
<1>2. ASSUME NEW p \in Ports, Udp!ServerRecv(p) PROVE UdpInv'
  <2>1. PICK d \in requests :
          /\ d.port = p /\ Udp!Delivered(d)
          /\ msg' = [msg EXCEPT ![p] = d] /\ clt_addr' = [clt_addr EXCEPT ![p] = d.from]
    BY <1>2 DEF Udp!ServerRecv
  <2>2. d \in Udp!Datagrams /\ d.from \in Singles \cup {Mmp} /\ srvr[p] = "recv"
        /\ srvr' = [srvr EXCEPT ![p] = "send"]
        /\ UNCHANGED <<single, sends, replies, echoed, got>>
    BY <1>2 DEF Udp!ServerRecv, Udp!Datagrams
  <2>3. \A e \in Udp!Datagrams : Sent(e)' = Sent(e)
    BY <2>2
  <2> HIDE DEF Sent
  <2>4. CASE requests' = requests \ {d} /\ UNCHANGED copied
    <3>1. UdpTyped'
      BY <2>1, <2>2, <2>4
    <3>2. UdpOnce'
      BY <2>1, <2>2, <2>3, <2>4
    <3> QED
      BY <3>1, <3>2
  <2>5. CASE copied' = [copied EXCEPT ![d] = @ + 1] /\ UNCHANGED requests
    <3>1. UdpTyped'
      BY <2>1, <2>2, <2>5
    <3>2. UdpOnce'
      BY <2>1, <2>2, <2>3, <2>5
    <3> QED
      BY <3>1, <3>2
  <2> QED
    BY <2>1, <2>4, <2>5 DEF Udp!Delivered
<1>3. ASSUME NEW p \in Ports, Udp!ServerSend(p) PROVE UdpInv'
  <2>1. /\ srvr[p] = "send" /\ srvr' = [srvr EXCEPT ![p] = "recv"]
        /\ UNCHANGED <<msg, clt_addr, single, sends, requests, copied, got>>
    BY <1>3 DEF Udp!ServerSend
  <2>2. /\ msg[p] \in Udp!Datagrams /\ msg[p].port = p /\ clt_addr[p] = msg[p].from
        /\ Sent(msg[p]) /\ echoed[msg[p]] <= copied[msg[p]]
        /\ clt_addr[p] \in Singles \cup {Mmp}
    BY <2>1 DEF Udp!Datagrams
  <2>3. \A e \in Udp!Datagrams : Sent(e)' = Sent(e)
    BY <2>1
  <2> HIDE DEF Sent
  <2>4. CASE UNCHANGED <<replies, echoed>>
    <3>1. UdpTyped'
      BY <2>1, <2>4
    <3>2. UdpOnce'
      BY <2>1, <2>3, <2>4
    <3> QED
      BY <3>1, <3>2
  <2>5. CASE /\ replies' = replies \cup {[to |-> clt_addr[p], data |-> msg[p]]}
             /\ echoed' = [echoed EXCEPT ![msg[p]] = @ + 1]
    <3>1. UdpTyped'
      BY <2>1, <2>2, <2>5
    <3>2. \A d \in Udp!Datagrams : echoed'[d] >= echoed[d] /\ (d # msg[p] => echoed'[d] = echoed[d])
      BY <2>2, <2>5
    <3>3. echoed'[msg[p]] = echoed[msg[p]] + 1
      BY <2>2, <2>5
    <3>4. ASSUME NEW d \in requests'
          PROVE  /\ Sent(d)' /\ echoed'[d] <= copied'[d]
                 /\ \A q \in Ports : Holds(q, d)' => echoed'[d] < copied'[d]
      <4>1. d \in Udp!Datagrams /\ d \in requests
        BY <2>1
      <4>2. CASE d = msg[p]
        <5>1. echoed[d] < copied[d] /\ Holds(p, d)
          BY <2>1, <4>1, <4>2
        <5>2. \A q \in Ports : ~Holds(q, d)'
          BY <2>1, <2>2, <4>2
        <5> QED
          BY <2>1, <2>3, <3>1, <3>3, <4>1, <4>2, <5>1, <5>2
      <4>3. CASE d # msg[p]
        BY <2>1, <2>3, <3>2, <4>1, <4>3
      <4> QED
        BY <4>2, <4>3
    <3>5. \A q \in Ports : srvr'[q] = "send" =>
             /\ msg'[q] \in Udp!Datagrams /\ msg'[q].port = q /\ clt_addr'[q] = msg'[q].from
             /\ Sent(msg[q])' /\ echoed'[msg'[q]] <= copied'[msg'[q]]
      BY <2>1, <2>2, <2>3, <3>2
    <3>6. \A r \in replies' : r.to = r.data.from /\ echoed'[r.data] > 0
      BY <2>2, <2>5, <3>1, <3>2, <3>3
    <3>7. \A d \in Udp!Datagrams : echoed'[d] <= 1 + copied'[d] /\ (echoed'[d] # 0 => Sent(d)')
      BY <2>1, <2>2, <2>3, <3>2, <3>3
    <3>8. \A g \in got' : g[1] = g[2].from /\ echoed'[g[2]] > 0
      BY <2>1, <3>1, <3>2
    <3> QED
      BY <2>1, <3>1, <3>4, <3>5, <3>6, <3>7, <3>8
  <2> QED
    BY <1>3, <2>4, <2>5 DEF Udp!ServerSend
<1>4. ASSUME NEW p \in Ports, Udp!udp_msp_sender_thread(p) PROVE UdpInv'
  <2>0. PICK d : d = [from |-> Mmp, port |-> p, n |-> sends[p] + 1]
    OBVIOUS
  <2>1. /\ sends[p] < MaxSends /\ sends' = [sends EXCEPT ![p] = @ + 1]
        /\ requests' = requests \cup {d} \/ requests' = requests
        /\ UNCHANGED <<srvr, msg, clt_addr, single, replies, copied, echoed, got>>
    BY <1>4, <2>0 DEF Udp!udp_msp_sender_thread, Udp!udp_mmp_msg_tx
  <2>2. d \in Udp!Datagrams /\ Sent(d)' /\ ~Sent(d)
    BY <2>0, <2>1 DEF Udp!Datagrams
  <2>3. \A e \in Udp!Datagrams : Sent(e) => Sent(e)'
    BY <2>1 DEF Udp!Datagrams
  <2>4. UdpTyped'
    BY <2>1, <2>2
  <2> HIDE DEF Sent
  <2>5. UdpOnce'
    BY <2>1, <2>2, <2>3
  <2> QED
    BY <2>4, <2>5
<1>5. ASSUME NEW c \in Singles, Udp!SingleSends(c) PROVE UdpInv'
  <2>1. CASE single' = [single EXCEPT ![c] = "failed"] /\ UNCHANGED requests
    BY <1>5, <2>1 DEF Udp!SingleSends
  <2>2. ASSUME NEW p \in Ports, NEW d, d = [from |-> c, port |-> p, n |-> 1],
               requests' = requests \cup {d}, single' = [single EXCEPT ![c] = "waiting"]
        PROVE  UdpInv'
    <3>1. single[c] = "new" /\ UNCHANGED <<srvr, msg, clt_addr, sends, replies, copied, echoed, got>>
      BY <1>5 DEF Udp!SingleSends
    <3>2. d \in Udp!Datagrams /\ Sent(d)' /\ ~Sent(d)
      BY <2>2, <3>1 DEF Udp!Datagrams
    <3>3. \A e \in Udp!Datagrams : Sent(e) => Sent(e)'
      BY <2>2, <3>1 DEF Udp!Datagrams
    <3>4. UdpTyped'
      BY <2>2, <3>1, <3>2
    <3> HIDE DEF Sent
    <3>5. UdpOnce'
      BY <2>2, <3>1, <3>2, <3>3
    <3> QED
      BY <3>4, <3>5
  <2> QED
    BY <1>5, <2>1, <2>2 DEF Udp!SingleSends
<1>6. ASSUME NEW c \in Singles, Udp!SingleRecv(c) PROVE UdpInv'
  <2>1. CASE single' = [single EXCEPT ![c] = "failed"] /\ UNCHANGED <<replies, got>>
    BY <1>6, <2>1 DEF Udp!SingleRecv
  <2>2. ASSUME NEW r \in replies, r.to = c, replies' \in {replies, replies \ {r}},
               got' = got \cup {<<c, r.data>>}, single' = [single EXCEPT ![c] = "answered"]
        PROVE  UdpInv'
    <3>1. UdpTyped'
      BY <1>6, <2>2 DEF Udp!SingleRecv
    <3>2. \A e \in Udp!Datagrams : Sent(e) <=> Sent(e)'
      BY <1>6, <2>2 DEF Udp!SingleRecv
    <3>3. UdpOnce'
      <4>1. \A g \in got' : g[1] = g[2].from /\ echoed[g[2]] > 0
        BY <2>2
      <4> HIDE DEF Sent
      <4> QED
        BY <1>6, <2>2, <3>2, <4>1 DEF Udp!SingleRecv
    <3> QED
      BY <3>1, <3>3
  <2> QED
    BY <1>6, <2>1, <2>2 DEF Udp!SingleRecv, Udp!Received
<1>7. CASE Udp!udp_mmp_init
  BY <1>7 DEF Udp!udp_mmp_init
<1>8. CASE Udp!MmpMain
  BY <1>8 DEF Udp!MmpMain
<1>9. CASE Udp!udp_mmp_msg_rx_thread
  BY <1>9 DEF Udp!udp_mmp_msg_rx_thread, Udp!Received
<1>10. CASE Udp!Lose
  BY <1>10 DEF Udp!Lose
<1> QED
  BY <1>1, <1>2, <1>3, <1>4, <1>5, <1>6, <1>7, <1>8, <1>9, <1>10, Zenon
  DEF Udp!Next, Udp!data_rx_tx_loop

-----------------------------------------------------------------------------
(***************************************************************************)
(* The Unix socket programs, as long as there is one connection at a time. *)
(* The line a client waits for is in one place, and a client that is gone  *)
(* said bye, which its thread has to read or has read, or hung up.         *)
(***************************************************************************)
UnixTyped ==
    /\ userver \in {"running", "killed"}
    /\ cliSock \in UClients \cup {"bad"}
    /\ accepts \in 0..MaxAccepts
    /\ thread \in [Unix!Threads -> {"none", "sleep", "recv", "send", "close", "gone"}]
    /\ upending \subseteq UClients /\ uopen \subseteq UClients
    /\ ucli \in [UClients -> {"away", "idle", "waiting", "done"}]
    /\ spoken \in [UClients -> Nat]
    /\ uup = [c \in UClients |-> uup[c]] /\ udown = [c \in UClients |-> udown[c]]
    /\ ubuf = [t \in Unix!Threads |-> ubuf[t]]

\* The last thread is the only one, and the only open socket is its client's.
Alone ==
    ~overlap =>
      /\ \A t \in Unix!Threads : t > accepts => thread[t] = "none"
      /\ \A t \in Unix!Threads : Unix!Live(t) => t = accepts
      /\ \A c \in uopen : c = cliSock /\ Unix!Live(accepts) /\ accepts \in Unix!Threads
      /\ upending \cap uopen = {}

Asked(c) == <<<<c, spoken[c]>>>>
Silent(c) == uup[c] = <<>> /\ udown[c] = <<>>
Begun == thread[accepts] \in {"sleep", "recv"}
\* Where a connected client's conversation stands; the client is pending, or
\* the one the last thread serves.
Idle(c) == Silent(c) /\ (c \in uopen => Begun)
Waiting(c) ==
    /\ spoken[c] > 0
    /\ \/ uup[c] = Asked(c) /\ udown[c] = <<>> /\ (c \in uopen => Begun)
       \/ Silent(c) /\ c \in uopen /\ thread[accepts] = "send" /\ ubuf[accepts] = Asked(c)
       \/ uup[c] = <<>> /\ udown[c] = Asked(c) /\ c \in uopen /\ Begun
Done(c) ==
    /\ udown[c] = <<>>
    /\ \/ uup[c] = <<<<c, Unix!Bye>>>> /\ (c \in uopen => Begun)
       \/ c \in uopen /\ thread[accepts] = "close"
       \/ hungup /\ uup[c] = <<>>

Talk(c) ==
    /\ c \in upending \cup uopen =>
         \/ ucli[c] = "idle" /\ Idle(c)
         \/ ucli[c] = "waiting" /\ Waiting(c)
         \/ ucli[c] = "done" /\ Done(c)
    /\ c \notin upending \cup uopen => ucli[c] \in {"away", "done"} /\ udown[c] = <<>>
    /\ ucli[c] = "away" => Silent(c) /\ c \notin upending \cup uopen
Conversing == ~overlap /\ userver = "running" => \A c \in UClients : Talk(c)

\* After the server died a client may still hear what it asked.
Killed ==
    ~overlap /\ userver = "killed" =>
      /\ hungup
      /\ \A c \in UClients : udown[c] = <<>> \/ (ucli[c] = "waiting" /\ udown[c] = Asked(c))

Own == ~overlap => ~foreign

UnixInv == UnixTyped /\ Alone /\ Conversing /\ Killed /\ Own

\* The server starts alone.
LEMMA UnixStarts == Unix!Init => UnixInv
  BY UnixConstants DEF Unix!Init, Unix!Threads, Unix!Live, UnixInv, UnixTyped,
                       Alone, Conversing, Killed, Own, Talk, Silent

\* A client nobody dealt with is where it was.
LEMMA TalkKept ==
    ASSUME NEW d \in UClients, Talk(d),
           ucli'[d] = ucli[d], uup'[d] = uup[d], udown'[d] = udown[d], spoken'[d] = spoken[d],
           d \in upending' <=> d \in upending, d \in uopen' <=> d \in uopen,
           hungup => hungup',
           d \in uopen => /\ accepts' = accepts /\ thread'[accepts'] = thread[accepts]
                          /\ ubuf'[accepts'] = ubuf[accepts]
    PROVE  Talk(d)'
BY DEF Talk, Idle, Waiting, Done, Silent, Asked, Begun

\* The conversations go on, one at a time.
LEMMA StaysConversing == UnixInv /\ Unix!Next => Conversing'
<1> SUFFICES ASSUME UnixInv, Unix!Next, ~overlap', userver' = "running", NEW d \in UClients
             PROVE  Talk(d)'
  BY DEF Conversing
<1>a. UnixTyped /\ Alone /\ Conversing
  BY DEF UnixInv
<1>b. ~overlap
  <2>1. CASE Unix!accept
    BY <2>1, Zenon DEF Unix!accept
  <2>2. CASE UNCHANGED overlap
    BY <2>2
  <2> QED
    BY <2>1, <2>2 DEF Unix!Next, Unix!clientHandler, Unix!Wakes, Unix!HandlerRecv, Unix!HandlerSend,
       Unix!HandlerEnds, Unix!connect, Unix!ClientSend, Unix!ClientBye, Unix!ClientHangsUp, Unix!ClientRecv
<1>c. userver = "running"
  BY <1>a DEF UnixTyped, Unix!Next, Unix!clientHandler, Unix!accept, Unix!Wakes, Unix!HandlerRecv, Unix!HandlerSend,
       Unix!HandlerEnds, Unix!connect, Unix!ClientSend, Unix!ClientBye, Unix!ClientHangsUp, Unix!ClientRecv
<1>d. \A c \in UClients : Talk(c)
  BY <1>a, <1>b, <1>c DEF Conversing
<1>e. /\ \A t \in Unix!Threads : Unix!Live(t) => t = accepts
      /\ \A c \in uopen : c = cliSock /\ Unix!Live(accepts) /\ accepts \in Unix!Threads
      /\ upending \cap uopen = {}
  BY <1>a, <1>b DEF Alone
<1> USE DEF UnixTyped
<1>1. CASE Unix!accept
  <2>1. uopen = {}
    <3>1. ~\E t \in Unix!Threads : Unix!Live(t)
      BY <1>1, Zenon DEF Unix!accept
    <3> QED
      BY <1>e, <3>1
  <2>2. accepts' \in Unix!Threads /\ thread'[accepts'] = "sleep"
    BY <1>1, <1>a, UnixConstants DEF Unix!accept, Unix!Threads
  <2>3. CASE d \in upending /\ d \notin upending'
    <3>1. /\ d \in uopen' /\ d \notin uopen /\ UNCHANGED <<ucli, uup, udown, spoken, hungup>>
      BY <1>1, <2>1, <2>3 DEF Unix!accept
    <3> QED
      BY <1>d, <2>2, <2>3, <3>1 DEF Talk, Idle, Waiting, Done, Silent, Asked, Begun
  <2>4. CASE d \in upending <=> d \in upending'
    <3>1. d \notin uopen' /\ UNCHANGED <<ucli, uup, udown, spoken, hungup>>
      BY <1>1, <1>a, <2>1, <2>4 DEF Unix!accept
    <3> QED
      BY <1>d, <2>1, <2>4, <3>1, TalkKept
  <2> QED
    BY <1>1, <2>3, <2>4 DEF Unix!accept
<1>2. ASSUME NEW t \in Unix!Threads, Unix!Wakes(t) PROVE Talk(d)'
  <2>1. t = accepts /\ thread[accepts] = "sleep" /\ thread'[accepts] = "recv"
    BY <1>2, <1>a, <1>e DEF Unix!Wakes, Unix!Live
  <2> QED
    BY <1>2, <1>d, <2>1 DEF Unix!Wakes, Talk, Idle, Waiting, Done, Silent, Asked, Begun
<1>3. ASSUME NEW t \in Unix!Threads, Unix!HandlerRecv(t) PROVE Talk(d)'
  <2>1. t = accepts /\ thread[accepts] = "recv"
        /\ UNCHANGED <<cliSock, accepts, upending, uopen, ucli, spoken, udown, hungup>>
    BY <1>3, <1>a, <1>e DEF Unix!HandlerRecv, Unix!Live
  <2>2. CASE d \notin uopen
    <3>1. uup'[d] = uup[d]
      BY <1>3, <2>2, <1>a DEF Unix!HandlerRecv
    <3> QED
      BY <1>d, <2>1, <2>2, <3>1, TalkKept
  <2>3. CASE d \in uopen
    <3>1. d = cliSock
      BY <1>e, <2>3
    <3>2. Talk(d)
      BY <1>d
    <3>3. CASE uup[d] # <<>>
      <4>0. /\ ubuf'[t] = <<Head(uup[d])>> /\ uup'[d] = Tail(uup[d])
            /\ thread'[t] = IF Head(uup[d])[2] = 0 THEN "close" ELSE "send"
        BY <1>3, <2>3, <3>1, <3>3, <1>a DEF Unix!HandlerRecv, Unix!Bye
      <4>1. CASE ucli[d] = "waiting" /\ uup[d] = <<<<d, spoken[d]>>>> /\ udown[d] = <<>> /\ spoken[d] > 0
        <5>1. Head(uup[d]) = <<d, spoken[d]>> /\ Tail(uup[d]) = <<>> /\ spoken[d] # 0
          BY <4>1
        <5>2. thread'[accepts'] = "send" /\ ubuf'[accepts'] = <<<<d, spoken[d]>>>> /\ uup'[d] = <<>>
          BY <2>1, <4>0, <5>1
        <5> QED
          BY <2>1, <2>3, <4>1, <5>2 DEF Talk, Waiting, Silent, Asked
      <4>2. CASE ucli[d] = "done" /\ uup[d] = <<<<d, 0>>>> /\ udown[d] = <<>>
        <5>1. Head(uup[d])[2] = 0
          BY <4>2
        <5>2. thread'[accepts'] = "close"
          BY <2>1, <4>0, <5>1
        <5> QED
          BY <2>1, <2>3, <4>2, <5>2 DEF Talk, Done
      <4> QED
        BY <2>1, <2>3, <3>2, <3>3, <4>1, <4>2
        DEF Talk, Idle, Waiting, Done, Silent, Asked, Unix!Bye
    <3>4. CASE uup[d] = <<>>
      <4>1. ucli[d] = "done" /\ uup' = uup
        BY <1>3, <2>3, <3>1, <3>4 DEF Unix!HandlerRecv
      <4>2. <<<<d, 0>>>> # <<>>
        OBVIOUS
      <4> QED
        BY <2>1, <2>3, <3>2, <3>4, <4>1, <4>2 DEF Talk, Done, Unix!Bye
    <3> QED
      BY <3>3, <3>4
  <2> QED
    BY <2>2, <2>3
<1>4. ASSUME NEW t \in Unix!Threads, Unix!HandlerSend(t) PROVE Talk(d)'
  <2>1. t = accepts /\ thread[accepts] = "send"
        /\ UNCHANGED <<cliSock, accepts, ubuf, upending, uopen, ucli, spoken, uup, hungup>>
    BY <1>4, <1>a, <1>e DEF Unix!HandlerSend, Unix!Live
  <2>2. CASE d \notin uopen
    <3>1. udown'[d] = udown[d]
      BY <1>4, <2>2, <1>a DEF Unix!HandlerSend
    <3> QED
      BY <1>d, <2>1, <2>2, <3>1, TalkKept
  <2>3. CASE d \in uopen
    <3>1. d = cliSock
      BY <1>e, <2>3
    <3>2. ucli[d] # "done" /\ udown'[d] = udown[d] \o ubuf[t] /\ thread'[t] = "recv"
      BY <1>4, <1>c, <2>3, <3>1, <1>a DEF Unix!HandlerSend
    <3>3. ucli[d] = "waiting" /\ uup[d] = <<>> /\ udown[d] = <<>> /\ ubuf[t] = Asked(d) /\ spoken[d] > 0
      BY <1>d, <2>1, <2>3, <3>2 DEF Talk, Idle, Waiting, Silent, Begun
    <3>4. udown'[d] = Asked(d)
      BY <3>2, <3>3 DEF Asked
    <3> QED
      BY <2>1, <2>3, <3>2, <3>3, <3>4 DEF Talk, Waiting, Asked, Begun
  <2> QED
    BY <2>2, <2>3
<1>5. ASSUME NEW t \in Unix!Threads, Unix!HandlerEnds(t) PROVE Talk(d)'
  <2>1. t = accepts /\ thread[accepts] = "close"
        /\ uopen' = uopen \ {cliSock}
        /\ UNCHANGED <<cliSock, accepts, ubuf, upending, ucli, spoken, uup, udown, hungup>>
    BY <1>5, <1>a, <1>e DEF Unix!HandlerEnds, Unix!Live
  <2>2. CASE d \notin uopen
    BY <1>d, <2>1, <2>2, TalkKept
  <2>3. CASE d \in uopen
    <3>1. d \notin uopen' /\ d \notin upending
      BY <1>e, <2>1, <2>3
    <3>2. ucli[d] = "done" /\ udown[d] = <<>>
      BY <1>d, <2>1, <2>3 DEF Talk, Idle, Waiting, Done, Begun
    <3> QED
      BY <2>1, <3>1, <3>2 DEF Talk
  <2> QED
    BY <2>2, <2>3
<1>6. ASSUME NEW c \in UClients, Unix!connect(c) PROVE Talk(d)'
  <2>1. CASE d # c
    BY <1>6, <1>a, <1>d, <2>1, TalkKept DEF Unix!connect
  <2>2. CASE d = c
    BY <1>6, <1>a, <1>d, <2>2 DEF Unix!connect, Talk, Idle, Silent
  <2> QED
    BY <2>1, <2>2
<1>7. ASSUME NEW c \in UClients, Unix!ClientSend(c) PROVE Talk(d)'
  <2>1. CASE d # c
    <3>1. ucli'[d] = ucli[d] /\ uup'[d] = uup[d] /\ spoken'[d] = spoken[d]
      BY <1>7, <2>1, <1>a DEF Unix!ClientSend
    <3>2. UNCHANGED <<accepts, thread, ubuf, upending, uopen, udown, hungup>>
      BY <1>7 DEF Unix!ClientSend
    <3> QED
      BY <1>d, <3>1, <3>2, TalkKept
  <2>2. CASE d = c
    <3>1. ucli[c] = "idle" /\ UNCHANGED <<accepts, thread, ubuf, upending, uopen, udown, hungup>>
      BY <1>7 DEF Unix!ClientSend
    <3>2. c \in upending \cup uopen /\ Idle(c)
      BY <1>d, <3>1 DEF Talk
    <3>3. /\ spoken'[c] = spoken[c] + 1 /\ ucli'[c] = "waiting"
          /\ uup'[c] = Append(uup[c], <<c, spoken'[c]>>)
      BY <1>7, <1>a, <1>c, <3>2 DEF Unix!ClientSend, Unix!Served
    <3>4. uup'[c] = <<<<c, spoken'[c]>>>>
      BY <3>2, <3>3 DEF Idle, Silent
    <3>5. spoken'[c] > 0
      BY <1>a, <3>3
    <3> QED
      BY <2>2, <3>1, <3>2, <3>3, <3>4, <3>5 DEF Talk, Idle, Waiting, Silent, Asked, Begun
  <2> QED
    BY <2>1, <2>2
<1>8. ASSUME NEW c \in UClients, Unix!ClientBye(c) PROVE Talk(d)'
  <2>1. CASE d # c
    <3>1. ucli'[d] = ucli[d] /\ uup'[d] = uup[d]
      BY <1>8, <2>1 DEF Unix!ClientBye
    <3>2. UNCHANGED <<accepts, thread, ubuf, upending, uopen, udown, hungup, spoken>>
      BY <1>8 DEF Unix!ClientBye
    <3> QED
      BY <1>d, <3>1, <3>2, TalkKept
  <2>2. CASE d = c
    <3>1. ucli[c] = "idle" /\ UNCHANGED <<accepts, thread, ubuf, upending, uopen, udown, hungup>>
      BY <1>8 DEF Unix!ClientBye
    <3>2. c \in upending \cup uopen /\ Idle(c)
      BY <1>d, <3>1 DEF Talk
    <3>3. ucli'[c] = "done" /\ uup'[c] = Append(uup[c], <<c, 0>>)
      BY <1>8, <1>a DEF Unix!ClientBye, Unix!Bye
    <3>4. uup'[c] = <<<<c, 0>>>>
      BY <3>2, <3>3 DEF Idle, Silent
    <3> QED
      BY <2>2, <3>1, <3>2, <3>3, <3>4 DEF Talk, Idle, Done, Silent, Begun, Unix!Bye
  <2> QED
    BY <2>1, <2>2
<1>9. ASSUME NEW c \in UClients, Unix!ClientHangsUp(c) PROVE Talk(d)'
  <2>1. CASE d # c
    BY <1>9, <1>d, <2>1, TalkKept DEF Unix!ClientHangsUp
  <2>2. CASE d = c
    <3>1. /\ ucli[c] = "idle" /\ ucli'[c] = "done" /\ hungup'
          /\ UNCHANGED <<accepts, thread, ubuf, upending, uopen, udown, uup>>
      BY <1>9, <1>a DEF Unix!ClientHangsUp
    <3> QED
      BY <1>d, <2>2, <3>1 DEF Talk, Idle, Done, Silent
  <2> QED
    BY <2>1, <2>2
<1>10. ASSUME NEW c \in UClients, Unix!ClientRecv(c) PROVE Talk(d)'
  <2>1. CASE d # c
    <3>1. ucli'[d] = ucli[d] /\ udown'[d] = udown[d]
      BY <1>10, <2>1, <1>a DEF Unix!ClientRecv
    <3>2. UNCHANGED <<accepts, thread, ubuf, upending, uopen, uup, hungup, spoken>>
      BY <1>10 DEF Unix!ClientRecv
    <3> QED
      BY <1>d, <3>1, <3>2, TalkKept
  <2>2. CASE d = c
    <3>1. /\ ucli[c] = "waiting" /\ ucli'[c] = "idle"
          /\ UNCHANGED <<accepts, thread, ubuf, upending, uopen, uup>>
      BY <1>10, <1>a DEF Unix!ClientRecv
    <3>2. c \in upending \cup uopen /\ Waiting(c)
      BY <1>d, <3>1 DEF Talk
    <3>3. udown[c] # <<>> /\ udown'[c] = Tail(udown[c])
      BY <1>10, <1>c, <3>2, <1>a DEF Unix!ClientRecv, Unix!Served
    <3>4. uup[c] = <<>> /\ udown[c] = Asked(c) /\ c \in uopen /\ Begun
      BY <3>2, <3>3 DEF Waiting, Silent
    <3>5. udown'[c] = <<>>
      BY <3>3, <3>4 DEF Asked
    <3> QED
      BY <2>2, <3>1, <3>2, <3>4, <3>5 DEF Talk, Idle, Silent, Begun
  <2> QED
    BY <2>1, <2>2
<1> QED
  BY <1>1, <1>2, <1>3, <1>4, <1>5, <1>6, <1>7, <1>8, <1>9, <1>10, Zenon
  DEF Unix!Next, Unix!clientHandler

\* No step of main, of a thread or of a client breaks the invariant.
LEMMA UnixStep == UnixInv /\ Unix!Next => UnixInv'
<1> SUFFICES ASSUME UnixInv, Unix!Next PROVE UnixInv'
  OBVIOUS
<1> USE UnixConstants
<1> USE DEF UnixInv, UnixTyped, Alone, Conversing, Killed, Own, Asked, Silent, Begun, Idle, Waiting, Done, Talk,
            Unix!Threads, Unix!Live, Unix!Bye
<1>0. Conversing'
  BY StaysConversing
<1>1. CASE Unix!accept
  <2>1. UnixTyped'
    BY <1>1 DEF Unix!accept
  <2>2. Alone'
    <3> SUFFICES ASSUME ~overlap' PROVE Alone'
      OBVIOUS
    <3>1. ~overlap /\ ~\E t \in Unix!Threads : Unix!Live(t)
      BY <1>1, Zenon DEF Unix!accept
    <3>2. uopen = {} /\ \A t \in Unix!Threads : thread[t] \in {"none", "gone"}
      BY <3>1
    <3>3. /\ accepts' = accepts + 1 /\ accepts' \in Unix!Threads /\ thread'[accepts'] = "sleep"
          /\ \A t \in Unix!Threads : t # accepts' => thread'[t] = thread[t]
      BY <1>1 DEF Unix!accept
    <3>4. \/ uopen' = {} /\ upending' = upending
          \/ uopen' = {cliSock'} /\ upending' = upending \ {cliSock'}
      BY <1>1, <3>2 DEF Unix!accept
    <3>5. \A t \in Unix!Threads : t > accepts' => thread'[t] = "none"
      <4>1. \A t \in Unix!Threads : t > accepts => thread[t] = "none"
        BY <3>1
      <4>2. accepts \in Nat
        OBVIOUS
      <4> HIDE DEF UnixInv
      <4> QED
        BY <3>3, <4>1, <4>2
    <3>6. \A t \in Unix!Threads : Unix!Live(t)' => t = accepts'
      BY <3>2, <3>3
    <3> QED
      BY <3>3, <3>4, <3>5, <3>6
  <2>4. Killed'
    BY <1>1 DEF Unix!accept
  <2>5. Own'
    BY <1>1 DEF Unix!accept
  <2> QED
    BY <1>0, <2>1, <2>2, <2>4, <2>5 DEF UnixInv
<1>2. ASSUME NEW t \in Unix!Threads, Unix!Wakes(t) PROVE UnixInv'
  <2>1. UnixTyped'
    BY <1>2 DEF Unix!Wakes
  <2>2. Alone'
    BY <1>2 DEF Unix!Wakes
  <2>4. Killed'
    BY <1>2 DEF Unix!Wakes
  <2>5. Own'
    BY <1>2 DEF Unix!Wakes
  <2> QED
    BY <1>0, <2>1, <2>2, <2>4, <2>5 DEF UnixInv
<1>3. ASSUME NEW t \in Unix!Threads, Unix!HandlerRecv(t) PROVE UnixInv'
  <2>1. UnixTyped'
    <3> HIDE DEF Alone, Conversing, Killed, Own
    <3>1. thread' \in [Unix!Threads -> {"none", "sleep", "recv", "send", "close", "gone"}]
      BY <1>3, ZenonT(60) DEF Unix!HandlerRecv
    <3>2. uup' = [c \in UClients |-> uup'[c]] /\ ubuf' = [u \in Unix!Threads |-> ubuf'[u]]
      BY <1>3 DEF Unix!HandlerRecv
    <3> QED
      BY <1>3, <3>1, <3>2 DEF Unix!HandlerRecv
  <2>2. Alone'
    BY <1>3, ZenonT(60) DEF Unix!HandlerRecv
  <2>4. Killed'
    BY <1>3 DEF Unix!HandlerRecv
  <2>5. Own'
    BY <1>3 DEF Unix!HandlerRecv
  <2> QED
    BY <1>0, <2>1, <2>2, <2>4, <2>5 DEF UnixInv
<1>4. ASSUME NEW t \in Unix!Threads, Unix!HandlerSend(t) PROVE UnixInv'
  <2>1. UnixTyped'
    BY <1>4, ZenonT(60) DEF Unix!HandlerSend
  <2>2. Alone'
    BY <1>4, ZenonT(60) DEF Unix!HandlerSend
  <2>4. Killed'
    BY <1>4 DEF Unix!HandlerSend
  <2>5. Own'
    BY <1>4 DEF Unix!HandlerSend
  <2> QED
    BY <1>0, <2>1, <2>2, <2>4, <2>5 DEF UnixInv
<1>5. ASSUME NEW t \in Unix!Threads, Unix!HandlerEnds(t) PROVE UnixInv'
  <2>1. UnixTyped'
    BY <1>5 DEF Unix!HandlerEnds
  <2>2. Alone'
    BY <1>5 DEF Unix!HandlerEnds
  <2>4. Killed'
    BY <1>5 DEF Unix!HandlerEnds
  <2>5. Own'
    BY <1>5 DEF Unix!HandlerEnds
  <2> QED
    BY <1>0, <2>1, <2>2, <2>4, <2>5 DEF UnixInv
<1>6. ASSUME NEW c \in UClients, Unix!connect(c) PROVE UnixInv'
  <2>1. UnixTyped'
    BY <1>6 DEF Unix!connect
  <2>2. Alone'
    BY <1>6 DEF Unix!connect
  <2>4. Killed'
    BY <1>6 DEF Unix!connect
  <2>5. Own'
    BY <1>6 DEF Unix!connect
  <2> QED
    BY <1>0, <2>1, <2>2, <2>4, <2>5 DEF UnixInv
<1>7. ASSUME NEW c \in UClients, Unix!ClientSend(c) PROVE UnixInv'
  <2>1. UnixTyped'
    BY <1>7, SMTT(30) DEF Unix!ClientSend, Unix!Served
  <2>2. Alone'
    BY <1>7 DEF Unix!ClientSend, Unix!Served
  <2>4. Killed'
    BY <1>7 DEF Unix!ClientSend, Unix!Served
  <2>5. Own'
    BY <1>7 DEF Unix!ClientSend, Unix!Served
  <2> QED
    BY <1>0, <2>1, <2>2, <2>4, <2>5 DEF UnixInv
<1>8. ASSUME NEW c \in UClients, Unix!ClientBye(c) PROVE UnixInv'
  <2>1. UnixTyped'
    BY <1>8, ZenonT(60) DEF Unix!ClientBye, Unix!Served
  <2>2. Alone'
    BY <1>8 DEF Unix!ClientBye, Unix!Served
  <2>4. Killed'
    BY <1>8 DEF Unix!ClientBye, Unix!Served
  <2>5. Own'
    BY <1>8 DEF Unix!ClientBye, Unix!Served
  <2> QED
    BY <1>0, <2>1, <2>2, <2>4, <2>5 DEF UnixInv
<1>9. ASSUME NEW c \in UClients, Unix!ClientHangsUp(c) PROVE UnixInv'
  <2>1. UnixTyped'
    BY <1>9 DEF Unix!ClientHangsUp
  <2>2. Alone'
    BY <1>9 DEF Unix!ClientHangsUp
  <2>4. Killed'
    BY <1>9 DEF Unix!ClientHangsUp
  <2>5. Own'
    BY <1>9 DEF Unix!ClientHangsUp
  <2> QED
    BY <1>0, <2>1, <2>2, <2>4, <2>5 DEF UnixInv
<1>10. ASSUME NEW c \in UClients, Unix!ClientRecv(c) PROVE UnixInv'
  <2>1. UnixTyped'
    BY <1>10 DEF Unix!ClientRecv, Unix!Served
  <2>2. Alone'
    BY <1>10 DEF Unix!ClientRecv, Unix!Served
  <2>a. ASSUME ~overlap, udown[c] # <<>>
        PROVE  Head(udown[c]) = <<c, spoken[c]>> /\ Tail(udown[c]) = <<>>
    <3>1. ucli[c] = "waiting"
      BY <1>10 DEF Unix!ClientRecv
    <3>2. udown[c] = <<<<c, spoken[c]>>>>
      BY <2>a, <3>1
    <3> HIDE DEF UnixInv
    <3> QED
      BY <3>2
  <2>b. UNCHANGED <<overlap, userver, hungup, spoken>> /\ \A d \in UClients : d # c => udown'[d] = udown[d] /\ ucli'[d] = ucli[d]
    BY <1>10 DEF Unix!ClientRecv
  <2>c. \/ /\ udown[c] # <<>> /\ udown'[c] = Tail(udown[c])
           /\ foreign' = (foreign \/ Head(udown[c]) # <<c, spoken[c]>>)
        \/ udown[c] = <<>> /\ UNCHANGED <<udown, foreign>>
    BY <1>10 DEF Unix!ClientRecv
  <2> HIDE DEF UnixTyped, Alone, Conversing
  <2>4. Killed'
    <3> SUFFICES ASSUME ~overlap, userver = "killed", NEW d \in UClients
                 PROVE  hungup /\ (udown'[d] = <<>> \/ (ucli'[d] = "waiting" /\ udown'[d] = Asked(d)))
      BY <2>b
    <3>1. CASE d = c
      BY <2>a, <2>c, <3>1
    <3>2. CASE d # c
      BY <2>b, <3>2
    <3> QED
      BY <3>1, <3>2
  <2>5. Own'
    <3> SUFFICES ASSUME ~overlap PROVE ~foreign'
      BY <2>b
    <3>1. ~foreign
      OBVIOUS
    <3>2. CASE udown[c] = <<>>
      BY <2>c, <3>1, <3>2, Zenon
    <3>3. CASE udown[c] # <<>>
      BY <2>a, <2>c, <3>1, <3>3, Zenon
    <3> QED
      BY <3>2, <3>3
  <2> QED
    BY <1>0, <2>1, <2>2, <2>4, <2>5 DEF UnixInv
<1> QED
  BY <1>1, <1>2, <1>3, <1>4, <1>5, <1>6, <1>7, <1>8, <1>9, <1>10, Zenon
  DEF Unix!Next, Unix!clientHandler

-----------------------------------------------------------------------------
\* The echo programs, with any number of clients, lines, connections and
\* datagrams: over TCP a client hears its own lines, whole and in order; over a
\* Unix socket every line comes back to its sender as long as there is one
\* connection at a time, and only a client that hung up kills the server; over UDP,
\* whatever the network loses, reorders or duplicates, a datagram is sent back at
\* most once for each time it arrives, and only its sender receives it.
THEOREM EchoesAreIntact == Spec => []EchoIntact
<1>1. Init => UdpInv /\ UnixInv
  BY UdpStarts, UnixStarts DEF Init
<1>2. UdpInv /\ [Next]_vars => UdpInv'
  <2> SUFFICES ASSUME UdpInv, [Next]_vars PROVE UdpInv'
    OBVIOUS
  <2>1. CASE InUdp /\ Udp!Next
    BY <2>1, UdpStep
  <2>2. CASE UNCHANGED udp_vars
    BY <2>2 DEF udp_vars, UdpInv, UdpTyped, UdpOnce, Holds, Sent
  <2> QED
    BY <2>1, <2>2 DEF Next, vars, InLib, InEpoll, InTcp, InUnix
<1>3. UnixInv /\ [Next]_vars => UnixInv'
  <2> SUFFICES ASSUME UnixInv, [Next]_vars PROVE UnixInv'
    OBVIOUS
  <2>1. CASE InUnix /\ Unix!Next
    BY <2>1, UnixStep
  <2>2. CASE UNCHANGED unix_vars
    BY <2>2, ZenonT(60) DEF unix_vars, UnixInv, UnixTyped, Alone, Conversing, Killed, Own, Talk, Idle, Waiting,
                Done, Silent, Asked, Begun, Unix!Live
  <2> QED
    BY <2>1, <2>2 DEF Next, vars, InLib, InEpoll, InTcp, InUdp
<1>4. UdpInv => Udp!EchoedOnce
  BY UdpConstants DEF UdpInv, UdpTyped, UdpOnce, Sent, Udp!EchoedOnce
<1>5. UnixInv => Unix!SafeOneByOne
  BY DEF UnixInv, UnixTyped, Killed, Own, Unix!SafeOneByOne
<1>6. Tcp!EchoIntact /\ UnixInv /\ UdpInv => EchoIntact
  BY <1>4, <1>5 DEF EchoIntact
<1> QED
  BY <1>1, <1>2, <1>3, <1>6, TcpEchoes, PTL DEF Spec

==============================================================================
