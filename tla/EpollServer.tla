----------------------------- MODULE EpollServer -----------------------------
(***************************************************************************)
(* system/poller/epoll.c: one thread on edge-triggered epoll.  The kernel  *)
(* reports a descriptor once per arrival, so a handler must go on until    *)
(* the call would block.  Every accept and every read is a step of its     *)
(* own: clients connect, send and leave between two of them.               *)
(***************************************************************************)
EXTENDS Naturals, Sequences, FiniteSets

CONSTANTS
    EClients,   \* the clients that may connect, each once
    MaxChunks,  \* bound on the reads' worth of data a client sends
    MAXEVENTS   \* events one call of epoll_wait returns

VARIABLES
    poller,     \* "new", "bound", "waiting", "handling" or "aborted"
    at,         \* the descriptor being handled
    backlog,    \* connections nobody accepted yet
    gaveUp,     \* accept failed, and the backlog was left
    fds,        \* clients whose descriptor is open and in the epoll set
    end,        \* how a client left: "no", "fin" or "rst"
    out,        \* chunks of each client: not yet sent
    arrived,    \* ... in the kernel's buffer
    shown,      \* ... written to standard output
    closed,     \* why the server closed: "no", "eof" or "error"
    edges,      \* descriptors the kernel has to report
    batch,      \* descriptors of this round that are still to be handled
    errors      \* of these, the ones reported with EPOLLERR or EPOLLHUP

vars == <<poller, at, backlog, gaveUp, fds, end, out, arrived, shown, closed,
          edges, batch, errors>>

Listener == "sfd"

Init ==
    /\ poller = "new" /\ at = Listener
    /\ backlog = <<>> /\ gaveUp = FALSE /\ fds = {}
    /\ end = [c \in EClients |-> "no"]
    /\ out = [c \in EClients |-> MaxChunks]
    /\ arrived = [c \in EClients |-> 0] /\ shown = [c \in EClients |-> 0]
    /\ closed = [c \in EClients |-> "no"]
    /\ edges = {} /\ batch = {} /\ errors = {}

Range(s) == {s[i] : i \in DOMAIN s}
Connected(c) == c \in fds \/ c \in Range(backlog)

-----------------------------------------------------------------------------
(* The clients *)

EClientConnects(c) ==
    /\ poller \in {"waiting", "handling"}
    /\ ~Connected(c) /\ closed[c] = "no"
    /\ backlog' = Append(backlog, c)
    /\ edges' = edges \cup {Listener}
    /\ UNCHANGED <<poller, at, gaveUp, fds, end, out, arrived, shown, closed, batch, errors>>

EClientSends(c) ==
    /\ Connected(c) /\ end[c] = "no" /\ out[c] > 0
    /\ out' = [out EXCEPT ![c] = @ - 1]
    /\ arrived' = [arrived EXCEPT ![c] = @ + 1]
    /\ edges' = edges \cup ({c} \cap fds)
    /\ UNCHANGED <<poller, at, backlog, gaveUp, fds, end, shown, closed, batch, errors>>

EClientLeaves(c) ==
    /\ Connected(c) /\ end[c] = "no"
    /\ \E how \in {"fin", "rst"} : end' = [end EXCEPT ![c] = how]
    /\ edges' = edges \cup ({c} \cap fds)
    /\ UNCHANGED <<poller, at, backlog, gaveUp, fds, out, arrived, shown, closed, batch, errors>>

-----------------------------------------------------------------------------
(* main *)

\* The first address of the list that gives a socket and binds; none aborts.
create_and_bind ==
    /\ poller = "new"
    /\ poller' \in {"bound", "aborted"}
    /\ UNCHANGED <<at, backlog, gaveUp, fds, end, out, arrived, shown, closed, edges, batch, errors>>

\* The rest of the calls before the loop: each aborts when it fails.
SetUp ==
    /\ poller = "bound"
    /\ poller' \in {"waiting", "aborted"}
    /\ UNCHANGED <<at, backlog, gaveUp, fds, end, out, arrived, shown, closed, edges, batch, errors>>

epoll_wait ==
    /\ poller = "waiting" /\ batch = {} /\ edges # {}
    /\ \E b \in SUBSET edges :
         /\ b # {} /\ (b = edges \/ Cardinality(b) = MAXEVENTS)
         /\ Cardinality(b) <= MAXEVENTS
         /\ batch' = b /\ edges' = edges \ b
         /\ errors' = {c \in b \cap EClients : end[c] = "rst"}
    /\ UNCHANGED <<poller, at, backlog, gaveUp, fds, end, out, arrived, shown, closed>>

Close(c, why) ==
    /\ fds' = fds \ {c}
    /\ closed' = [closed EXCEPT ![c] = why]
    /\ edges' = edges \ {c}
    /\ arrived' = [arrived EXCEPT ![c] = 0]

\* An event with EPOLLERR or EPOLLHUP: close, unread data or not.
CloseOnError(c) ==
    /\ poller = "waiting" /\ c \in errors
    /\ batch' = batch \ {c} /\ errors' = errors \ {c}
    /\ Close(c, "error")
    /\ UNCHANGED <<poller, at, backlog, gaveUp, end, out, shown>>

HandleEvent(f) ==
    /\ poller = "waiting" /\ f \in batch \ errors
    /\ poller' = "handling" /\ at' = f
    /\ batch' = batch \ {f}
    /\ gaveUp' = (gaveUp /\ f # Listener)
    /\ UNCHANGED <<backlog, fds, end, out, arrived, shown, closed, edges, errors>>

\* make_socket_non_blocking, as main uses it: TRUE when both fcntl calls work.
make_socket_non_blocking == BOOLEAN

\* One turn of the accept loop.  Adding a descriptor that is already readable
\* gives it its edge.
accept ==
    /\ poller = "handling" /\ at = Listener /\ backlog # <<>>
    /\ \E ok \in make_socket_non_blocking :
         LET c == Head(backlog)
         IN \/ /\ ok
               /\ backlog' = Tail(backlog) /\ fds' = fds \cup {c}
               /\ edges' = IF arrived[c] > 0 \/ end[c] # "no" THEN edges \cup {c} ELSE edges
               /\ UNCHANGED poller
            \/ /\ ~ok
               /\ poller' = "aborted"
               /\ UNCHANGED <<backlog, fds, edges>>
    /\ UNCHANGED <<at, gaveUp, end, out, arrived, shown, closed, batch, errors>>

\* The loop ends on EAGAIN, but also on any error, of a full table say, with
\* connections still waiting.
AcceptEnds ==
    /\ poller = "handling" /\ at = Listener
    /\ gaveUp' = (backlog # <<>>)
    /\ poller' = "waiting"
    /\ UNCHANGED <<at, backlog, fds, end, out, arrived, shown, closed, edges, batch, errors>>

\* Bug: one read per event.
ReadChunk_once ==
    /\ poller = "handling" /\ at \in EClients /\ arrived[at] > 0
    /\ arrived' = [arrived EXCEPT ![at] = @ - 1]
    /\ shown' = [shown EXCEPT ![at] = @ + 1]
    /\ poller' = "waiting"
    /\ UNCHANGED <<at, backlog, gaveUp, fds, end, out, closed, edges, batch, errors>>

\* One read and the write of what it returned to standard output, which
\* aborts when it fails.  A write that takes less than it was given, which the
\* code does not look for, is left out.
ReadChunk ==
    /\ poller = "handling" /\ at \in EClients /\ arrived[at] > 0
    /\ arrived' = [arrived EXCEPT ![at] = @ - 1]
    /\ \/ shown' = [shown EXCEPT ![at] = @ + 1] /\ UNCHANGED poller
       \/ poller' = "aborted" /\ UNCHANGED shown
    /\ UNCHANGED <<at, backlog, gaveUp, fds, end, out, closed, edges, batch, errors>>

ReadEnds ==
    /\ poller = "handling" /\ at \in EClients /\ arrived[at] = 0
    /\ poller' = "waiting"
    /\ \/ end[at] = "no" /\ UNCHANGED <<fds, closed, edges, arrived>>
       \/ end[at] = "fin" /\ Close(at, "eof")
       \/ end[at] = "rst" /\ Close(at, "error")
    /\ UNCHANGED <<at, backlog, gaveUp, end, out, shown, batch, errors>>

Next ==
    \/ SetUp \/ create_and_bind \/ epoll_wait
    \/ \E c \in EClients : CloseOnError(c)
    \/ \E f \in EClients \cup {Listener} : HandleEvent(f)
    \/ accept \/ AcceptEnds \/ ReadChunk \/ ReadEnds
    \/ \E c \in EClients : EClientConnects(c) \/ EClientSends(c) \/ EClientLeaves(c)

Spec == Init /\ [][Next]_vars

-----------------------------------------------------------------------------
(* Properties *)

\* epoll.c: between two events nothing is left without a notification to come:
\* a descriptor with unread data, or whose client has left, is in this round's
\* events or will be reported; so is the listening socket while connections
\* wait, except after an accept that failed.
NothingStranded ==
    poller = "waiting" =>
      /\ \A c \in fds : arrived[c] > 0 \/ end[c] # "no" => c \in batch \cup edges
      /\ backlog # <<>> => Listener \in batch \cup edges \/ gaveUp

\* epoll.c: a connection is closed at the end of the file only after all its
\* data reached standard output, in whatever pieces it came.
ShownBeforeClose ==
    \A c \in EClients : closed[c] = "eof" => shown[c] + out[c] = MaxChunks

==============================================================================
