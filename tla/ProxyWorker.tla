----------------------------- MODULE ProxyWorker -----------------------------
(***************************************************************************)
(* A worker process of src/networking/himproxy/proxy_old: the main thread  *)
(* accepts clients and registers them, edge-triggered, with an epoll       *)
(* instance; the poller thread hands the clients with events to a work     *)
(* queue; the threads of the queue receive what is there into a growing    *)
(* buffer and cut it into requests.                                        *)
(*                                                                         *)
(* The threads share struct proxy_info without a lock.  A step that uses   *)
(* one that was freed, or that another thread is using, has undefined      *)
(* behaviour: the process is "undefined" from then on.                     *)
(*                                                                         *)
(* A client's bytes are "x", part of a header, "e", the end of the headers *)
(* of a request, and "b", a byte http_parse_request refuses.  Descriptors  *)
(* and the addresses of proxy_info are not reused.                         *)
(***************************************************************************)
EXTENDS Integers, Sequences, FiniteSets, Functions

CONSTANTS
    Clients,
    Threads,         \* threads of the work queue (workq_parallelism)
    Bytes,           \* subset of {"x", "e", "b"}: what clients send
    BufSize,         \* REQUEST_BUF_SIZE
    ReallocLimit,    \* REALLOC_LIMIT
    WorkqLength,     \* workq_length
    MaxBytes,        \* bound: bytes the clients send between them
    MaxLeaves,       \* bound: clients that close or reset their connection
    NULL

ASSUME WorkerConstants ==
    /\ IsFiniteSet(Clients) /\ IsFiniteSet(Threads) /\ NULL \notin Clients
    /\ Bytes \subseteq {"x", "e", "b"}
    /\ ReallocLimit \in Nat \ {0} /\ BufSize \in Nat /\ BufSize >= ReallocLimit
    /\ WorkqLength \in Nat \ {0} /\ MaxBytes \in Nat /\ MaxLeaves \in Nat

VARIABLES
    process,   \* "running", "exited" or "undefined"
    sent,      \* what each client sent so far
    end,       \* how it left: "open", "closed" or "reset"
    rx,        \* bytes in the receive buffer of its socket
    edge,      \* clients epoll has something new to report of
    info,      \* each proxy_info: "none", "live" or "freed"
    buf,       \* client_buf up to client_buf_curr_len
    bufSize,   \* client_buf_size
    parsed,    \* client_buf_parsed_len
    reqs,      \* the list from curr_req to last_req: first and last byte
    dangling,  \* clients whose listed requests point into a block realloc freed
    batch,     \* events epoll_wait returned and the poller has not looked at
    workq,     \* clients in g_parse_request_workq
    pc, cur,   \* each thread and the client it works for
    missed,    \* clients whose last event WorkQAdd refused
    overlap    \* whether something new came while a client was being looked at

sockets == <<sent, end, rx>>
infos == <<info, buf, bufSize, parsed, reqs, dangling>>
threads == <<pc, cur>>
vars == <<process, sockets, edge, infos, batch, workq, threads, missed, overlap>>

Init ==
    /\ process = "running"
    /\ sent = [c \in Clients |-> <<>>] /\ end = [c \in Clients |-> "open"]
    /\ rx = [c \in Clients |-> <<>>]
    /\ edge = {}
    /\ info = [c \in Clients |-> "none"]
    /\ buf = [c \in Clients |-> <<>>] /\ bufSize = [c \in Clients |-> 0]
    /\ parsed = [c \in Clients |-> 0] /\ reqs = [c \in Clients |-> <<>>]
    /\ dangling = {}
    /\ batch = {} /\ workq = <<>>
    /\ pc = [t \in Threads |-> "idle"] /\ cur = [t \in Threads |-> NULL]
    /\ missed = {} /\ overlap = FALSE

Queued == {workq[i] : i \in 1..Len(workq)}
Batched == {e[1] : e \in batch}
Worked == {cur[t] : t \in Threads} \ {NULL}
\* The poller or a thread has, or will have, this client in its hands.
Busy(c) == c \in Queued \cup Batched \cup Worked

Readable(c) == rx[c] # <<>> \/ end[c] # "open"

(***************************************************************************)
(* The clients                                                             *)
(***************************************************************************)
\* epoll reports only what is new, and only for a socket it still has.
Arrived(c) ==
    /\ edge' = IF info[c] = "live" THEN edge \cup {c} ELSE edge
    /\ overlap' = (overlap \/ Busy(c))
    /\ UNCHANGED <<process, infos, batch, workq, threads, missed>>

ClientSends(c) ==
    /\ process = "running"
    /\ end[c] = "open"
    /\ FoldFunction(LAMBDA s, n : Len(s) + n, 0, sent) < MaxBytes
    /\ \E b \in Bytes :
          sent' = [sent EXCEPT ![c] = Append(@, b)] /\ rx' = [rx EXCEPT ![c] = Append(@, b)]
    /\ Arrived(c)
    /\ UNCHANGED end

\* A reset drops what was not read.
ClientLeaves(c) ==
    /\ process = "running"
    /\ end[c] = "open" /\ Cardinality({d \in Clients : end[d] # "open"}) < MaxLeaves
    /\ \/ end' = [end EXCEPT ![c] = "closed"] /\ UNCHANGED rx
       \/ end' = [end EXCEPT ![c] = "reset"] /\ rx' = [rx EXCEPT ![c] = <<>>]
    /\ Arrived(c)
    /\ UNCHANGED sent

(***************************************************************************)
(* The main thread: start_proxy                                            *)
(***************************************************************************)
\* add_to_request_poller; what arrived before is reported at once.  When it
\* fails the socket is closed and proxy_info freed.
Accept(c) ==
    /\ process = "running"
    /\ info[c] = "none"
    /\ \/ /\ info' = [info EXCEPT ![c] = "live"]
          /\ edge' = IF Readable(c) THEN edge \cup {c} ELSE edge
       \/ info' = [info EXCEPT ![c] = "freed"] /\ UNCHANGED edge
    /\ UNCHANGED <<process, sockets, buf, bufSize, parsed, reqs, dangling, batch, workq,
                   threads, missed, overlap>>

\* An accept or an epoll_wait that fails ends the process, and so does the fault
\* of add_to_request_poller on a calloc that failed.
Exit ==
    /\ process = "running"
    /\ process' = "exited"
    /\ UNCHANGED <<sockets, edge, infos, batch, workq, threads, missed, overlap>>

Undefined ==
    /\ process' = "undefined"
    /\ UNCHANGED <<sockets, edge, infos, batch, workq, threads, missed, overlap>>

(***************************************************************************)
(* The poller thread: proxy_default_poller and handle_epoll_events         *)
(***************************************************************************)
\* Bug: EPOLLET is forgotten, and what is there is reported again and again.
EpollWaitLevel ==
    /\ process = "running" /\ batch = {}
    /\ \E ready \in SUBSET {c \in edge : Readable(c)} :
          /\ ready # {}
          /\ batch' = {<<c, end[c] = "reset">> : c \in ready}
    /\ UNCHANGED <<process, sockets, edge, infos, workq, threads, missed, overlap>>

\* Each event is reported once, with what is true of the socket at that moment.
EpollWait ==
    /\ process = "running" /\ batch = {}
    /\ \E ready \in SUBSET {c \in edge : Readable(c)} :
          /\ ready # {}
          /\ batch' = {<<c, end[c] = "reset">> : c \in ready}
          /\ edge' = edge \ ready
    /\ UNCHANGED <<process, sockets, infos, workq, threads, missed, overlap>>

\* close takes the socket off the epoll instance; then free_proxy_info.
Free(c) ==
    /\ info' = [info EXCEPT ![c] = "freed"]
    /\ edge' = edge \ {c}
    /\ buf' = [buf EXCEPT ![c] = <<>>] /\ bufSize' = [bufSize EXCEPT ![c] = 0]
    /\ parsed' = [parsed EXCEPT ![c] = 0] /\ reqs' = [reqs EXCEPT ![c] = <<>>]
    /\ dangling' = dangling \ {c}
    /\ missed' = missed \ {c}

\* EPOLLERR or EPOLLHUP.
HandleHangup(c) ==
    /\ process = "running" /\ <<c, TRUE>> \in batch
    /\ IF info[c] = "freed" THEN Undefined
       ELSE /\ Free(c)
            /\ batch' = batch \ {<<c, TRUE>>}
            /\ UNCHANGED <<process, sockets, workq, threads, overlap>>

\* Bug: a client that is already queued is not queued again.
HandleInputOnce(c) ==
    /\ process = "running" /\ <<c, FALSE>> \in batch
    /\ IF info[c] = "freed" THEN Undefined
       ELSE /\ batch' = batch \ {<<c, FALSE>>}
            /\ \/ /\ Len(workq) < WorkqLength
                  /\ workq' = IF c \in Queued \cup Worked THEN workq ELSE Append(workq, c)
                  /\ missed' = missed \ {c}
               \/ UNCHANGED workq /\ missed' = missed \cup {c}
            /\ UNCHANGED <<process, sockets, edge, infos, threads, overlap>>

\* Any other event; a WorkQAdd that fails is only logged.
HandleInput(c) ==
    /\ process = "running" /\ <<c, FALSE>> \in batch
    /\ IF info[c] = "freed" THEN Undefined
       ELSE /\ batch' = batch \ {<<c, FALSE>>}
            /\ \/ /\ Len(workq) < WorkqLength
                  /\ workq' = Append(workq, c) /\ missed' = missed \ {c}
               \/ UNCHANGED workq /\ missed' = missed \cup {c}
            /\ UNCHANGED <<process, sockets, edge, infos, threads, overlap>>

(***************************************************************************)
(* A thread of the work queue: receive_parse_request                       *)
(***************************************************************************)
Goto(t, from, to) == pc[t] = from /\ pc' = [pc EXCEPT ![t] = to]

\* The proxy_info of this thread is gone, or another thread uses it.
Spoiled(t) ==
    \/ info[cur[t]] = "freed"
    \/ \E u \in Threads \ {t} : cur[u] = cur[t]

At(t, label) == process = "running" /\ pc[t] = label /\ ~Spoiled(t)

Begin(t) ==
    /\ process = "running" /\ workq # <<>>
    /\ Goto(t, "idle", "alloc")
    /\ cur' = [cur EXCEPT ![t] = Head(workq)]
    /\ workq' = Tail(workq)
    /\ UNCHANGED <<process, sockets, edge, infos, batch, missed, overlap>>

Finish(t) == pc' = [pc EXCEPT ![t] = "idle"] /\ cur' = [cur EXCEPT ![t] = NULL]

Remaining(c) == bufSize[c] - Len(buf[c])

\* alloc_client_buf: the buffer is made, or doubled when little room is left.
Grow(c) ==
    bufSize' = [bufSize EXCEPT ![c] =
                  IF @ = 0 THEN BufSize ELSE IF Remaining(c) < ReallocLimit THEN 2 * @ ELSE @]

\* A realloc may fail, and one that grows the block may move it: the req_buf of
\* the requests in the list are not updated.
Alloc(t) ==
    LET c == cur[t] IN
    /\ At(t, "alloc")
    /\ Grow(c)
    /\ \/ Goto(t, "alloc", "cleanup") /\ UNCHANGED dangling
       \/ Goto(t, "alloc", "recv") /\ UNCHANGED dangling
       \/ /\ Goto(t, "alloc", "recv")
          /\ bufSize'[c] > bufSize[c] /\ reqs[c] # <<>>
          /\ dangling' = dangling \cup {c}
    /\ UNCHANGED <<process, sockets, edge, info, buf, parsed, reqs, batch, workq, cur,
                   missed, overlap>>

\* recv: some bytes, and round again; EAGAIN, and on to the parser; the end of
\* the stream, an error or no room at all, and the connection is dropped with
\* whatever the buffer still holds.
Recv(t) ==
    LET c == cur[t] IN
    /\ At(t, "recv")
    /\ \/ \E k \in 1..Len(rx[c]) :
             /\ k <= Remaining(c)
             /\ buf' = [buf EXCEPT ![c] = @ \o SubSeq(rx[c], 1, k)]
             /\ rx' = [rx EXCEPT ![c] = SubSeq(@, k + 1, Len(@))]
             /\ pc' = [pc EXCEPT ![t] = "alloc"]
       \/ /\ rx[c] = <<>> \/ Remaining(c) = 0
          /\ pc' = [pc EXCEPT ![t] = IF end[c] = "open" /\ Remaining(c) > 0
                                     THEN "parse" ELSE "cleanup"]
          /\ UNCHANGED <<buf, rx>>
    /\ UNCHANGED <<process, sent, end, edge, info, bufSize, parsed, reqs, dangling,
                   batch, workq, cur, missed, overlap>>

\* The positions after client_buf_parsed_len where a request ends or is broken.
Unparsed(c, b) == {i \in parsed[c] + 1..Len(buf[c]) : buf[c][i] = b}
FirstEnd(c) == CHOOSE i \in Unparsed(c, "e") : \A j \in Unparsed(c, "e") : i <= j
Broken(c) == \E i \in Unparsed(c, "b") : \A j \in Unparsed(c, "e") : i < j

\* Bug: client_buf_parsed_len is set to the length of the last request.
HandleRequestRestarts(t, c) ==
    /\ reqs' = [reqs EXCEPT ![c] = Append(@, <<parsed[c] + 1, FirstEnd(c)>>)]
    /\ parsed' = [parsed EXCEPT ![c] = FirstEnd(c) - @]
    /\ UNCHANGED threads

\* handle_request: the request goes to the end of the list and the parser on to
\* what follows it.  A calloc that fails only makes the loop come back here.
HandleRequest(t, c) ==
    /\ reqs' = [reqs EXCEPT ![c] = Append(@, <<parsed[c] + 1, FirstEnd(c)>>)]
    /\ parsed' = [parsed EXCEPT ![c] = FirstEnd(c)]
    /\ UNCHANGED threads

\* parse_request_buffer: whole requests are taken until an incomplete one is
\* met.  A broken one is tried again, for ever.  At the end
\* proxy_request_list_print reads every req_buf.
Parse(t) ==
    LET c == cur[t] IN
    /\ At(t, "parse")
    /\ \/ ~Broken(c) /\ Unparsed(c, "e") # {} /\ HandleRequest(t, c)
       \/ ~Broken(c) /\ Unparsed(c, "e") = {} /\ c \notin dangling /\ Finish(t)
          /\ UNCHANGED <<parsed, reqs>>
       \/ Broken(c) /\ UNCHANGED <<parsed, reqs, threads>>
    /\ UNCHANGED <<process, sockets, edge, info, buf, bufSize, dangling, batch, workq, missed,
                   overlap>>

\* Bug: the socket is closed and proxy_info is kept.
CleanupCloses(t) ==
    /\ At(t, "cleanup")
    /\ edge' = edge \ {cur[t]}
    /\ Finish(t)
    /\ UNCHANGED <<process, sockets, infos, batch, workq, missed, overlap>>

Cleanup(t) ==
    /\ At(t, "cleanup")
    /\ Free(cur[t])
    /\ Finish(t)
    /\ UNCHANGED <<process, sockets, batch, workq, overlap>>

\* proxy_request_list_print follows a pointer into the block that was freed.
ListDangles(t) ==
    /\ pc[t] = "parse" /\ cur[t] \in dangling
    /\ ~Broken(cur[t]) /\ Unparsed(cur[t], "e") = {}

UseFreed(t) ==
    /\ process = "running" /\ cur[t] # NULL
    /\ Spoiled(t) \/ ListDangles(t)
    /\ Undefined

Work(t) == Begin(t) \/ Alloc(t) \/ Recv(t) \/ Parse(t) \/ Cleanup(t) \/ UseFreed(t)

Poller == EpollWait \/ \E c \in Clients : HandleHangup(c) \/ HandleInput(c)
AcceptNext == \E c \in Clients : Accept(c)

Next ==
    \/ \E c \in Clients : ClientSends(c) \/ ClientLeaves(c)
    \/ AcceptNext \/ Exit \/ Poller
    \/ \E t \in Threads : Work(t)

Spec == Init /\ [][Next]_vars

\* Every thread of the process keeps running.  Nothing is assumed of clients.
FairSpec ==
    /\ Spec
    /\ WF_vars(AcceptNext)
    /\ WF_vars(Poller)
    /\ \A t \in Threads : WF_vars(Work(t))

-----------------------------------------------------------------------------
(* Properties *)

\* No wake-up is lost: a client nobody is looking at and epoll will not report
\* has nothing to say, although events are edge-triggered and may come in the
\* middle of the work for an earlier one.  Only an event that the work queue
\* refused is an exception.
NoEventLost ==
    process = "running" =>
        \A c \in Clients :
            info[c] = "live" /\ c \notin edge \cup missed /\ ~Busy(c) => ~Readable(c)

\* The list holds exactly the requests among the bytes received, in order and
\* without gaps, wherever the pieces were cut.
RequestsExact ==
    process = "running" =>
        \A c \in Clients :
            /\ info[c] = "live" /\ end[c] # "reset" => buf[c] \o rx[c] = sent[c]
            /\ \A i \in 1..Len(reqs[c]) :
                  /\ reqs[c][i][1] = (IF i = 1 THEN 1 ELSE reqs[c][i - 1][2] + 1)
                  /\ {j \in reqs[c][i][1]..reqs[c][i][2] : buf[c][j] = "e"} = {reqs[c][i][2]}
            /\ info[c] = "live" /\ ~Busy(c) => Unparsed(c, "e") = {}

\* The threads share proxy_info without a lock: what keeps them apart is that a
\* client sends nothing new, and does not leave, while its last event is being
\* dealt with.  As long as that is so no proxy_info is used after it was freed,
\* or freed twice, or used by two threads; what is left is the req_buf of an
\* earlier request, which a realloc leaves behind.
SafeWithoutOverlap == ~overlap /\ dangling = {} => process # "undefined"

NoneBroken == \A c \in Clients : \A i \in 1..Len(sent[c]) : sent[c][i] # "b"

\* The client waits for a request to be parsed, or for its connection to be closed.
Waits(c) ==
    \/ \E i \in parsed[c] + 1..Len(sent[c]) : sent[c][i] = "e"
    \/ end[c] # "open"

\* Nobody waits for ever: a request is parsed or its connection dropped, and a
\* client that left has its socket closed and its proxy_info freed, if no client
\* sends a broken request (which takes a thread away for ever) and the work
\* queue does not refuse the event.
ClientsServed ==
    [](NoneBroken) =>
        \A c \in Clients :
            Waits(c) ~> (~Waits(c) \/ info[c] = "freed" \/ c \in missed
                         \/ process # "running")

==============================================================================
