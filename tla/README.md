# TLA+ models of tpt

The repository is a collection of C programs and small libraries (networking, IPC,
memory, serialization). This directory models the ones that keep state that several
threads, processes or peers change: what each may do at each step, what must hold
whatever the order, and, for most of them, proofs that it holds for every size.

Paths below are relative to `src/src/`.

## Inventory

### Components with a model

| Component | State | Operations | What is hard | What makes it correct |
|---|---|---|---|---|
| conn_mgr pool (`networking/conn_mgr/conn_mgr_pool.c`) | mutex, condition variable, queue of idle connections, `size` | `new`, `destroy`, `pop`, `try_pop`, `push` | `pop` connects with the mutex held, sleeps, and is woken by a `signal` another `pop` may overtake; connect and malloc fail | a connection is in one hand; never more than `max_pool_size`; no wake-up lost; a `pop` returns |
| conn_mgr queue (`conn_mgr_queue.c`) | `head`, `tail`, heap items | `init`, `push_head`, `push_tail`, `pop_head`, `get_length`, `print` | `tail` has to follow removals at the head; freed addresses come back from malloc | the list is a sequence |
| conn_mgr conn (`conn_mgr_conn.c`) | a socket, its mode, the global error code | `conn_new`, `conn_destroy` | seven system calls, each of which may fail; EINTR; a timeout; the mode has to be put back | no descriptor leaks; an established connection is blocking; time is bounded; the call returns |
| shared memory queue (`system/ipc/sharedmemory`) | ring buffer in a segment and three named semaphores, all outliving the processes | producer and consumer loops, `queue_init/add/delete/print`, signal handler | processes killed anywhere and started again; a restarted producer re-initialises a live segment without the mutex | mutual exclusion; no token is created; a bounded FIFO; progress |
| mem_pool (`system/mem_pool/argo_mem_pool.c`, `argo_test_mem_pool.c`) | slabs, free list threaded through the objects, 32-bit packed locations | `create`, `get` (with expansion), `put`, `destroy`; the six tests | any order of gets and puts over several slabs; arithmetic that wraps | free list exact; objects disjoint and inside their slab; NULL only when exhausted; an object keeps what its holder wrote |
| dining philosophers (`system/diningphilo/dinphilo.c`) | one semaphore per fork and one for the table | the philosopher thread | circular wait | forks exclusive; no circle; everybody eats |
| condvar (`other/condvar.c`) | `count`, mutex, condition variable | two incrementing threads, a watcher, main | the signal is sent at one exact count; spurious wake-ups change the count | main joins all three |
| aio (`system/aio/async_read_write.c`) | `read_info`: buffer, sizes, control block | main, the callback of each read | a chain of callbacks with short reads and a buffer that doubles; the copy is not truncated and a short write is only reported | what is handed to `write` is the whole file; so is the copy, if all is written over none or a shorter one |
| ioctl driver (`system/ioctl`) | `code`, `val`, the registrations of the module | init, exit, two ioctls, user programs | no lock around two words; every registration may fail | a call that overlaps none sets or gets a whole pair, others at least words that were set; nothing stays registered but the region after a failing `cdev_add` |
| linux_namespace (`system/linux_namespace`) | the count file, memory shared by parent and child | spawn, veth pair, `parent_get_netcnt`, the child's shell | instances share the file; parent and child are ordered by a sleep | its comment claims the count file is synchronised: it is not |
| himproxy supervisor (`networking/himproxy/proxy_old/proxy_{main,core,signal_handler}.c`; `himproxy` has the same code) | `g_child_table`, `g_active_child_count`, the processes | create, wait, restart, signal handlers of parent and worker | signals between `fork` and the write of the table; workers that inherit the parent's handler; stopped workers; failed forks; `SIGTERM` and `SIGKILL`, which have no handler | the table knows the workers; the count is exact; a signal the parent handles reaches all; a crashed worker is replaced |
| proxy_old worker (`networking/himproxy/proxy_old/proxy_{core,poller,request_handler}.c`) | `struct proxy_info` per client, epoll instance, work queue | accept loop, poller thread, threads that receive and parse | edge-triggered events; `proxy_info` shared without a lock and freed by two kinds of threads; buffers that move; pipelined requests | no event lost; requests cut exactly; clients served |
| splice proxies (`networking/splice/sp_trans_proxy`, `sp_exp`) | two sockets, a pipe, a buffer | accept, connect, poll loop, recv/send, splice in and out, release | short sends and splices, a pipe that fills, data and end of stream together, failure of any call; a server that never pauses | bytes in order; the client's end of stream last; descriptors given back but on two paths; requests forwarded once the server pauses |
| libevent server (`networking/server/server.c`) | `conn_info` and two events per client | accept, receive and send callbacks | a connection dropped while its other event is active; answers sent without looking at the result | no event without its connection; no answer unasked; every request read and answered |
| epoll poller (`system/poller/epoll.c`) | epoll set, batch of events | accept loop, read loop | edge-triggered: what is left behind is not reported again | nothing stranded; all data shown before the close |
| socket echo servers (`networking/socket/{tcp,udp}/echoserver`, `unixSock`) | sockets, a thread per connection, `g_ClientCount` | server loops, handler threads, clients | partial reads, a `cliSock` shared by all handlers (Unix), datagrams lost, reordered and duplicated | what a client hears is what it said, as often as it was delivered |
| bson_api (`serialization/bson_api/bson_api.c`) | values, elements, documents, buffers: blocks that caller and library own in turn | 20 functions that set, get, create, write, read and free | errors half way through; arrays that grow; input cut short | no block lost or freed twice; what was written is read |
| mongo_api (`mongo_api/mongo_api.c`) | the client pool, a client, collection and cursor per operation | pool init and destroy, five operations | several threads; the client goes back before what refers to it is destroyed | clients shared only in that clean-up; all given back; a pop returns |
| icap client (`networking/icap-client-testing`) | contexts, the receiving thread, its `ThreadData` | eight programs | the receiver runs while main sends; the server closes at any moment; a disconnect fails and the program goes on | no context is gone while a thread receives on it; the pool is freed with no other context out than those that failed to disconnect |

Interactions: the pool calls the queue with its mutex held and `conn_new` for a new
connection; the supervisor forks the workers whose inside is the proxy worker; the
producer and the consumers meet only through the segment and the semaphores; the
splice proxy and the proxy worker hand clients from one thread to others through a
work queue that is a library outside the repository (`WorkQAdd` succeeds or fails);
mongo_api takes the documents that bson_api makes, without keeping them.

### Components without a model

| Component | Why |
|---|---|
| conn_mgr core | error code to text: no state |
| himproxy event loop (`networking/himproxy/{core,poller,network}.c`) | unfinished: it does not compile and accepted sockets go nowhere; its complete predecessor is the proxy_old worker |
| proxy_old forwarding (`proxy_request_forwarder.c`, `proxy_response_handler.c`, `proxy_dns_lookup.c`, `proxy_net.c`) | never called: the `WorkQAdd` that would start it is compiled out |
| proxy_old configuration | reads a file once; its values are constants of `ProxyWorker` and `Supervisor` |
| waitForChild | a first version of the supervisor; its `SIGCHLD` handler, which sets the flag that ends the loop, is recorded as a hazard |
| redis tests | sequential calls of hiredis, whose code is not here |
| zigzag encoding | two one-line functions without state |
| other programs | a page of code or less without state |

## Plan

1. Done: `ConnMgrQueue` (abstract specification `Deque`), `ConnMgrPool` (which takes
   the queue as the sequence `ConnMgrQueue` implements), `ConnMgrConn`, `ShmQueue`
   (abstract specification `BoundedFifo`), `DiningPhilosophers`, `MemPool`,
   `Supervisor`, `SpliceTunnel`, `ProxyWorker`.
2. Done: the servers (`LibeventServer`, `EpollServer`, `TcpEcho`, `UnixEcho`,
   `UdpEcho`), the client libraries (`BsonApi`, `MongoApi`, `IcapClient`), the system
   programs (`CondVar`, `AioCopy`, `IoctlDriver`, `MemPoolTests`, `NetNamespace`).
   Components that share nothing are checked in one run each through an MC module
   (`MCConnMgrParts`, `MCProxies`, `MCSocketServers`, `MCApiClients`,
   `MCSystemPrograms`).
3. Done: proofs of every safety property that a passing run checks, and of both
   refinements, in eight modules (see Proofs). What is left to TLC alone is liveness.

## How the modules correspond to the code

`PROJECT.json` maps every definition to its lines. The conventions are the same
everywhere: a program counter `pc` per thread or process stands between two actions
where another actor can intervene (a lock, a semaphore, a system call, a write to
shared memory); an action is everything up to the next such point; a call that may
fail is a disjunct or an action of its own; definitions whose comment starts with
"Bug:" are variants of the action below them, with one plausible mistake, and are not
part of any specification: they show that the property listed with them in
`PROJECT.json` notices the mistake.

* **ConnMgrPool** - one thread per caller of the pool. `Lock` is
  `pthread_mutex_lock`, and also the return of `pthread_cond_wait` with the mutex;
  `PopTake`, `PopConnect`/`PopConnected`, `PopWait` are the branches of the loop of
  `pop`; `TryTake`, `TryConnect`/`TryConnected`, `TrySpin` those of `try_pop`;
  `PushHead` enqueues, signals one waiter and leaves; `ConnDestroy` is a caller that
  throws its connection away, `SpuriousWake` what POSIX allows. `MCConnMgrPool` adds
  the symmetry of threads and connections.
* **ConnMgrQueue** - `next` and `data` are functions on heap addresses; addresses not
  in `live` keep their old fields and may be returned by malloc again. `Walk` follows
  the `next` pointers as `get_length` and the printing function do. **Deque** is what the header
  promises. `MCConnMgrParts` runs it beside `ConnMgrConn`.
* **ConnMgrConn** - each system call of `conn_mgr_conn_new` is an action; the state of
  the handshake (`tcp`) and time (`Tick`, while in `poll`) belong to the environment.
* **ShmQueue** - `queue_add` is one step (the producer has the mutex and is alone in
  writing at that point), the reads and writes of `queue_delete` are separate steps
  because a restarted producer writes `head` and `tail` without the mutex. `Kill`
  puts a process to "off" wherever it is; semaphores and segment stay. **BoundedFifo**
  is what the queue is for.
* **MemPool** - a location is a number with the offset in its low `OffsetBits`; every
  sum and product is taken modulo `2^WordBits`. `meta` is the word at the head of each
  object.
  **MemPoolTests** drives it with the calls of the six tests, written as scripts, over
  pools of the tests' sizes: each test writes the index of an object into it. A create
  that returns NULL, which the tests do not look at, ends the program (`BeginNull`).
* **DiningPhilosophers** - one action per semaphore operation.
* **Supervisor** - `proc` is the state of every process, `table` and `active` the
  parent's globals, `inherited` the copy of the table a worker got from fork. A worker
  is "fresh" until it registers its own handlers: a signal to it then runs the
  parent's handler over its copy of the table. `ParentSignal` is a signal of the list
  in `register_all_signal_handler`; `ParentKilled` is one that is not in it (`SIGTERM`)
  or cannot be (`SIGKILL`): the workers then hear nothing and go on. `SIGCONT` is in
  the list: a worker that is continued has run `proxy_child_cleanup`, is "resumed"
  without its listening socket, and exits with 0 at its next `accept`
  (`AcceptFails`).
* **ProxyWorker** - `edge` is what epoll has still to report, `batch` what
  `epoll_wait` returned, `workq` the library's queue. A step on a `proxy_info` that is
  freed or that another thread is using, and a read through a `req_buf` that a
  `realloc` left behind, is undefined behaviour: the process becomes "undefined" and
  nothing more is said about it.
* **SpliceTunnel** - bytes are numbered in each direction. The pipe has room for
  `PipeSlots` buffers, as Linux has it: a buffer read in part still takes its place,
  so a pipe can be full with few bytes in it. `short` remembers that a splice to the
  client left bytes in the pipe. The server may send for ever: the model remembers the
  last `MaxBytes` bytes and renumbers them (`Shifted`).
* **LibeventServer** - `ev_read` and `ev_write` are the events added to the base,
  `active` those that one round of `event_base_dispatch` found ready and has still to
  call back. `Drop` is `conn_info_free` and `close`; `cinfo` and `leaked` say what
  became of the block. The three outcomes of `conn_info_new` are in `srvr_accept_cb`.
  A send to a client that has left may raise SIGPIPE and kill the server.
* **EpollServer** - `edges` is what epoll has still to report, `batch` what
  `epoll_wait` returned; a read loop is one action per `read`. `gaveUp` remembers that
  the accept loop was left on an error with connections in the backlog.
* **TcpEcho, UnixEcho, UdpEcho** - server, handler threads and clients with the data
  between them; TCP data is cut anywhere, datagrams are lost, overtake each other and are
  delivered again (`copied` counts how often). A UDP reply goes to `clt_addr`, what the
  server's `recvfrom` filled in.
  `UnixEcho` has the one `cliSock` that all handlers use, and marks (`foreign`,
  `overlap`) what comes of it. The sleep of an hour in the handler is an action of its
  own (`Wakes`).
* **BsonApi** - a caller with one variable for each kind of thing the API fills in;
  `heap` counts the blocks allocated, and `Reachable` those the caller knows of.
  Serialised bytes are tokens (length, elements, end). `reading` is a call of
  `bson_read_from_buffer` in progress, one action per document.
* **MongoApi** - threads that use one pool. The operations differ in the cursor and in
  the ttl that is refused early; their steps are `Pop`, `GetCollection`, `Operate`,
  `PushBack`, `DestroyCollection`, `DestroyCursor`.
* **IcapClient** - each program is a script of calls, `step` the next one; a failure
  exits or goes on as the program says. `connPool.c`, `getReqMod.c`, `postReqMod.c` and
  `respMod_nullBody.c` are disabled in the Makefile and were written for an earlier
  number of arguments of the library's functions: the model follows their order of
  calls. `kept` are the contexts whose disconnect failed, `lost` those whose variable
  `connPool.c` then overwrites. A receiver that `pthread_create` could not start is
  "absent", and the join of it undefined.
* **CondVar, AioCopy, IoctlDriver** - one action per critical section, per callback and
  per access to a shared word. In `AioCopy` `old` is the length of the copy before and
  `written` what `write` took. In `IoctlDriver` `raced` says that the last `TEST_SET` to
  start met another one, `mixed` are the users whose `TEST_GET` met a `TEST_SET` or its
  leftovers, and `failedAt` is the call of `driver_ioctl_init` that failed.
* **NetNamespace** - the parents of several instances, the count file, and the children
  that read `g_vethid` and `g_netcnt` when their sleep is over.

## Runs

| Run | Instance | What it shows |
|---|---|---|
| `pool_faults` | 3 threads, pool of 2, 3 connection identities, all faults | a connection is in one hand (`ExclusiveUse`), the bound holds (`PoolBound`), `NoLostWakeup` |
| `pool_liveness` | 3 threads, pool of 2, connects may fail | the pool accounts for each connection (`CapacityKept`); `PopReturns` |
| `pool_try_pop` | 2 threads, pool of 1 | expected violation: `try_pop` at the limit spins with the mutex instead of returning NULL |
| `conn_mgr_parts` | queue: 4 heap items, 2 data values; conn: 1 caller, 2 calls, timeout 2, 2 interrupts | `ListShape` and the refinement `ImplementsDeque`; `ConnNewSound` (no socket leaks, an established connection is blocking, time is bounded) and `NewReturns` |
| `conn_new_failed` | the same caller | expected violation: a connect that fails at once yields a conn object |
| `shm_kill_any` | producer, 2 consumers, ring of 2, any process killed once | `MutexExclusive`, `TokensNeverGrow`; `PrintEnds` and `ImplementsFifo` until a producer is started on a live segment; `EverybodyProgresses` while nobody is killed |
| `proxies` | supervisor: 2 workers, table of 3, 6 pids, 2 faults, 1 failed fork; tunnel: 4 bytes of the client, a window of 4 bytes of a server that may send for ever, pipe of 2 buffers, splices of up to 3 bytes | `WorkersAccounted` (table and count), `ShutdownReachesAll` (for the signals the parent handles), `CrashedIsReplaced`; `TunnelBytesIntact` (order; the client's end of stream last, the server's too unless a splice was short), `EverythingReleased` (but for two leaks), `RequestForwarded` (once the server pauses) |
| `proxy_worker` | 2 clients, 2 threads, buffer of 1 byte that doubles, queue of 2, 2 bytes and 1 departure in all | `NoEventLost`, `RequestsExact`, `SafeWithoutOverlap`, `ClientsServed` |
| `socket_servers` | 2 clients of each server (UDP: 1 and the multi-port program), 2 requests, chunks or lines; each datagram delivered up to twice | `LibEventsSound`, `LibRequestsAnswered`, `EpollNothingLost`, `EchoIntact` |
| `api_clients` | bson: 1 element, 2 documents, array of 1 that doubles; mongo: 3 threads, pools of 1 and 2; icap: all eight programs, pool of 3 | `BsonNothingLost`, `BsonReadsBack`, `MongoClientsKept`, `MongoPopReturns`, `IcapContextOutlivesReceiver` (with disconnects that fail) |
| `system_programs` | 5 philosophers; words of 10 bits, slabs of 64 bytes, 2 slabs (4 for the tests), 2 sizes and counts; count limit 3; files of up to 5 bytes with a buffer of 2, over no copy or one of 4; 3 users of the driver | `NoCircularWait`, `PhilEverybodyEats`, `MemPoolSound` (free list, slabs, NULL), `TestsKeepTheirObjects`, `CondMainCompletes`, `AioCopyIsWhole`, `IoctlPairsAreWhole` |
| `net_namespace` | 2 instances | expected violation: both are given the same count |

In the runs of an MC module with several components the variable `which` picks one of
them at the start of a behaviour; the others stay in their initial state, so that the
states add up and do not multiply.

The three expected violations are findings: a comment on each function states the
property that TLC refutes (`PROJECT.json`, "findings").

### Why the bounds are enough for the cases that matter

* Pool: three threads on a pool of two give a waiter, a holder and a thread that
  overtakes the woken waiter; the third identity lets a destroyed connection be
  replaced. `CapacityKept` and `PopReturns` are stated for callers that give back what
  they popped, as `test/test.c` does: the code does not promise them otherwise
  (a caller that destroys its connection, or a push without memory, costs a place).
* Queue: four items give lists with a first, an inner and a last item, and a freed
  address to reuse.
* Ring: size two separates empty, one and full and wraps on every second step; two
  consumers race for one value.
* `MemPool` keeps to sizes and counts whose product does not wrap the word. With a
  count of 64 the product of the adjusted size and the count wraps, the cap is not
  applied, and `SlabHoldsObjects` fails: that is a defect of the code
  (`argo_mem_pool.c:100`), recorded with the hazards. A count of 0 and an object larger
  than a slab are outside the constants as well. The 50 gets of `test6` meet the
  limit of four slabs of two objects, which the code has at a larger number, and from
  the ninth on return NULL.
* Supervisor: a ChildCount in 1..MAX_CHILD, for which the number of workers created
  and the bound of the loops over the table agree. With 0 or more than MAX_CHILD
  (`proxy_config.c:76` admits both) only the creation clamps it, and the loops look at
  no slot, or past the table. `himproxy/main.c` never sets its `g_num_child` and
  always runs in that case. Two faults allow a crash during the restart of another worker.
* Tunnel: three bytes fill a pipe of two buffers so that it stays full after a short
  splice, and the fourth keeps the server's socket readable meanwhile. The server is
  not bounded: what has reached the client leaves the window.
* Proxy worker: two bytes are a request and the start of another, two requests, or a
  request in two pieces; a buffer of one byte doubles in each of these cases.
* Servers: two clients are one that is served and one that arrives, sends or leaves
  meanwhile; two requests or chunks are one read and one that comes after the read that
  found nothing. A line of 2 with receives of 2 is cut and joined. UDP: each of the
  three senders sends one datagram, so that several are on the way to one server, and
  the network delivers each up to twice; the theorem has no bound on either.
* bson: an array of documents of size 1 grows with the first document; the limit of a
  read takes every value up to the length of the buffer.
* mongo: three threads on a pool of one or two wait for each other; a worker does one
  operation, as nothing of it survives into the next but the clients in the pool.
* ICAP: a pool of three has a first, a middle and a last context; the code has five.
  The property needs two at least, as `test2` gives back the first and the last.
* aio: files of 0, 1, 3 and 5 bytes are empty, smaller than the buffer, and need one
  and two reallocs; an old copy of 4 is longer than some and shorter than others.
* Driver: three users are one that sets, one that sets something else and one that gets
  or, after the race of these two, sets again alone.

### Fairness

* Pool: weak fairness of each thread inside the library, strong fairness of taking the
  mutex (a thread that finds it free again and again gets it), and callers that hold a
  connection push it. Nothing is assumed of a thread that is outside.
* `conn_new`: the caller runs, and time passes inside `poll`; the peer may stay silent.
* Ring: every process runs, and a semaphore does not pass over a waiting process for
  ever.
* Philosophers and `CondVar`: every thread runs; weak fairness is enough, as each eats (or
  counts) a fixed number of times, and a signalled thread gets the mutex.
* Supervisor: the parent runs. Nothing is assumed of the workers or the signals.
* Tunnel: the thread that has the connection runs. Nothing is assumed of the client.
  `RequestForwarded` has a hypothesis on the server: from some time on it sends nothing
  more. `make_splice` returns to the poll loop only when the server's socket is empty
  or the pipe full, so a server that never pauses does starve the client's request.
* Servers: the event loop of `LibeventServer` goes on while an event is ready. Clients
  may stay silent or leave, but the send buffer has room for the answers: a client that
  does not read is left out.
* `MongoApi`: the threads run.
* Proxy worker: the main thread, the poller and each thread of the queue run. Nothing
  is assumed of clients.

## Proofs

Checked by TLAPS for every value of the constants that the named `ASSUME`s allow; TLC
evaluates these on the instances of the runs. Almost none of the properties is
inductive as it stands: each proof module defines the inductive invariant (`...Inv`, a
conjunction of named parts), shows that `Init` establishes it and that each action
preserves it, action by action, and derives the property.

* **ConnMgrPoolProofs** (`PoolConstants`) - `PoolTyped`, `PoolExclusive`,
  `PoolBounded`, `PoolWaits`, `PoolConnects`, `PoolWakes`, `PoolKeepsCapacity`. `TypeOK`
  with the ownership of the mutex is not inductive alone: `Inv` adds `Pending`, which
  says what a thread in the middle of a connect or of a push has established (queue
  empty and `size < MaxPoolSize`; it holds a connection), because the mutex keeps it
  true across the connect. On top of it `ExclusiveUse`, `PoolBound`,
  `WaitsOnlyWhenFull` and `NoLostWakeup` are each inductive; the last counts the
  threads on their way (`Takers`) against the queue, and the step that needs the
  argument is `push`, which moves one waiter to the takers for the one connection it
  adds. `PoolConnects` is an action property (`ConnectsOnlyWhenNoneIdle`) that follows
  from `Pending`. `PoolKeepsCapacity` has a hypothesis, `CarefulUsers`: nobody calls
  `try_pop`, destroys what it popped or runs out of memory in `push`, which is the
  instance of `pool_liveness`; without it the code does lose capacity. It needs
  `PopsEmptyHanded` besides: a thread waiting in `pop` holds nothing.
* **ConnMgrPartsProofs** (`QueueConstants`, `ConnConstants`) - `QueueTyped`,
  `QueueShaped`, `QueueImplementsDeque`, `ConnNewIsSound`. The invariant of the queue is
  `Shape`: some sequence lists the live items from head to tail. Each operation is shown
  to turn a witness into a witness (`PushHeadChain`, `PushTailChain`, `PopHeadChain`);
  `ShapeBounded` gets from sequences of any length to the bounded quantifier that TLC
  can evaluate. For the refinement the recursive function `Walk` has to be known in
  full: `OneWalk` shows by a least counterexample that its equation has one solution,
  `WalkIsList` that the witness gives it; with that the abstract sequence is the data
  along the witness (`SeenIsData`), and each operation on the pointers is one on the
  sequence (`StepDeque`). `ConnInv` says for each place in `conn_mgr_conn_new` in which
  mode the socket is and what the handshake has come to, and adds up the time spent in
  `poll`.
* **ShmQueueProofs** (`ShmConstants`) - `ShmTyped`, `ShmExclusive`, `ShmTokens`:
  counting arguments over the processes in a critical section and in flight, with
  kills. `ShmPrintEnds` and `ShmImplementsFifo` rest on `ShmShape`, what the indices may
  be while somebody has the mutex: a consumer killed between the two assignments that
  empty the ring leaves `head` at -1 and `tail` in the ring, but takes the mutex with
  it. The abstract queue is `RingOf`, the values from head to tail; `RingPut`,
  `RingGet` and `RingOne` are the arithmetic modulo the size.
* **SystemProgramsProofs** (`NAssumption`, `AioConstants`, `MemConstants`) - `PhilosophersTyped`,
  `ForksAreExclusive`, `NeverCircular`: seats taken and the value of `lock` add up to
  N - 1. `IoctlKeepsPairs`: `IoctlWhole` follows a `TEST_SET` between its two words,
  `IoctlWords` says that a torn pair is still made of words that were set, and a module
  in use cannot be unloaded. `AioCopiesWholeFile`: the buffer always holds the
  first `aio_offset` bytes of the file, and the room left before a read is never zero
  because the doubling comes first; the copy follows from what `write` took and what
  was there (`OverWritten`, `OverAll`). `MemPoolIsSound` (`MemConstants`: sizes and counts
  that do not wrap the word when they are adjusted and multiplied, an object that fits
  in a slab; with a count that wraps the code does go wrong, see the bounds): `MemInv`
  says that some sequence is the free list (`Chained`): it has each object nobody holds
  once, the word at each is the location of the next, the last word ends the list, and
  the word at an object in use is its own location, which is what `put` relies on. That
  packing and unpacking a location are inverse is arithmetic of division (`PlaceWord`,
  `EndWord`); that following the words gives exactly that sequence is `ChainExact`,
  by the least place where it would not. `Limited` is the bound on slabs. `TestsKeep`:
  `KeepInv` says that what a test has still to do fits what it holds (`Lead`: it puts
  only what it has and gets only into a free index), so the object that `get` returns is
  never one that the test is still using; that each of the six scripts leads from
  nothing held to its end is shown script by script.
* **ProxiesProofs** (`SupervisorConstants`, `TunnelConstants`) -
  `WorkersAreAccounted`, `ShutdownReaches`: `SupInv` says which slot a pending `fork`
  is for, that no pid is in two places and that the parent has each worker not yet
  reaped in its table or in `forked`; the count follows from the cardinality of these.
  `ShutdownReaches` is about a parent that ends by a signal it handles.
  `TunnelKeepsBytes`, `TunnelReleases`: `TunnelInv` adds that `recv` is only called with
  an empty buffer, that the pipe is empty before each splice into it unless a splice
  was short, and what is still open at each step of the way out.
* **ProxyWorkerProofs** (`WorkerConstants`) - `EventsAreKept`, `RequestListExact`,
  `ApartIsSafe`, from `WInv`. `WEvents` says where an event can be (epoll's list, the
  poller's batch, the work queue, a thread that has not seen EAGAIN since); `WData` that
  what was received and what is still in the socket make up what was sent, and that
  the requests cut the received bytes without gap; `WApart` that, unless events
  overlapped, a client has only one of these places. All three speak of a process that
  runs: after undefined behaviour nothing is claimed.
* **SocketServersProofs** (`EpollConstants`, `TcpConstants`, `UnixConstants`,
  `UdpConstants`) - `LibServerIsSound`, `EpollLosesNothing`, `TcpEchoes`,
  `EchoesAreIntact`. `LibInv` ties events, blocks and sockets together (`LibLinked`)
  and has a write event stand for a request not yet answered (`LibDue`); `EpollInv`
  says where the notification for each readable descriptor is (`EpollNotified`) and
  accounts for its pieces (`EpollCounted`). For the echo servers the invariants put
  together what is in the two streams and in the hands of server and client; over the
  Unix socket, where all threads share `cliSock`, this is a conversation (`Talk`) that
  holds while connections do not overlap. For UDP, what a server has in its buffer and
  has sent back is counted against the deliveries, and `clt_addr` goes with `msg`.
* **ApiClientsProofs** (`IcapConstants`, `BsonConstants`) - `MongoKeepsClients`: every client the pool
  made is in it or with one worker (`MongoOwned`), and where a worker is says what it
  holds. `IcapKeepsContext`: the eight scripts have one of two shapes, `Simple` and
  `Pooled`, and from the place in the script follow the pool, the open contexts, those
  that failed to disconnect, and whether a receiver runs. `BsonReadsWritten`: `BsonInv` says that a nested value and a
  buffer hold what `Encode` made of some elements, and that a read in progress has read
  a beginning of the documents written and stands behind its bytes (`ReadAt`). One turn
  of the loop keeps that (`ReadsNext`) because the bytes that follow the documents read
  are those of the next one (`NextEncoded`), from what `FlattenSeq` joins (`Flattens`,
  `JoinsAlike`, `JoinsBegin`) and what decoding gives back (`DecodesEncoded`).
  `BsonLosesNothing` adds up, call by call, by how many blocks each variable of the
  caller grows or shrinks, against what the call allocates or frees (`Balance`); the one
  exception is the end of a read that failed with documents already read.

Where a fact is an induction over a sequence (`OneWalk`, `ChainExact`, `JoinsAlike`, ...)
the proofs take the least place where it would fail (`Least`), as the library's
induction theorems have an operator parameter that the provers cannot instantiate.

Only model-checked: liveness (`PopReturns`, `NewReturns`, `EverybodyProgresses`,
`PhilEverybodyEats`, `CrashedIsReplaced`, `RequestForwarded`, `ClientsServed`,
`LibRequestsAnswered`, `MongoPopReturns`, `CondMainCompletes`), which is out of the
prover's reach: it rests on fairness, and on `ENABLED` in it.

## What the models leave out

* Logging, command lines and configuration; the text of messages and requests.
* Reuse of pids, descriptors and of the addresses of `proxy_info`: with it the
  undefined behaviour that `ProxyWorker` reports would have further consequences.
* In `UdpEcho`, the byte after a datagram of the full buffer (`udp_server.c:77`), and in
  `NetNamespace` the length of a command of the child's shell.
* Failures that leave nothing to say more about: a `strdup` without memory in
  `BsonApi`; in `MongoApi` which step of the initialisation failed (nothing is left
  behind in any case); in `EpollServer` a short write to standard output
  (`epoll.c:243`).
* A kill between the assignments of `queue_add` in `ShmQueue`: the process holds the
  mutex, which dies with it, so nobody sees the indices it leaves.
* Job-control signals to the supervisor's parent (`SIGTSTP`, `SIGTTIN`, `SIGTTOU`,
  `SIGCONT`), whose handler sends them to the workers and stops or continues itself,
  and the stop of a worker that has not yet its own handlers.
* In `LibeventServer`, a client that does not read and fills the server's send buffer.
* Memory ordering: shared variables outside a lock are read and written in some order.
* In `ConnMgrConn`, two callers at once: that `conn_mgr_conn_errno` is one variable for
  all threads, which overwrite each other's codes, is recorded as a hazard.
* The libraries behind `WorkQAdd`, `http_parse_request`, libevent, libbson, libmongoc,
  the ICAP client, epoll, sockets, semaphores, asynchronous I/O and splice, which appear as what their callers can observe of them.
