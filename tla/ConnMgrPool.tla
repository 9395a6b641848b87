----------------------------- MODULE ConnMgrPool -----------------------------
(***************************************************************************)
(* The connection pool of src/networking/conn_mgr (conn_mgr_pool.c): a     *)
(* mutex, a condition variable, a LIFO queue of idle connections and the   *)
(* number of connections created so far, shared by the threads that call   *)
(* conn_mgr_pool_pop, conn_mgr_pool_try_pop and conn_mgr_pool_push.        *)
(*                                                                         *)
(* Threads play the part of pool_worker of test/test.c: a thread holds at  *)
(* most one connection and asks for another only after giving it back.     *)
(* The queue is the sequence ConnMgrQueue is shown to implement; what      *)
(* conn_mgr_conn_new does before it answers is the subject of ConnMgrConn. *)
(***************************************************************************)
EXTENDS Naturals, Sequences, FiniteSets

CONSTANTS
    Threads,        \* the threads that share the pool
    Conns,          \* identities of connection objects
    NULL,           \* the null pointer
    MaxPoolSize,    \* max_pool_size
    MaxCalls,       \* bound: pop calls a thread makes before it is joined
    TryPoppers,     \* threads that also call conn_mgr_pool_try_pop
    Destroyers,     \* threads that may destroy a connection they popped
    MallocMayFail   \* whether malloc of a queue item may return NULL

ASSUME PoolConstants ==
    /\ IsFiniteSet(Threads)
    /\ IsFiniteSet(Conns)
    /\ NULL \notin Threads \cup Conns
    /\ MaxPoolSize \in Nat
    /\ MaxCalls \in Nat
    /\ TryPoppers \subseteq Threads
    /\ Destroyers \subseteq Threads
    /\ MallocMayFail \in BOOLEAN

VARIABLES
    pool,    \* "live" until conn_mgr_pool_destroy
    mutex,   \* the thread that holds pool->mutex, or NULL
    queue,   \* pool->queue, head first
    size,    \* pool->size
    open,    \* connection objects that exist, their fd open
    pc,      \* where each thread is
    conn,    \* the thread's connection, or NULL
    calls    \* pop calls the thread has made

vars == <<pool, mutex, queue, size, open, pc, conn, calls>>

\* Places where a thread owns the mutex.
Critical == {"pop_loop", "connecting", "try_loop", "try_connecting",
             "push_crit", "unlock"}
\* Places where a thread is about to lock the mutex; "woken" is a thread that
\* pthread_cond_wait has to give the mutex back to.
Locking == {"pop_lock", "woken", "try_lock", "push_lock"}
PCs == {"idle", "waiting"} \cup Locking \cup Critical

AfterLock == [pop_lock |-> "pop_loop", woken |-> "pop_loop",
              try_lock |-> "try_loop", push_lock |-> "push_crit"]

QueueSet == {queue[i] : i \in 1..Len(queue)}
Waiting == {t \in Threads : pc[t] = "waiting"}

\* conn_mgr_pool_new: an empty pool; connections are made on demand.
Init ==
    /\ pool = "live"
    /\ mutex = NULL
    /\ queue = <<>>
    /\ size = 0
    /\ open = {}
    /\ pc = [t \in Threads |-> "idle"]
    /\ conn = [t \in Threads |-> NULL]
    /\ calls = [t \in Threads |-> 0]

Goto(t, there) == pc' = [pc EXCEPT ![t] = there]

(***************************************************************************)
(* The mutex.  Lock also is the second half of pthread_cond_wait.          *)
(***************************************************************************)
Lock(t) ==
    /\ pc[t] \in Locking
    /\ mutex = NULL
    /\ mutex' = t
    /\ Goto(t, AfterLock[pc[t]])
    /\ UNCHANGED <<pool, queue, size, open, conn, calls>>

\* pthread_mutex_unlock and the return to the caller.
Unlock(t) ==
    /\ pc[t] = "unlock"
    /\ mutex' = NULL
    /\ Goto(t, "idle")
    /\ UNCHANGED <<pool, queue, size, open, conn, calls>>

(***************************************************************************)
(* conn_mgr_pool_pop                                                       *)
(***************************************************************************)
PopCall(t) ==
    /\ pool = "live"
    /\ pc[t] = "idle"
    /\ conn[t] = NULL
    /\ calls[t] < MaxCalls
    /\ calls' = [calls EXCEPT ![t] = @ + 1]
    /\ Goto(t, "pop_lock")
    /\ UNCHANGED <<pool, mutex, queue, size, open, conn>>

\* Bug: the connection is read but not removed from the queue.
TakePeeks(t) ==
    /\ queue # <<>>
    /\ conn' = [conn EXCEPT ![t] = Head(queue)]
    /\ Goto(t, "unlock")
    /\ UNCHANGED <<pool, mutex, queue, size, open, calls>>

\* conn_mgr_queue_pop_head answered with a connection: the loop ends.
Take(t) ==
    /\ queue # <<>>
    /\ conn' = [conn EXCEPT ![t] = Head(queue)]
    /\ queue' = Tail(queue)
    /\ Goto(t, "unlock")
    /\ UNCHANGED <<pool, mutex, size, open, calls>>

PopTake(t) == pc[t] = "pop_loop" /\ Take(t)

\* Bug: the limit is compared with <=.
PopConnectOffByOne(t) ==
    /\ pc[t] = "pop_loop"
    /\ queue = <<>>
    /\ size <= MaxPoolSize
    /\ Goto(t, "connecting")
    /\ UNCHANGED <<pool, mutex, queue, size, open, conn, calls>>

\* The queue is empty and the pool may grow: conn_mgr_conn_new is called with
\* the mutex held.
PopConnect(t) ==
    /\ pc[t] = "pop_loop"
    /\ queue = <<>>
    /\ size < MaxPoolSize
    /\ Goto(t, "connecting")
    /\ UNCHANGED <<pool, mutex, queue, size, open, conn, calls>>

\* Bug: size counts failed attempts too, as in try_pop.
PopConnectedCountsFailures(t) ==
    /\ pc[t] = "connecting"
    /\ \/ \E c \in Conns \ open :
            /\ open' = open \cup {c}
            /\ conn' = [conn EXCEPT ![t] = c]
       \/ UNCHANGED <<open, conn>>
    /\ size' = size + 1
    /\ Goto(t, "unlock")
    /\ UNCHANGED <<pool, mutex, queue, calls>>

\* conn_mgr_conn_new returns a connection, or NULL; only the first is counted.
PopConnected(t) ==
    /\ pc[t] = "connecting"
    /\ \/ \E c \in Conns \ open :
            /\ open' = open \cup {c}
            /\ conn' = [conn EXCEPT ![t] = c]
            /\ size' = size + 1
       \/ UNCHANGED <<open, conn, size>>
    /\ Goto(t, "unlock")
    /\ UNCHANGED <<pool, mutex, queue, calls>>

\* The queue is empty and the pool is at its limit: pthread_cond_wait.
PopWait(t) ==
    /\ pc[t] = "pop_loop"
    /\ queue = <<>>
    /\ size >= MaxPoolSize
    /\ mutex' = NULL
    /\ Goto(t, "waiting")
    /\ UNCHANGED <<pool, queue, size, open, conn, calls>>

\* POSIX lets pthread_cond_wait return without a signal.
SpuriousWake(t) ==
    /\ pc[t] = "waiting"
    /\ Goto(t, "woken")
    /\ UNCHANGED <<pool, mutex, queue, size, open, conn, calls>>

(***************************************************************************)
(* conn_mgr_pool_try_pop                                                   *)
(***************************************************************************)
TryCall(t) ==
    /\ pool = "live"
    /\ t \in TryPoppers
    /\ pc[t] = "idle"
    /\ conn[t] = NULL
    /\ calls[t] < MaxCalls
    /\ calls' = [calls EXCEPT ![t] = @ + 1]
    /\ Goto(t, "try_lock")
    /\ UNCHANGED <<pool, mutex, queue, size, open, conn>>

TryTake(t) == pc[t] = "try_loop" /\ Take(t)

TryConnect(t) ==
    /\ pc[t] = "try_loop"
    /\ queue = <<>>
    /\ size < MaxPoolSize
    /\ Goto(t, "try_connecting")
    /\ UNCHANGED <<pool, mutex, queue, size, open, conn, calls>>

\* The loop has no break: size counts the attempt whatever its outcome, and
\* the loop condition overwrites the pointer to the new connection.
TryConnected(t) ==
    /\ pc[t] = "try_connecting"
    /\ \/ \E c \in Conns \ open : open' = open \cup {c}
       \/ UNCHANGED open
    /\ size' = size + 1
    /\ Goto(t, "try_loop")
    /\ UNCHANGED <<pool, mutex, queue, conn, calls>>

\* At the limit the loop goes round with the mutex held.
TrySpin(t) ==
    /\ pc[t] = "try_loop"
    /\ queue = <<>>
    /\ size >= MaxPoolSize
    /\ UNCHANGED vars

(***************************************************************************)
(* conn_mgr_pool_push, and conn_mgr_conn_destroy called by the user of a   *)
(* connection.                                                             *)
(***************************************************************************)
PushCall(t) ==
    /\ pool = "live"
    /\ pc[t] = "idle"
    /\ conn[t] # NULL
    /\ Goto(t, "push_lock")
    /\ UNCHANGED <<pool, mutex, queue, size, open, conn, calls>>

\* Bug: push does not signal.
SignalForgotten(newPc) == pc' = newPc

\* pthread_cond_signal wakes one waiter, if there is one.
Signal(newPc) ==
    \/ /\ Waiting = {}
       /\ pc' = newPc
    \/ \E w \in Waiting : pc' = [newPc EXCEPT ![w] = "woken"]

\* conn_mgr_queue_push_head returns nothing: when malloc fails the connection
\* is in nobody's hands, and the signal is sent all the same.
PushHead(t) ==
    /\ pc[t] = "push_crit"
    /\ \/ queue' = <<conn[t]>> \o queue
       \/ MallocMayFail /\ UNCHANGED queue
    /\ conn' = [conn EXCEPT ![t] = NULL]
    /\ Signal([pc EXCEPT ![t] = "unlock"])
    /\ UNCHANGED <<pool, mutex, size, open, calls>>

\* A caller drops a connection it found broken: pool->size is not told.
ConnDestroy(t) ==
    /\ pool = "live"
    /\ t \in Destroyers
    /\ pc[t] = "idle"
    /\ conn[t] # NULL
    /\ open' = open \ {conn[t]}
    /\ conn' = [conn EXCEPT ![t] = NULL]
    /\ UNCHANGED <<pool, mutex, queue, size, pc, calls>>

\* conn_mgr_pool_destroy, called once the threads are joined: it takes no lock
\* and closes what is in the queue.
PoolDestroy ==
    /\ pool = "live"
    /\ \A t \in Threads : pc[t] = "idle" /\ conn[t] = NULL
    /\ pool' = "destroyed"
    /\ open' = open \ QueueSet
    /\ queue' = <<>>
    /\ UNCHANGED <<mutex, size, pc, conn, calls>>

\* The program has ended.
Finished == pool = "destroyed" /\ UNCHANGED vars

Step(t) ==
    \/ Lock(t) \/ Unlock(t)
    \/ PopTake(t) \/ PopConnect(t) \/ PopConnected(t) \/ PopWait(t)
    \/ TryTake(t) \/ TryConnect(t) \/ TryConnected(t) \/ TrySpin(t)
    \/ PushHead(t)

Call(t) == PopCall(t) \/ TryCall(t) \/ PushCall(t) \/ ConnDestroy(t)

Next ==
    \/ \E t \in Threads : Step(t) \/ Call(t) \/ SpuriousWake(t)
    \/ PoolDestroy
    \/ Finished

Spec == Init /\ [][Next]_vars

(***************************************************************************)
(* A thread that runs keeps running, the kernel gives a mutex that is      *)
(* released again and again to each thread that asks for it, and a worker  *)
(* gives its connection back (test.c sleeps two seconds and pushes).       *)
(* Nothing is assumed of new calls or of spurious wake-ups.                *)
(***************************************************************************)
FairSpec ==
    /\ Spec
    /\ \A t \in Threads : WF_vars(Step(t)) /\ SF_vars(Lock(t))
                          /\ WF_vars(PushCall(t))

-----------------------------------------------------------------------------
(* Properties *)

\* Every variable has its type, and the mutex is owned exactly by the thread
\* that is inside a critical section of conn_mgr_pool.c.
TypeOK ==
    /\ pool \in {"live", "destroyed"}
    /\ mutex \in Threads \cup {NULL}
    /\ queue \in Seq(Conns)
    /\ size \in Nat
    /\ open \subseteq Conns
    /\ pc \in [Threads -> PCs]
    /\ conn \in [Threads -> Conns \cup {NULL}]
    /\ calls \in [Threads -> Nat]
    /\ \A t \in Threads : pc[t] \in Critical <=> mutex = t

\* A connection is never in two hands: two threads never hold the same one, a
\* held one is not also in the queue, the queue does not list one twice, and
\* what is held or queued has not been destroyed.
ExclusiveUse ==
    /\ \A t, u \in Threads : conn[t] # NULL /\ conn[t] = conn[u] => t = u
    /\ \A t \in Threads : conn[t] \notin QueueSet
    /\ \A i, j \in 1..Len(queue) : queue[i] = queue[j] => i = j
    /\ QueueSet \subseteq open
    /\ \A t \in Threads : conn[t] # NULL => conn[t] \in open

\* No more than max_pool_size connections exist at any time, although the
\* check of pool->size and its increment are separated by a connect.
PoolBound == Cardinality(open) <= size /\ size <= MaxPoolSize

\* A signal is never lost: while a thread sleeps in pthread_cond_wait, every
\* connection in the queue has a thread on its way to take it.
Takers == {t \in Threads : pc[t] \in {"woken", "pop_lock", "pop_loop",
                                      "try_lock", "try_loop"}}
NoLostWakeup == Waiting # {} => Len(queue) <= Cardinality(Takers)

\* A thread sleeps only on a pool that has made all the connections it may:
\* pop never blocks while it could have connected.
WaitsOnlyWhenFull == Waiting # {} => size = MaxPoolSize

\* Without try_pop, malloc failures and callers that destroy connections, the
\* pool accounts for every connection it ever counted: each is open, and is in
\* the queue or with a thread.
CapacityKept ==
    pool = "live" =>
      /\ Cardinality(open) = size
      /\ open = QueueSet \cup ({conn[t] : t \in Threads} \ {NULL})

\* A connection is opened only when none is idle and the pool may still grow:
\* what the loop of pop checked before conn_mgr_conn_new still holds when the
\* call, which may take the whole connect timeout, comes back.
ConnectsOnlyWhenNoneIdle ==
    [][open' \ open # {} => queue = <<>> /\ size < MaxPoolSize]_vars

\* A call of conn_mgr_pool_pop returns, however the threads interleave.
PopReturns ==
    \A t \in Threads : pc[t] = "pop_lock" ~> pc[t] = "idle"

\* conn_mgr_pool.c:109, of try_pop: "Call will immediately return if there is
\* no free conn in the pool and NULL is returned".
TryPopReturns ==
    \A t \in Threads : pc[t] = "try_lock" ~> pc[t] = "idle"

==============================================================================
