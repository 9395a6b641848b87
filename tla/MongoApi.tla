------------------------------- MODULE MongoApi ------------------------------
(***************************************************************************)
(* src/mongo_api (mongo_api.c): a pool of mongo clients and the operations *)
(* on a collection, used the way test2 of its test does: the main thread   *)
(* makes the pool, starts the workers, joins them and destroys the pool.   *)
(*                                                                         *)
(* Every operation pops a client, gets a collection from it, operates on   *)
(* the collection, pushes the client back and only then destroys the       *)
(* collection (and the cursor), which still refer to the client.  The      *)
(* client pool is libmongoc's: pop makes a client until there are          *)
(* max_size, and then waits for a push.                                    *)
(***************************************************************************)
EXTENDS Integers, FiniteSets

CONSTANTS
    Workers,               \* the threads
    MinSizes, MaxSizes,    \* the arguments of mongo_context_pool_init
    DEFAULT_MIN_SIZE,
    DEFAULT_MAX_SIZE,      \* 1 and 10 in the code
    MaxOps                 \* bound: operations of one worker

Free == "free"
TTLs == {-1, 1}   \* the ttl arguments
NoClient == 0

VARIABLES
    main,      \* "start", "working", "joined" or "end"
    limits,    \* minPoolSize and maxPoolSize of the uri
    live,      \* what the main thread's calls have allocated
    idle,      \* the clients in the pool
    made,      \* how many clients the pool has made
    pc, op, client, coll, cursor,   \* each worker: place, operation, what it holds
    ops        \* operations each worker has begun

vars == <<main, limits, live, idle, made, pc, op, client, coll, cursor, ops>>
setup == <<main, limits, live>>

Init ==
    /\ main = "start"
    /\ limits = [min |-> 0, max |-> 0]
    /\ live = {}
    /\ idle = {} /\ made = 0
    /\ pc = [w \in Workers |-> "return"]
    /\ op = [w \in Workers |-> Free]
    /\ client = [w \in Workers |-> NoClient]
    /\ coll = [w \in Workers |-> NoClient]
    /\ cursor = [w \in Workers |-> NoClient]
    /\ ops = [w \in Workers |-> 0]

\* Bug: max_size is not given its default.
mongo_check_pool_params_no_max(min, max) ==
    [min |-> IF min <= 0 THEN DEFAULT_MIN_SIZE ELSE min, max |-> max]

\* mongo_check_pool_params
mongo_check_pool_params(min, max) ==
    LET lo == IF min <= 0 THEN DEFAULT_MIN_SIZE ELSE min
        hi == IF max <= 0 THEN DEFAULT_MAX_SIZE ELSE max
    IN  [min |-> IF lo > hi THEN hi ELSE lo, max |-> hi]

\* mongo_context_pool_init after mongo_api_init: the uri, the client pool and the
\* context are allocated in this order, and a failure undoes what was done.
mongo_context_pool_init(min, max) ==
    /\ main = "start"
    /\ \/ /\ limits' = mongo_check_pool_params(min, max)
          /\ live' = (live \cup {"library", "uri", "pool", "context"}) \ {"uri"}
          /\ main' = "working"
       \/ /\ main' = "end"
          /\ UNCHANGED <<limits, live>>
    /\ UNCHANGED <<idle, made, pc, op, client, coll, cursor, ops>>

Goto(w, there) ==
    /\ pc' = [pc EXCEPT ![w] = there]
    /\ op' = IF there = "return" THEN [op EXCEPT ![w] = Free] ELSE op

\* A worker calls an operation.
Call(w, name) ==
    /\ main = "working" /\ pc[w] = "return" /\ ops[w] < MaxOps
    /\ ops' = [ops EXCEPT ![w] = @ + 1]
    /\ op' = [op EXCEPT ![w] = name]
    /\ pc' = [pc EXCEPT ![w] = "pop"]
    /\ UNCHANGED <<setup, idle, made, client, coll, cursor>>

\* The operations take the same steps, on a collection they get by the same call;
\* one that changes the collection makes no cursor.
mongo_insert_doc(w) == Call(w, "change")
mongo_doc_remove(w) == Call(w, "change")
mongo_doc_update(w) == Call(w, "change")
mongo_doc_exists(w) == Call(w, "find")

\* A negative ttl is refused before a client is popped.
mongo_coll_create_ttl_index(w, ttl) == ttl >= 0 /\ Call(w, "change")

\* mongoc_client_pool_pop: an idle client, or a new one.
Pop(w) ==
    /\ pc[w] = "pop"
    /\ \/ \E c \in idle : /\ client' = [client EXCEPT ![w] = c]
                          /\ idle' = idle \ {c}
                          /\ UNCHANGED made
       \/ /\ idle = {} /\ made < limits.max
          /\ made' = made + 1
          /\ client' = [client EXCEPT ![w] = made']
          /\ UNCHANGED idle
    /\ Goto(w, "get")
    /\ UNCHANGED <<setup, coll, cursor, ops>>

\* pop returns NULL: MONGO_ERR_POOL_POP.
PopFails(w) ==
    /\ pc[w] = "pop"
    /\ Goto(w, "return")
    /\ UNCHANGED <<setup, idle, made, client, coll, cursor, ops>>

\* mongoc_client_pool_push
Push(w) ==
    /\ idle' = idle \cup {client[w]}
    /\ client' = [client EXCEPT ![w] = NoClient]

\* mongoc_client_get_collection; without one the client goes back.
GetCollection(w) ==
    /\ pc[w] = "get"
    /\ \/ /\ coll' = [coll EXCEPT ![w] = client[w]]
          /\ Goto(w, "operate")
          /\ UNCHANGED <<idle, client>>
       \/ /\ Push(w)
          /\ Goto(w, "return")
          /\ UNCHANGED coll
    /\ UNCHANGED <<setup, made, cursor, ops>>

\* insert, remove, update or create_index: success or failure, the same follows.
\* mongo_doc_exists finds a cursor and asks it for one document; without a cursor
\* it goes on as the others do.
Operate(w) ==
    /\ pc[w] = "operate"
    /\ \/ UNCHANGED cursor
       \/ op[w] = "find" /\ cursor' = [cursor EXCEPT ![w] = client[w]]
    /\ Goto(w, "push")
    /\ UNCHANGED <<setup, idle, made, client, coll, ops>>

\* Bug: a failed operation returns without the push.
PushBackMissed(w) ==
    /\ pc[w] = "push"
    /\ Push(w) \/ UNCHANGED <<idle, client>>
    /\ Goto(w, "destroy")
    /\ UNCHANGED <<setup, made, coll, cursor, ops>>

\* Bug: the client is pushed before the operation.
PushBackEarly(w) ==
    /\ pc[w] = "push"
    /\ Push(w)
    /\ Goto(w, "operate")
    /\ UNCHANGED <<setup, made, coll, cursor, ops>>

PushBack(w) ==
    /\ pc[w] = "push"
    /\ Push(w)
    /\ Goto(w, "destroy")
    /\ UNCHANGED <<setup, made, coll, cursor, ops>>

\* mongoc_collection_destroy, then mongoc_cursor_destroy.
DestroyCollection(w) ==
    /\ pc[w] = "destroy"
    /\ coll' = [coll EXCEPT ![w] = NoClient]
    /\ Goto(w, IF cursor[w] # NoClient THEN "destroy_cursor" ELSE "return")
    /\ UNCHANGED <<setup, idle, made, client, cursor, ops>>

DestroyCursor(w) ==
    /\ pc[w] = "destroy_cursor"
    /\ cursor' = [cursor EXCEPT ![w] = NoClient]
    /\ Goto(w, "return")
    /\ UNCHANGED <<setup, idle, made, client, coll, ops>>

\* pthread_join: every worker has returned from its last operation.
Join ==
    /\ main = "working"
    /\ \A w \in Workers : pc[w] = "return"
    /\ main' = "joined"
    /\ UNCHANGED <<limits, live, idle, made, pc, op, client, coll, cursor, ops>>

\* The pool destroys the clients that are in it; then mongo_api_cleanup.
mongo_context_pool_destroy ==
    /\ main = "joined"
    /\ main' = "end"
    /\ live' = live \ {"pool", "context", "library"}
    /\ made' = made - Cardinality(idle)
    /\ idle' = {}
    /\ UNCHANGED <<limits, pc, op, client, coll, cursor, ops>>

Step(w) == Pop(w) \/ GetCollection(w) \/ Operate(w) \/ PushBack(w)
             \/ DestroyCollection(w) \/ DestroyCursor(w)

Next ==
    \/ \E min \in MinSizes, max \in MaxSizes : mongo_context_pool_init(min, max)
    \/ \E w \in Workers :
         \/ mongo_insert_doc(w) \/ mongo_doc_remove(w) \/ mongo_doc_update(w) \/ mongo_doc_exists(w)
         \/ \E ttl \in TTLs : mongo_coll_create_ttl_index(w, ttl)
         \/ Step(w) \/ PopFails(w)
    \/ Join \/ mongo_context_pool_destroy

Spec == Init /\ [][Next]_vars

-----------------------------------------------------------------------------
(* Properties *)

\* Two threads have a hand on the same client only while one of them, having
\* pushed it back, destroys a collection or a cursor it made with it.
Touches(w) == {client[w], coll[w], cursor[w]} \ {NoClient}
SharedOnlyInCleanup ==
    \A v, w \in Workers : v # w /\ Touches(v) \cap Touches(w) # {} =>
        \E u \in {v, w} : client[u] = NoClient /\ pc[u] \in {"destroy", "destroy_cursor"}

\* Whatever failed on the way, when everything is destroyed no client, no
\* collection and no cursor of any worker is left.
AllGivenBack ==
    main = "end" => /\ live = {} /\ made = 0
                    /\ \A w \in Workers : coll[w] = NoClient /\ cursor[w] = NoClient

==============================================================================
