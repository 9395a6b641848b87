---------------------------- MODULE MCApiClients -----------------------------
(***************************************************************************)
(* One run for the three client libraries and programs: a behaviour is one *)
(* of BsonApi, MongoApi or IcapClient, and leaves the others' variables at *)
(* their initial values.                                                   *)
(***************************************************************************)
EXTENDS Naturals

CONSTANTS
    BSON_ARRAY_SIZE, NumberTypes, Scalars, MaxElements, MaxDocs,
    Workers, MinSizes, MaxSizes, DEFAULT_MIN_SIZE, DEFAULT_MAX_SIZE, MaxOps,
    POOL_SIZE, Programs

\* The pool of connPool.c has several contexts, and the programs are the ones of icap-client-testing.
ASSUME IcapConstants ==
    /\ POOL_SIZE \in Nat \ {0, 1}
    /\ Programs \subseteq {"resp_mod", "preview", "my", "options_req", "get_req_mod",
                           "resp_mod_null_body", "post_req_mod", "conn_pool"}

\* The number types of bson_api own no block; sizes are numbers.
ASSUME BsonConstants ==
    /\ NumberTypes \subseteq {"int32", "int64", "double"}
    /\ MaxElements \in Nat /\ BSON_ARRAY_SIZE \in Nat

VARIABLES
    which,
    val, vals, elems, bdoc, docs, buf, written, json, reading, heap,
    main, limits, live, idle, made, pc, op, client, coll, cursor, ops,
    program, step, exit, pool, open, kept, lost, talk, receiver, tData, flag

Bson == INSTANCE BsonApi
Mongo == INSTANCE MongoApi
Icap == INSTANCE IcapClient

bson_vars == <<val, vals, elems, bdoc, docs, buf, written, json, reading, heap>>
mongo_vars == <<main, limits, live, idle, made, pc, op, client, coll, cursor, ops>>
icap_vars == <<program, step, exit, pool, open, kept, lost, talk, receiver, tData, flag>>
vars == <<which, bson_vars, mongo_vars, icap_vars>>

Init ==
    /\ which \in {"bson", "mongo", "icap"}
    /\ Bson!Init /\ Mongo!Init /\ Icap!Init
    /\ which # "icap" => program = "my"

\* The component that runs, and what stays as it is.
InBson == which = "bson" /\ UNCHANGED <<which, mongo_vars, icap_vars>>
InMongo == which = "mongo" /\ UNCHANGED <<which, bson_vars, icap_vars>>
InIcap == which = "icap" /\ UNCHANGED <<which, bson_vars, mongo_vars>>

Next == (InBson /\ Bson!Next) \/ (InMongo /\ Mongo!Next) \/ (InIcap /\ Icap!Next)

\* Threads go on running.
Spec ==
    /\ Init /\ [][Next]_vars
    /\ \A w \in Workers : WF_vars(InMongo /\ Mongo!Step(w))

-----------------------------------------------------------------------------
(* Properties, each of one of the components *)

\* bson_api.c: no call loses a block or frees one twice, but for a failed read.
BsonNothingLost == [][Bson!NothingLost]_bson_vars

\* bson_api.c: what was written is what is read.
BsonReadsBack == [][Bson!ReadsBack]_bson_vars

\* mongo_api.c: two threads meet on a client only in the clean-up of one of
\* them, and everything is given back when the pool is destroyed.
MongoClientsKept == Mongo!SharedOnlyInCleanup /\ Mongo!AllGivenBack

\* mongo_api.c: a thread that asks for a client gets one.
MongoPopReturns == \A w \in Workers : pc[w] = "pop" ~> pc[w] # "pop"

\* The ICAP programs: no receive on a context that is gone, and a pool is freed
\* with no thread left and no context out but those that failed to disconnect.
IcapContextOutlivesReceiver == Icap!ContextOutlivesReceiver

==============================================================================
