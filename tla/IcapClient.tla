----------------------------- MODULE IcapClient ------------------------------
(***************************************************************************)
(* The programs of src/networking/icap-client-testing, each a sequence of  *)
(* calls of the icap_client library with a second thread that receives the *)
(* answer.  A program is given as its script: the calls its main makes, in *)
(* order.  A call that fails ends the program with exit(1) where the code  *)
(* says so, which ends the receiver too.                                   *)
(*                                                                         *)
(* The library and the ICAP server are external: a pool of contexts, calls *)
(* that may fail, a receive that ends with the answer or with an error     *)
(* (the server closed, a timeout).  The conversation is the one on the     *)
(* first context.                                                          *)
(***************************************************************************)
EXTENDS Integers, Sequences, FiniteSets

CONSTANTS
    POOL_SIZE,   \* contexts in the pool of conn_pool, 5 in the code, at least 2
    Programs     \* the programs to run

VARIABLES
    program, step,   \* the running program and the call it makes next
    exit,            \* "running", 0 as "ok", 1 as "failed", or "crashed"
    pool,            \* "none", "ready" or "freed"
    open,            \* the variables whose context is connected
    kept,            \* the variables whose context once failed to disconnect
    lost,            \* connected contexts whose variable was overwritten
    talk,            \* the conversation: "idle", "body", "asked", "preview", "answered", "closed"
    receiver,        \* the thread: "none", "receiving", "done", or "absent" when
                     \* pthread_create failed
    tData,           \* the ThreadData blocks allocated
    flag             \* conn_pool: a connect met the limit of the pool

contexts == <<open, kept, lost>>
vars == <<program, step, exit, pool, contexts, talk, receiver, tData, flag>>

\* A call whose failure ends the program, and one whose failure is only reported.
Must(call) == [call |-> call, i |-> 1, must |-> TRUE]
May(call, i) == [call |-> call, i |-> i, must |-> FALSE]

Open == <<Must("init"), Must("connect")>>
Close == <<Must("join"), May("disconnect", 1), Must("free")>>
Body == <<Must("chunk"), Must("chunk"), Must("last")>>

\* respMod.c starts the receiver before it sends; respMod_preview.c waits for the
\* answer to the preview first; the others send the headers first.
resp_mod == Open \o <<Must("spawn"), Must("headers_body")>> \o Body \o Close
preview == Open \o <<Must("chunked"), Must("headers_body"), Must("preview"), Must("spawn")>>
             \o Body \o Close
my == Open \o <<Must("spawn"), Must("headers")>> \o Close
options_req == Open \o <<Must("options"), Must("spawn")>> \o Close
get_req_mod == Open \o <<Must("headers"), Must("spawn")>> \o Close
resp_mod_null_body == Open \o <<Must("headers"), Must("spawn")>> \o Close
post_req_mod == Open \o <<Must("headers_body"), Must("spawn"), Must("last")>> \o Close

\* connPool.c: test1 asks for the options; test2 connects once too often, frees
\* two contexts, connects two, and disconnects all.
pool_test1 == <<Must("connect"), Must("options"), Must("spawn"), Must("join"), Must("disconnect")>>
pool_test2 ==
    [i \in 1..POOL_SIZE + 1 |-> May("connect", i)]
      \o <<May("disconnect", 1), May("disconnect", POOL_SIZE),
           May("connect", 1), May("connect", POOL_SIZE)>>
      \o [i \in 1..POOL_SIZE + 1 |-> May("disconnect", i)]
      \o <<Must("check_flag")>>
conn_pool == <<Must("init")>> \o pool_test1 \o pool_test2 \o <<Must("free")>>

Script ==
    [resp_mod |-> resp_mod, preview |-> preview, my |-> my, options_req |-> options_req,
     get_req_mod |-> get_req_mod, resp_mod_null_body |-> resp_mod_null_body,
     post_req_mod |-> post_req_mod, conn_pool |-> conn_pool][program]
PoolSize == IF program = "conn_pool" THEN POOL_SIZE ELSE 1

Init ==
    /\ program \in Programs
    /\ step = 1 /\ exit = "running"
    /\ pool = "none" /\ open = {} /\ kept = {} /\ lost = 0
    /\ talk = "idle" /\ receiver = "none" /\ tData = 0
    /\ flag = FALSE

Calls(call) == exit = "running" /\ step <= Len(Script) /\ Script[step].call = call
i == Script[step].i
Returns == step' = step + 1 /\ UNCHANGED exit
\* The call fails: exit(1), or the next call.
Fails == IF Script[step].must THEN exit' = "failed" /\ UNCHANGED step ELSE Returns

icapInitContextPool ==
    /\ Calls("init")
    /\ \/ pool' = "ready" /\ Returns
       \/ Fails /\ UNCHANGED pool
    /\ UNCHANGED <<program, contexts, talk, receiver, tData, flag>>

HasContext == Cardinality(open) + lost < PoolSize

\* Without a free context the answer is ICAP_ERR_TOO_MANY_CONNECTIONS.  The
\* variable is overwritten, whatever it held.
icapConnect ==
    /\ Calls("connect")
    /\ \/ /\ HasContext
          /\ open' = open \cup {i}
          /\ lost' = IF i \in open THEN lost + 1 ELSE lost
          /\ talk' = "idle"
          /\ Returns
          /\ UNCHANGED flag
       \/ /\ Fails
          /\ flag' = (flag \/ ~HasContext)
          /\ UNCHANGED <<open, lost, talk>>
    /\ UNCHANGED <<program, pool, kept, receiver, tData>>

\* formChunkedData of 1024 bytes always succeeds.
formChunkedData ==
    /\ Calls("chunked")
    /\ Returns
    /\ UNCHANGED <<program, pool, contexts, talk, receiver, tData, flag>>

\* What the server knows after a send; a connection it closed stays closed.
Sent == IF Script[step].call \in {"headers_body", "chunk"} THEN "body" ELSE "asked"

\* icapSendHeaders, icapSendOptionsRequest, icapSendData
icapSend ==
    /\ \E call \in {"headers", "headers_body", "options", "chunk", "last"} : Calls(call)
    /\ \/ Returns /\ talk' = IF talk = "closed" THEN talk ELSE Sent
       \/ Fails /\ UNCHANGED talk
    /\ UNCHANGED <<program, pool, contexts, receiver, tData, flag>>

\* icapSendPreviewAndWait: the program goes on only after 100 Continue.
icapSendPreview ==
    /\ Calls("preview") /\ talk = "body"
    /\ talk' = "preview"
    /\ UNCHANGED <<program, step, exit, pool, contexts, receiver, tData, flag>>
PreviewAnswered ==
    /\ Calls("preview")
    /\ \/ talk = "preview" /\ talk' = "body" /\ Returns
       \/ Fails /\ UNCHANGED talk
    /\ UNCHANGED <<program, pool, contexts, receiver, tData, flag>>

\* pthread_create of the receiver, whose result nobody looks at
Spawn ==
    /\ Calls("spawn")
    /\ receiver' \in {"receiving", "absent"}
    /\ tData' = tData + 1
    /\ Returns
    /\ UNCHANGED <<program, pool, contexts, talk, flag>>

\* icapReceiveData ends, with the answer or with an error; after an error the
\* block of the thread is not freed.
receiver_returns ==
    /\ exit = "running" /\ receiver = "receiving"
    /\ receiver' = "done"
    /\ tData' = IF talk = "answered" THEN tData - 1 ELSE tData
    /\ UNCHANGED <<program, step, exit, pool, contexts, talk, flag>>

\* Bug: the receiver is detached instead of joined.
Detach ==
    /\ Calls("join")
    /\ Returns
    /\ UNCHANGED <<program, pool, contexts, talk, receiver, tData, flag>>

\* pthread_join; without a thread its argument is not initialized, and the call
\* may return, crash or never end.
Join ==
    /\ Calls("join") /\ receiver \in {"done", "absent"}
    /\ receiver' = "none"
    /\ \/ Returns
       \/ receiver = "absent" /\ exit' = "crashed" /\ UNCHANGED step
    /\ UNCHANGED <<program, pool, contexts, talk, tData, flag>>

\* A context that is not connected is an error, and one that is may fail to
\* disconnect.  test1 of connPool.c has no return after its call: what main reads
\* as the result may be an error even though the call succeeded.
icapDisconnect ==
    /\ Calls("disconnect")
    /\ \/ /\ i \in open
          /\ open' = open \ {i} /\ UNCHANGED kept
          /\ Returns \/ Fails
       \/ /\ Fails
          /\ kept' = (IF i \in open THEN kept \cup {i} ELSE kept)
          /\ UNCHANGED open
    /\ UNCHANGED <<program, pool, lost, talk, receiver, tData, flag>>

\* test2 fails unless some connect met the limit.
CheckFlag ==
    /\ Calls("check_flag")
    /\ IF flag THEN Returns ELSE Fails
    /\ UNCHANGED <<program, pool, contexts, talk, receiver, tData, flag>>

icapFreeContextPool ==
    /\ Calls("free")
    /\ \/ pool' = "freed" /\ Returns
       \/ Fails /\ UNCHANGED pool
    /\ UNCHANGED <<program, contexts, talk, receiver, tData, flag>>

\* main returns 0.
End ==
    /\ exit = "running" /\ step > Len(Script)
    /\ exit' = "ok"
    /\ UNCHANGED <<program, step, pool, contexts, talk, receiver, tData, flag>>

\* The server answers a complete request, or closes the connection.
Server ==
    /\ exit = "running"
    /\ \/ talk = "asked" /\ talk' = "answered"
       \/ talk \in {"body", "asked", "preview"} /\ talk' = "closed"
    /\ UNCHANGED <<program, step, exit, pool, contexts, receiver, tData, flag>>

Main == icapInitContextPool \/ icapConnect \/ formChunkedData \/ icapSend \/ icapSendPreview
          \/ PreviewAnswered \/ Spawn \/ Join \/ icapDisconnect \/ CheckFlag
          \/ icapFreeContextPool \/ End

Next == Main \/ receiver_returns \/ Server

Spec == Init /\ [][Next]_vars

-----------------------------------------------------------------------------
(* Properties *)

\* In no program does the receiver outlive the context it receives on.  The pool
\* is freed only when no thread is left, and with no context out but those whose
\* own disconnect failed, which the programs only report.
ContextOutlivesReceiver ==
    /\ receiver = "receiving" /\ exit = "running" => 1 \in open /\ pool = "ready"
    /\ pool = "freed" =>
          /\ receiver = "none"
          /\ open \subseteq kept
          /\ kept = {} => lost = 0

==============================================================================
