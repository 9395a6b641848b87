------------------------------ MODULE ShmQueue -------------------------------
(***************************************************************************)
(* The producer and the consumers of src/system/ipc/sharedmemory: a ring   *)
(* buffer in a System V shared memory segment and three named semaphores   *)
(* (full, empty, mutex), all of which outlive the processes.               *)
(*                                                                         *)
(* A process may be killed anywhere: its signal handler only detaches the  *)
(* segment and raises the signal again.  A producer that is started again  *)
(* runs queue_init on the live segment without the mutex, so the accesses  *)
(* of a consumer to head and tail are steps of their own.                  *)
(***************************************************************************)
EXTENDS Integers, Sequences, FiniteSets

CONSTANTS
    Producer,    \* the process shm_producer
    Consumers,   \* processes shm_consumer
    Values,      \* what rand() may return
    Size,        \* QUEUE_SIZE
    NULL,
    Mortals,     \* the processes that may be killed and started again
    MaxKills     \* bound: how many times that happens

ASSUME ShmConstants ==
    /\ IsFiniteSet(Consumers)
    /\ Producer \notin Consumers
    /\ NULL \notin Values
    /\ Size \in Nat \ {0}
    /\ Mortals \subseteq Consumers \cup {Producer}
    /\ MaxKills \in Nat

Processes == Consumers \cup {Producer}

VARIABLES
    segment,             \* "absent", "zeroed" by the kernel, "ready", or "reused"
                         \* by a producer that was started on a ready one
    arr, head, tail,     \* struct queue
    full, empty, mutex,  \* the semaphores
    pc,                  \* where each process is
    val,                 \* the producer's val
    got,                 \* the value each consumer deleted in this round
    seen,                \* the head each consumer saw when it tested it
    kills

queue == <<arr, head, tail>>
locals == <<val, got, seen>>
vars == <<segment, queue, full, empty, mutex, pc, locals, kills>>

\* Between sem_wait(mutex) and sem_post(mutex).
Critical == {"p_add", "p_print", "p_walk", "p_post_mutex",
             "c_test", "c_advance", "c_clear_head", "c_clear_tail",
             "c_print", "c_walk", "c_post_mutex"}
\* Between taking a token of one counting semaphore and giving it to the other.
InFlight == Critical \cup {"p_mutex", "p_post_full", "c_mutex", "c_post_empty"}
PCs == InFlight \cup {"off", "p_init_head", "p_init_tail", "p_produce",
                      "p_empty", "c_full", "c_done"}

Init ==
    /\ segment = "absent"
    /\ arr = [i \in 0..Size - 1 |-> NULL] /\ head = 0 /\ tail = 0
    /\ full = 0 /\ empty = Size /\ mutex = 1
    /\ pc = [p \in Processes |-> "off"]
    /\ val = NULL
    /\ got = [c \in Consumers |-> NULL]
    /\ seen = [c \in Consumers |-> 0]
    /\ kills = 0

Goto(p, from, to) == pc[p] = from /\ pc' = [pc EXCEPT ![p] = to]

(***************************************************************************)
(* The producer                                                            *)
(***************************************************************************)
StartProducer ==
    /\ Goto(Producer, "off", "p_init_head")
    /\ segment' = CASE segment = "absent" -> "zeroed"
                   [] segment = "ready" -> "reused"
                   [] OTHER -> segment
    /\ UNCHANGED <<queue, full, empty, mutex, locals, kills>>

InitHead ==
    /\ Goto(Producer, "p_init_head", "p_init_tail")
    /\ head' = -1
    /\ UNCHANGED <<segment, arr, tail, full, empty, mutex, locals, kills>>

InitTail ==
    /\ Goto(Producer, "p_init_tail", "p_produce")
    /\ tail' = -1
    /\ segment' = IF segment = "zeroed" THEN "ready" ELSE segment
    /\ UNCHANGED <<arr, head, full, empty, mutex, locals, kills>>

Produce ==
    /\ Goto(Producer, "p_produce", "p_empty")
    /\ \E v \in Values : val' = v
    /\ UNCHANGED <<segment, queue, full, empty, mutex, got, seen, kills>>

\* Bug: the producer does not wait for an empty slot.
WaitEmptyMissing ==
    /\ Goto(Producer, "p_empty", "p_mutex")
    /\ empty' = IF empty > 0 THEN empty - 1 ELSE 0
    /\ UNCHANGED <<segment, queue, full, mutex, locals, kills>>

WaitEmpty ==
    /\ Goto(Producer, "p_empty", "p_mutex")
    /\ empty > 0
    /\ empty' = empty - 1
    /\ UNCHANGED <<segment, queue, full, mutex, locals, kills>>

QueueFull == (tail + 1) % Size = head

\* queue_add drops the value when the ring is full and returns 0 all the same.  It
\* is one step: it runs under the mutex, and a producer killed in the middle of it
\* takes the mutex along, so that nobody sees the half of it.
QueueAdd ==
    /\ Goto(Producer, "p_add", "p_print")
    /\ IF QueueFull THEN UNCHANGED queue
       ELSE /\ IF head = -1 /\ tail = -1
                 THEN head' = 0 /\ tail' = 0
                 ELSE tail' = (tail + 1) % Size /\ UNCHANGED head
            /\ arr' = [arr EXCEPT ![tail'] = val]
    /\ UNCHANGED <<segment, full, empty, mutex, locals, kills>>

\* sem_post(full), and "Production successfull" is printed.
PostFull ==
    /\ Goto(Producer, "p_post_full", "p_produce")
    /\ full' = full + 1
    /\ UNCHANGED <<segment, queue, empty, mutex, locals, kills>>

(***************************************************************************)
(* A consumer                                                              *)
(***************************************************************************)
\* Without a segment shmget fails and the process exits.
StartConsumer(c) ==
    /\ segment # "absent"
    /\ Goto(c, "off", "c_full")
    /\ UNCHANGED <<segment, queue, full, empty, mutex, locals, kills>>

WaitFull(c) ==
    /\ Goto(c, "c_full", "c_mutex")
    /\ full > 0
    /\ full' = full - 1
    /\ UNCHANGED <<segment, queue, empty, mutex, locals, kills>>

\* queue_delete reads head and tail and reports the value at the head ...
DeleteTest(c) ==
    /\ pc[c] = "c_test"
    /\ pc' = [pc EXCEPT ![c] = IF head = -1 THEN "c_print"
                               ELSE IF head = tail THEN "c_clear_head"
                               ELSE "c_advance"]
    /\ got' = [got EXCEPT ![c] = IF head = -1 THEN NULL ELSE arr[head]]
    /\ seen' = [seen EXCEPT ![c] = head]
    /\ UNCHANGED <<segment, queue, full, empty, mutex, val, kills>>

\* Bug: the head is advanced without wrapping round.
DeleteAdvanceNoWrap(c) ==
    /\ Goto(c, "c_advance", "c_print")
    /\ head' = IF head + 1 < Size THEN head + 1 ELSE head
    /\ UNCHANGED <<segment, arr, tail, full, empty, mutex, locals, kills>>

\* ... then advances head; the build may read it again or use what it tested.
DeleteAdvance(c) ==
    /\ Goto(c, "c_advance", "c_print")
    /\ \E h \in {head, seen[c]} : head' = (h + 1) % Size
    /\ UNCHANGED <<segment, arr, tail, full, empty, mutex, locals, kills>>

\* Bug: the last value leaves head where it was.
DeleteClearHeadMissed(c) ==
    /\ Goto(c, "c_clear_head", "c_clear_tail")
    /\ UNCHANGED <<segment, queue, full, empty, mutex, locals, kills>>

\* ... or, when it was the last value, marks the queue empty.
DeleteClearHead(c) ==
    /\ Goto(c, "c_clear_head", "c_clear_tail")
    /\ head' = -1
    /\ UNCHANGED <<segment, arr, tail, full, empty, mutex, locals, kills>>

DeleteClearTail(c) ==
    /\ Goto(c, "c_clear_tail", "c_print")
    /\ tail' = -1
    /\ UNCHANGED <<segment, arr, head, full, empty, mutex, locals, kills>>

\* sem_post(empty), and "Consumption  successfull" is printed.
PostEmpty(c) ==
    /\ Goto(c, "c_post_empty", "c_done")
    /\ empty' = empty + 1
    /\ UNCHANGED <<segment, queue, full, mutex, locals, kills>>

\* sleep(1), and the next round.
Again(c) ==
    /\ Goto(c, "c_done", "c_full")
    /\ got' = [got EXCEPT ![c] = NULL]
    /\ UNCHANGED <<segment, queue, full, empty, mutex, val, seen, kills>>

(***************************************************************************)
(* Both: the mutex, and queue_print with the mutex held                    *)
(***************************************************************************)
\* Bug: the consumer goes on without the mutex.
WaitMutexIgnored(p) ==
    /\ \/ Goto(p, "p_mutex", "p_add") /\ mutex > 0 /\ mutex' = mutex - 1
       \/ Goto(p, "c_mutex", "c_test") /\ mutex' = IF mutex > 0 THEN mutex - 1 ELSE 0
    /\ UNCHANGED <<segment, queue, full, empty, locals, kills>>

WaitMutex(p) ==
    /\ Goto(p, "p_mutex", "p_add") \/ Goto(p, "c_mutex", "c_test")
    /\ mutex > 0
    /\ mutex' = mutex - 1
    /\ UNCHANGED <<segment, queue, full, empty, locals, kills>>

PostMutex(p) ==
    /\ \/ Goto(p, "p_post_mutex", "p_post_full")
       \/ Goto(p, "c_post_mutex", "c_post_empty")
    /\ mutex' = mutex + 1
    /\ UNCHANGED <<segment, queue, full, empty, locals, kills>>

\* queue_print reads head; -1 is an empty queue.
QueuePrint(p) ==
    /\ IF head = -1
         THEN Goto(p, "p_print", "p_post_mutex") \/ Goto(p, "c_print", "c_post_mutex")
         ELSE Goto(p, "p_print", "p_walk") \/ Goto(p, "c_print", "c_walk")
    /\ UNCHANGED <<segment, queue, full, empty, mutex, locals, kills>>

\* The walk round the ring ends where the index meets tail, if it ever does.
PrintWalk(p) ==
    /\ tail # -1
    /\ Goto(p, "p_walk", "p_post_mutex") \/ Goto(p, "c_walk", "c_post_mutex")
    /\ UNCHANGED <<segment, queue, full, empty, mutex, locals, kills>>

PrintSpin(p) == tail = -1 /\ pc[p] \in {"p_walk", "c_walk"} /\ UNCHANGED vars

\* A signal ends the process: what it held of a semaphore is gone.
Kill(p) ==
    /\ p \in Mortals
    /\ pc[p] # "off"
    /\ kills < MaxKills
    /\ kills' = kills + 1
    /\ pc' = [pc EXCEPT ![p] = "off"]
    /\ got' = IF p \in Consumers THEN [got EXCEPT ![p] = NULL] ELSE got
    /\ UNCHANGED <<segment, queue, full, empty, mutex, val, seen>>

Produces == InitHead \/ InitTail \/ Produce \/ WaitEmpty \/ QueueAdd \/ PostFull
Consumes(c) ==
    \/ WaitFull(c) \/ DeleteTest(c) \/ DeleteAdvance(c) \/ DeleteClearHead(c)
    \/ DeleteClearTail(c) \/ PostEmpty(c) \/ Again(c)
Both(p) == WaitMutex(p) \/ PostMutex(p) \/ QueuePrint(p) \/ PrintWalk(p) \/ PrintSpin(p)

Next ==
    \/ StartProducer \/ Produces
    \/ \E c \in Consumers : StartConsumer(c) \/ Consumes(c)
    \/ \E p \in Processes : Both(p) \/ Kill(p)

Spec == Init /\ [][Next]_vars

\* Processes are started and keep running, and a semaphore that is posted
\* again and again is given to each process that waits for it in turn.
FairSpec ==
    /\ Spec
    /\ WF_vars(StartProducer) /\ WF_vars(Produces) /\ SF_vars(WaitEmpty)
    /\ \A c \in Consumers :
          WF_vars(StartConsumer(c)) /\ WF_vars(Consumes(c)) /\ SF_vars(WaitFull(c))
    /\ \A p \in Processes : WF_vars(Both(p)) /\ SF_vars(WaitMutex(p))

-----------------------------------------------------------------------------
(* Properties *)

\* Every variable has its type; in particular the indices stay in the ring.
TypeOK ==
    /\ segment \in {"absent", "zeroed", "ready", "reused"}
    /\ arr \in [0..Size - 1 -> Values \cup {NULL}]
    /\ head \in -1..Size - 1
    /\ tail \in -1..Size - 1
    /\ full \in Nat /\ empty \in Nat /\ mutex \in Nat
    /\ pc \in [Processes -> PCs]
    /\ val \in Values \cup {NULL}
    /\ got \in [Consumers -> Values \cup {NULL}]
    /\ seen \in [Consumers -> -1..Size - 1]
    /\ kills \in Nat

InCritical == {p \in Processes : pc[p] \in Critical}
Holding == {p \in Processes : pc[p] \in InFlight}

\* At most one process is between sem_wait(mutex) and sem_post(mutex), also
\* when others were killed there.
MutexExclusive == mutex + Cardinality(InCritical) <= 1

\* Slots and values are counted by tokens that no interleaving creates: a
\* process that is killed can only take one with it.
TokensNeverGrow == full + empty + Cardinality(Holding) <= Size

\* The values in the ring, oldest first.
Ring ==
    IF head = -1 \/ tail = -1 THEN <<>>
    ELSE [i \in 1..((tail - head + Size) % Size) + 1 |-> arr[(head + i - 1) % Size]]

\* A value leaves the queue for its consumer when head moves past it: one that
\* is killed after it reported the value and before that leaves it inside.
Contents == IF segment \in {"ready", "reused"} THEN Ring ELSE <<>>
Delivered ==
    [c \in Consumers |-> IF pc[c] \in {"c_advance", "c_clear_head"} THEN NULL ELSE got[c]]

\* The ring buffer is a bounded FIFO: nothing is lost, duplicated or reordered
\* as long as no producer is started on a segment in use, whichever consumers
\* are killed.
F == INSTANCE BoundedFifo WITH contents <- Contents, delivered <- Delivered
ImplementsFifo == F!Init /\ [][segment' = "reused" \/ F!Next]_<<Contents, Delivered>>

\* queue_print meets tail: it never walks round the ring for ever with the
\* mutex held, again unless a producer was started on a segment in use.
PrintEnds ==
    segment # "reused" =>
        \A p \in Processes : pc[p] \in {"p_walk", "c_walk"} => tail # -1

\* While nobody is killed nobody waits for ever: the producer goes on producing
\* and every consumer goes on getting values.
EverybodyProgresses ==
    [](kills = 0) => /\ []<>(pc[Producer] = "p_produce")
                     /\ \A c \in Consumers : []<>(got[c] # NULL)

==============================================================================
