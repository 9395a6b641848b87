--------------------------- MODULE ShmQueueProofs ----------------------------
(***************************************************************************)
(* Proofs about ShmQueue for any number of consumers, any QUEUE_SIZE, any  *)
(* values and any kills and restarts, the producer's included: the indices *)
(* stay in the ring, the critical sections exclude each other, and the     *)
(* tokens of full and empty never grow.  Until a producer is started on a  *)
(* segment in use, queue_print ends and the ring implements BoundedFifo.   *)
(***************************************************************************)
EXTENDS ShmQueue, FiniteSetTheorems, SequenceTheorems, TLAPS

\* What the provers need of x % Size.
LEMMA NextInRing == \A n \in -1..Size - 1 : (n + 1) % Size \in 0..Size - 1
<1> SUFFICES ASSUME NEW n \in -1..Size - 1 PROVE (n + 1) % Size \in 0..Size - 1
  OBVIOUS
<1>1. n + 1 \in Nat /\ Size \in Nat /\ Size > 0
  BY ShmConstants
<1>2. \A k \in Nat : k % Size \in 0..Size - 1
  BY <1>1
<1> QED BY <1>1, <1>2

\* A consumer about to advance head saw a value there, so reading it is not
\* outside the array; -1 plus one is 0, so a head reset under its feet is not
\* either.
LEMMA StepTyped == TypeOK /\ [Next]_vars => TypeOK'
<1> SUFFICES ASSUME TypeOK, [Next]_vars PROVE TypeOK'
  OBVIOUS
<1> USE ShmConstants DEF TypeOK, Processes, PCs, InFlight, Critical, Goto, queue, locals
<1>1. CASE StartProducer
  BY <1>1 DEF StartProducer
<1>2. CASE InitHead \/ InitTail
  BY <1>2 DEF InitHead, InitTail
<1>3. CASE Produce
  BY <1>3 DEF Produce
<1>4. CASE WaitEmpty \/ PostFull
  BY <1>4 DEF WaitEmpty, PostFull
<1>5. CASE QueueAdd
  <2>1. (tail + 1) % Size \in 0..Size - 1
    BY NextInRing
  <2>2. tail' \in -1..Size - 1 /\ head' \in -1..Size - 1
    BY <1>5, <2>1 DEF QueueAdd
  <2>3. arr' \in [0..Size - 1 -> Values \cup {NULL}]
    BY <1>5, <2>1 DEF QueueAdd
  <2> QED BY <1>5, <2>2, <2>3 DEF QueueAdd
<1>6. ASSUME NEW c \in Consumers, StartConsumer(c) \/ WaitFull(c) PROVE TypeOK'
  <2>1. CASE StartConsumer(c)
    BY <2>1 DEF StartConsumer
  <2>2. CASE WaitFull(c)
    BY <2>2 DEF WaitFull
  <2> QED BY <1>6, <2>1, <2>2
<1>7. ASSUME NEW c \in Consumers, DeleteTest(c) PROVE TypeOK'
  <2>1. head # -1 => arr[head] \in Values \cup {NULL}
    OBVIOUS
  <2>2. got' \in [Consumers -> Values \cup {NULL}]
    BY <1>7, <2>1 DEF DeleteTest
  <2> QED BY <1>7, <2>2 DEF DeleteTest
<1>8. ASSUME NEW c \in Consumers, DeleteAdvance(c) PROVE TypeOK'
  <2>1. \A h \in -1..Size - 1 : (h + 1) % Size \in 0..Size - 1
    BY NextInRing
  <2>2. head' \in -1..Size - 1
    BY <1>8, <2>1 DEF DeleteAdvance
  <2> QED BY <1>8, <2>2 DEF DeleteAdvance
<1>9. ASSUME NEW c \in Consumers,
             DeleteClearHead(c) \/ DeleteClearTail(c) \/ PostEmpty(c) \/ Again(c)
      PROVE  TypeOK'
  <2>1. CASE DeleteClearHead(c)
    BY <2>1 DEF DeleteClearHead
  <2>2. CASE DeleteClearTail(c)
    BY <2>2 DEF DeleteClearTail
  <2>3. CASE PostEmpty(c)
    BY <2>3 DEF PostEmpty
  <2>4. CASE Again(c)
    BY <2>4 DEF Again
  <2> QED BY <1>9, <2>1, <2>2, <2>3, <2>4
<1>10. ASSUME NEW p \in Processes, WaitMutex(p) \/ PostMutex(p) PROVE TypeOK'
  <2>1. CASE WaitMutex(p)
    BY <2>1 DEF WaitMutex
  <2>2. CASE PostMutex(p)
    BY <2>2 DEF PostMutex
  <2> QED BY <1>10, <2>1, <2>2
<1>11. ASSUME NEW p \in Processes, QueuePrint(p) \/ PrintWalk(p) PROVE TypeOK'
  BY <1>11, ZenonT(60) DEF QueuePrint, PrintWalk
<1>12. ASSUME NEW p \in Processes, Kill(p) PROVE TypeOK'
  BY <1>12 DEF Kill
<1>13. CASE UNCHANGED vars
  BY <1>13 DEF vars
<1> QED
  BY <1>1, <1>2, <1>3, <1>4, <1>5, <1>6, <1>7, <1>8, <1>9, <1>10, <1>11, <1>12, <1>13
     DEF Next, Produces, Consumes, Both, PrintSpin

\* Types: whatever is killed and started again, head and tail stay in the ring.
THEOREM ShmTyped == Spec => []TypeOK
<1>1. Init => TypeOK
  BY ShmConstants DEF Init, TypeOK, PCs, Processes
<1> QED
  BY <1>1, StepTyped, PTL DEF Spec

-----------------------------------------------------------------------------

\* One process enters or leaves a set of processes at a time.
LEMMA OneMore ==
    ASSUME NEW S, IsFiniteSet(S), NEW x, x \notin S
    PROVE  Cardinality(S \cup {x}) = Cardinality(S) + 1 /\ Cardinality(S) \in Nat
BY FS_AddElement, FS_CardinalityType

LEMMA OneLess ==
    ASSUME NEW S, IsFiniteSet(S), NEW x \in S
    PROVE  Cardinality(S \ {x}) = Cardinality(S) - 1 /\ Cardinality(S) \in Nat
BY FS_RemoveElement, FS_CardinalityType

LEMMA FiniteProcesses ==
    IsFiniteSet(Processes) /\ IsFiniteSet(InCritical) /\ IsFiniteSet(Holding)
<1>1. IsFiniteSet(Processes)
  BY ShmConstants, FS_AddElement DEF Processes
<1> QED BY <1>1, FS_Subset DEF InCritical, Holding

\* Only the three operations on mutex and a kill change who is in a critical
\* section.
LEMMA StepMutex == TypeOK /\ MutexExclusive /\ [Next]_vars => MutexExclusive'
<1> SUFFICES ASSUME TypeOK, MutexExclusive, [Next]_vars PROVE MutexExclusive'
  OBVIOUS
<1>1. /\ IsFiniteSet(InCritical) /\ Cardinality(InCritical) \in Nat /\ mutex \in Nat
      /\ pc \in [Processes -> PCs] /\ Producer \in Processes /\ Consumers \subseteq Processes
  BY FiniteProcesses, FS_CardinalityType DEF TypeOK, Processes
<1>2. CASE mutex' = mutex /\ InCritical' = InCritical
  BY <1>2 DEF MutexExclusive
<1>3. ASSUME NEW p \in Processes, WaitMutex(p) PROVE MutexExclusive'
  <2>1. p \notin InCritical /\ InCritical' = InCritical \cup {p}
    BY <1>1, <1>3 DEF WaitMutex, Goto, InCritical, Critical
  <2> QED BY <1>1, <1>3, <2>1, OneMore DEF WaitMutex, MutexExclusive
<1>4. ASSUME NEW p \in Processes, PostMutex(p) PROVE MutexExclusive'
  <2>1. p \in InCritical /\ InCritical' = InCritical \ {p}
    BY <1>1, <1>4 DEF PostMutex, Goto, InCritical, Critical
  <2> QED BY <1>1, <1>4, <2>1, OneLess DEF PostMutex, MutexExclusive
<1>5. ASSUME NEW p \in Processes, Kill(p) PROVE MutexExclusive'
  <2>1. InCritical' = InCritical \ {p} /\ mutex' = mutex
    BY <1>1, <1>5 DEF Kill, InCritical, Critical
  <2>2. CASE p \in InCritical
    BY <1>1, <2>1, <2>2, OneLess DEF MutexExclusive
  <2>3. CASE p \notin InCritical
    <3>1. InCritical' = InCritical
      BY <2>1, <2>3
    <3> QED BY <2>1, <3>1 DEF MutexExclusive
  <2> QED BY <2>2, <2>3
<1>6. ASSUME NEW p \in Processes, QueuePrint(p) \/ PrintWalk(p) PROVE MutexExclusive'
  <2>1. InCritical' = InCritical /\ mutex' = mutex
    BY <1>1, <1>6 DEF QueuePrint, PrintWalk, Goto, InCritical, Critical
  <2> QED BY <1>2, <2>1
<1>7. CASE StartProducer \/ InitHead \/ InitTail \/ Produce
  <2>1. InCritical' = InCritical /\ mutex' = mutex
    BY <1>1, <1>7 DEF StartProducer, InitHead, InitTail, Produce, Goto, InCritical, Critical
  <2> QED BY <1>2, <2>1
<1>8. CASE WaitEmpty \/ QueueAdd \/ PostFull
  <2>1. InCritical' = InCritical /\ mutex' = mutex
    BY <1>1, <1>8 DEF WaitEmpty, QueueAdd, PostFull, Goto, InCritical, Critical
  <2> QED BY <1>2, <2>1
<1>9. ASSUME NEW c \in Consumers, StartConsumer(c) \/ WaitFull(c) \/ PostEmpty(c) \/ Again(c)
      PROVE  MutexExclusive'
  <2>1. InCritical' = InCritical /\ mutex' = mutex
    BY <1>1, <1>9 DEF StartConsumer, WaitFull, PostEmpty, Again, Goto, InCritical, Critical
  <2> QED BY <1>2, <2>1
<1>10. ASSUME NEW c \in Consumers,
              DeleteTest(c) \/ DeleteAdvance(c) \/ DeleteClearHead(c) \/ DeleteClearTail(c)
       PROVE  MutexExclusive'
  <2>1. InCritical' = InCritical /\ mutex' = mutex
    BY <1>1, <1>10 DEF DeleteTest, DeleteAdvance, DeleteClearHead, DeleteClearTail, Goto,
                       InCritical, Critical
  <2> QED BY <1>2, <2>1
<1>11. CASE UNCHANGED vars
  BY <1>2, <1>11 DEF vars, InCritical
<1> QED
  BY <1>3, <1>4, <1>5, <1>6, <1>7, <1>8, <1>9, <1>10, <1>11
     DEF Next, Produces, Consumes, Both, PrintSpin

\* The critical sections exclude each other, kills and restarts included.
THEOREM ShmExclusive == Spec => []MutexExclusive
<1>1. Init => TypeOK /\ MutexExclusive
  <2>1. Init => TypeOK
    BY ShmConstants DEF Init, TypeOK, PCs, Processes
  <2>2. ASSUME Init PROVE InCritical = {}
    BY <2>2 DEF Init, InCritical, Critical
  <2> QED BY <2>1, <2>2, FS_EmptySet DEF Init, MutexExclusive
<1> QED
  BY <1>1, StepTyped, StepMutex, PTL DEF Spec

-----------------------------------------------------------------------------

\* Sums of the two counters and the number of holders.
LEMMA SumsUp ==
    ASSUME NEW a \in Nat, NEW b \in Nat, NEW a1 \in Nat, NEW b1 \in Nat,
           NEW c \in Nat, NEW n \in Nat, a + b + c <= n
    PROVE  /\ a1 + b1 = a + b - 1 => a1 + b1 + (c + 1) <= n
           /\ a1 + b1 <= a + b + 1 => a1 + b1 + (c - 1) <= n
OBVIOUS

\* A token taken from one counting semaphore is given to the other one, unless
\* its holder is killed.
LEMMA StepTokens == TypeOK /\ TokensNeverGrow /\ [Next]_vars => TokensNeverGrow'
<1> SUFFICES ASSUME TypeOK, TokensNeverGrow, [Next]_vars PROVE TokensNeverGrow'
  OBVIOUS
<1>1. /\ IsFiniteSet(Holding) /\ Cardinality(Holding) \in Nat
      /\ full \in Nat /\ empty \in Nat /\ Size \in Nat
      /\ pc \in [Processes -> PCs] /\ Producer \in Processes /\ Consumers \subseteq Processes
  BY FiniteProcesses, FS_CardinalityType, ShmConstants DEF TypeOK, Processes
<1>2. CASE full' = full /\ empty' = empty /\ Holding' = Holding
  BY <1>2 DEF TokensNeverGrow
<1>3. ASSUME NEW p \in Processes, p \notin Holding, Holding' = Holding \cup {p},
             full' + empty' = full + empty - 1, full' \in Nat, empty' \in Nat
      PROVE  TokensNeverGrow'
  <2>1. Cardinality(Holding') = Cardinality(Holding) + 1
    BY <1>1, <1>3, OneMore
  <2>2. full' + empty' = full + empty - 1 /\ full' \in Nat /\ empty' \in Nat
    BY <1>3
  <2>3. full + empty + Cardinality(Holding) <= Size
    BY DEF TokensNeverGrow
  <2>4. full' + empty' + (Cardinality(Holding) + 1) <= Size
    BY <1>1, <2>2, <2>3, SumsUp
  <2> QED BY <2>1, <2>4 DEF TokensNeverGrow
<1>4. ASSUME NEW p \in Holding, Holding' = Holding \ {p},
             full' + empty' <= full + empty + 1 /\ full' \in Nat /\ empty' \in Nat
      PROVE  TokensNeverGrow'
  <2>1. Cardinality(Holding') = Cardinality(Holding) - 1
    BY <1>1, <1>4, OneLess
  <2>2. full' + empty' <= full + empty + 1 /\ full' \in Nat /\ empty' \in Nat
    BY <1>4
  <2>3. full + empty + Cardinality(Holding) <= Size
    BY DEF TokensNeverGrow
  <2>4. full' + empty' + (Cardinality(Holding) - 1) <= Size
    BY <1>1, <2>2, <2>3, SumsUp
  <2> QED BY <2>1, <2>4 DEF TokensNeverGrow
<1>5. CASE WaitEmpty
  <2>1. Producer \notin Holding /\ Holding' = Holding \cup {Producer}
    BY <1>1, <1>5 DEF WaitEmpty, Goto, Holding, InFlight, Critical
  <2> QED BY <1>1, <1>3, <1>5, <2>1 DEF WaitEmpty
<1>6. ASSUME NEW c \in Consumers, WaitFull(c) PROVE TokensNeverGrow'
  <2>1. c \in Processes /\ c \notin Holding /\ Holding' = Holding \cup {c}
    BY <1>1, <1>6 DEF WaitFull, Goto, Holding, InFlight, Critical
  <2>2. full' + empty' = full + empty - 1 /\ full' \in Nat /\ empty' \in Nat
    BY <1>1, <1>6 DEF WaitFull
  <2> QED BY <1>3, <2>1, <2>2
<1>7. CASE PostFull
  <2>1. Producer \in Holding /\ Holding' = Holding \ {Producer}
    BY <1>1, <1>7 DEF PostFull, Goto, Holding, InFlight, Critical
  <2>2. full' + empty' <= full + empty + 1 /\ full' \in Nat /\ empty' \in Nat
    BY <1>1, <1>7 DEF PostFull
  <2> QED BY <1>4, <2>1, <2>2
<1>8. ASSUME NEW c \in Consumers, PostEmpty(c) PROVE TokensNeverGrow'
  <2>1. c \in Holding /\ Holding' = Holding \ {c}
    BY <1>1, <1>8 DEF PostEmpty, Goto, Holding, InFlight, Critical
  <2>2. full' + empty' <= full + empty + 1 /\ full' \in Nat /\ empty' \in Nat
    BY <1>1, <1>8 DEF PostEmpty
  <2> QED BY <1>4, <2>1, <2>2
<1>9. ASSUME NEW p \in Processes, Kill(p) PROVE TokensNeverGrow'
  <2>1. Holding' = Holding \ {p} /\ full' = full /\ empty' = empty
    BY <1>1, <1>9 DEF Kill, Holding, InFlight, Critical
  <2>2. CASE p \in Holding
    BY <1>1, <1>4, <2>1, <2>2
  <2>3. CASE p \notin Holding
    <3>1. Holding' = Holding
      BY <2>1, <2>3
    <3> QED BY <1>2, <2>1, <3>1
  <2> QED BY <2>2, <2>3
<1>10. ASSUME NEW p \in Processes, WaitMutex(p) \/ PostMutex(p) \/ QueuePrint(p) \/ PrintWalk(p)
       PROVE  TokensNeverGrow'
  <2>1. Holding' = Holding /\ full' = full /\ empty' = empty
    BY <1>1, <1>10 DEF WaitMutex, PostMutex, QueuePrint, PrintWalk, Goto, Holding, InFlight, Critical
  <2> QED BY <1>2, <2>1
<1>11. CASE StartProducer \/ InitHead \/ InitTail \/ Produce \/ QueueAdd
  <2>1. Holding' = Holding /\ full' = full /\ empty' = empty
    BY <1>1, <1>11 DEF StartProducer, InitHead, InitTail, Produce, QueueAdd, Goto, Holding, InFlight, Critical
  <2> QED BY <1>2, <2>1
<1>12. ASSUME NEW c \in Consumers, StartConsumer(c) \/ Again(c) \/ DeleteTest(c) \/ DeleteAdvance(c)
       PROVE  TokensNeverGrow'
  <2>1. Holding' = Holding /\ full' = full /\ empty' = empty
    BY <1>1, <1>12 DEF StartConsumer, Again, DeleteTest, DeleteAdvance, Goto, Holding, InFlight, Critical
  <2> QED BY <1>2, <2>1
<1>13. ASSUME NEW c \in Consumers, DeleteClearHead(c) \/ DeleteClearTail(c)
       PROVE  TokensNeverGrow'
  <2>1. Holding' = Holding /\ full' = full /\ empty' = empty
    BY <1>1, <1>13 DEF DeleteClearHead, DeleteClearTail, Goto, Holding, InFlight, Critical
  <2> QED BY <1>2, <2>1
<1>14. CASE UNCHANGED vars
  BY <1>2, <1>14 DEF vars, Holding
<1> QED
  BY <1>5, <1>6, <1>7, <1>8, <1>9, <1>10, <1>11, <1>12, <1>13, <1>14
     DEF Next, Produces, Consumes, Both, PrintSpin

\* No interleaving, kill or restart makes the semaphores count more slots and
\* values than the ring has places.
THEOREM ShmTokens == Spec => []TokensNeverGrow
<1>1. Init => TypeOK /\ TokensNeverGrow
  <2>1. Init => TypeOK
    BY ShmConstants DEF Init, TypeOK, PCs, Processes
  <2>2. ASSUME Init PROVE Holding = {}
    BY <2>2 DEF Init, Holding, InFlight, Critical
  <2> QED BY <2>1, <2>2, FS_EmptySet, ShmConstants DEF Init, TokensNeverGrow
<1> QED
  BY <1>1, StepTyped, StepTokens, PTL DEF Spec

-----------------------------------------------------------------------------
(***************************************************************************)
(* The ring as a queue.  Until a producer is started on a segment in use   *)
(* only the process that has the mutex moves head and tail.  A consumer    *)
(* that is killed between its two assignments leaves head at -1 and tail   *)
(* in the ring, but takes the mutex with it: nobody looks again.           *)
(***************************************************************************)
ProducerPCs == {"off", "p_init_head", "p_init_tail", "p_produce", "p_empty", "p_mutex", "p_add",
                "p_print", "p_walk", "p_post_mutex", "p_post_full"}
ConsumerPCs == {"off", "c_full", "c_mutex", "c_test", "c_advance", "c_clear_head", "c_clear_tail",
                "c_print", "c_walk", "c_post_mutex", "c_post_empty", "c_done"}

\* Where each process is and what it has in its hands.
ShmLocal ==
    /\ pc[Producer] \in ProducerPCs /\ \A c \in Consumers : pc[c] \in ConsumerPCs
    /\ pc[Producer] \in {"p_empty", "p_mutex", "p_add"} => val \in Values
    /\ \A c \in Consumers : pc[c] \in {"off", "c_full", "c_mutex", "c_test"} => got[c] = NULL

\* A segment that queue_init has not been through.
ShmFresh ==
    segment \in {"absent", "zeroed"} =>
        /\ full = 0
        /\ pc[Producer] \in {"off", "p_init_head", "p_init_tail"}
        /\ segment = "absent" => pc[Producer] = "off"
        /\ pc[Producer] = "p_init_tail" => head = -1
        /\ \A c \in Consumers : pc[c] \in {"off", "c_full"}

\* A segment in use.
ShmReady ==
    segment = "ready" =>
        /\ pc[Producer] \notin {"p_init_head", "p_init_tail"}
        /\ tail = -1 => head = -1
        /\ head = -1 /\ tail # -1 =>
             mutex = 0 /\ \A p \in Processes : pc[p] \in Critical => pc[p] = "c_clear_tail"
        /\ \A c \in Consumers : pc[c] = "c_clear_tail" => head = -1
        /\ \A c \in Consumers : pc[c] = "c_advance" =>
             head # -1 /\ head # tail /\ seen[c] = head /\ got[c] = arr[head]
        /\ \A c \in Consumers : pc[c] = "c_clear_head" =>
             head # -1 /\ head = tail /\ got[c] = arr[head]
        /\ \A p \in Processes : pc[p] \in {"p_walk", "c_walk"} => head # -1

ShmShape == ShmLocal /\ ShmFresh /\ ShmReady

\* What the mutex is for.
LEMMA OneInside ==
    ASSUME TypeOK, MutexExclusive, NEW p \in Processes, pc[p] \in Critical
    PROVE  mutex = 0 /\ \A q \in Processes : pc[q] \in Critical => q = p
<1>1. IsFiniteSet(InCritical) /\ p \in InCritical /\ mutex \in Nat
  BY FiniteProcesses DEF InCritical, TypeOK
<1>2. /\ IsFiniteSet(InCritical \ {p}) /\ Cardinality(InCritical \ {p}) = Cardinality(InCritical) - 1
      /\ Cardinality(InCritical) \in Nat /\ Cardinality(InCritical \ {p}) \in Nat
  BY <1>1, OneLess, FS_RemoveElement, FS_CardinalityType
<1>3. mutex = 0 /\ Cardinality(InCritical \ {p}) = 0
  BY <1>1, <1>2 DEF MutexExclusive
<1>4. InCritical \ {p} = {}
  BY <1>2, <1>3, FS_EmptySet
<1> QED
  BY <1>3, <1>4 DEF InCritical

\* The processes keep to their programs.
LEMMA StepLocal == TypeOK /\ ShmLocal /\ Next => ShmLocal'
<1> SUFFICES ASSUME TypeOK, ShmLocal, Next PROVE ShmLocal'
  OBVIOUS
<1>1. /\ pc \in [Processes -> PCs] /\ got \in [Consumers -> Values \cup {NULL}]
      /\ Producer \in Processes /\ Consumers \subseteq Processes /\ Producer \notin Consumers
  BY ShmConstants DEF TypeOK, Processes
<1> USE DEF ShmLocal, ProducerPCs, ConsumerPCs, Goto
<1>2. CASE StartProducer \/ InitHead \/ InitTail
  BY <1>1, <1>2 DEF StartProducer, InitHead, InitTail, locals
<1>3. CASE Produce \/ WaitEmpty \/ QueueAdd \/ PostFull
  BY <1>1, <1>3 DEF Produce, WaitEmpty, QueueAdd, PostFull, locals
<1>4. ASSUME NEW c \in Consumers, StartConsumer(c) \/ WaitFull(c) \/ PostEmpty(c) PROVE ShmLocal'
  BY <1>1, <1>4 DEF StartConsumer, WaitFull, PostEmpty, locals
<1>5. ASSUME NEW c \in Consumers, DeleteTest(c) PROVE ShmLocal'
  BY <1>1, <1>5 DEF DeleteTest
<1>6. ASSUME NEW c \in Consumers, DeleteAdvance(c) \/ DeleteClearHead(c) \/ DeleteClearTail(c) PROVE ShmLocal'
  BY <1>1, <1>6 DEF DeleteAdvance, DeleteClearHead, DeleteClearTail, locals
<1>7. ASSUME NEW c \in Consumers, Again(c) PROVE ShmLocal'
  BY <1>1, <1>7 DEF Again
<1>8. ASSUME NEW p \in Processes, WaitMutex(p) \/ PostMutex(p) PROVE ShmLocal'
  <2>1. CASE p = Producer
    BY <1>1, <1>8, <2>1 DEF WaitMutex, PostMutex, locals
  <2>2. CASE p \in Consumers
    BY <1>1, <1>8, <2>2 DEF WaitMutex, PostMutex, locals
  <2> QED
    BY <2>1, <2>2 DEF Processes
<1>9. ASSUME NEW p \in Processes, QueuePrint(p) \/ PrintWalk(p) PROVE ShmLocal'
  <2>1. CASE p = Producer
    BY <1>1, <1>9, <2>1 DEF QueuePrint, PrintWalk, locals
  <2>2. CASE p \in Consumers
    BY <1>1, <1>9, <2>2 DEF QueuePrint, PrintWalk, locals
  <2> QED
    BY <2>1, <2>2 DEF Processes
<1>10. ASSUME NEW p \in Processes, Kill(p) PROVE ShmLocal'
  BY <1>1, <1>10 DEF Kill
<1>11. CASE UNCHANGED vars
  BY <1>11 DEF vars, locals
<1> QED
  BY <1>2, <1>3, <1>4, <1>5, <1>6, <1>7, <1>8, <1>9, <1>10, <1>11
     DEF Next, Produces, Consumes, Both, PrintSpin

\* Until queue_init is through nobody touches the queue: full is 0.
LEMMA StepFresh == TypeOK /\ ShmLocal /\ ShmFresh /\ Next => ShmFresh'
<1> SUFFICES ASSUME TypeOK, ShmLocal, ShmFresh, Next, segment' \in {"absent", "zeroed"} PROVE ShmFresh'
  BY DEF ShmFresh
<1>1. /\ pc \in [Processes -> PCs] /\ full \in Nat
      /\ Producer \in Processes /\ Consumers \subseteq Processes /\ Producer \notin Consumers
  BY ShmConstants DEF TypeOK, Processes
<1>2. segment \in {"absent", "zeroed"}
  BY DEF Next, StartProducer, Produces, InitHead, InitTail, Produce, WaitEmpty, QueueAdd, PostFull,
         StartConsumer, Consumes, WaitFull, DeleteTest, DeleteAdvance, DeleteClearHead,
         DeleteClearTail, PostEmpty, Again, Both, WaitMutex, PostMutex, QueuePrint, PrintWalk,
         PrintSpin, Kill, vars, TypeOK
<1>3. /\ full = 0 /\ pc[Producer] \in {"off", "p_init_head", "p_init_tail"}
      /\ segment = "absent" => pc[Producer] = "off"
      /\ pc[Producer] = "p_init_tail" => head = -1
      /\ \A c \in Consumers : pc[c] \in {"off", "c_full"}
  BY <1>2 DEF ShmFresh
<1>4. \A p \in Processes : pc[p] \in {"off", "p_init_head", "p_init_tail", "c_full"}
  BY <1>3 DEF Processes
<1>5. CASE StartProducer
  BY <1>1, <1>3, <1>5 DEF StartProducer, Goto, ShmFresh, queue
<1>6. CASE InitHead
  BY <1>1, <1>2, <1>3, <1>6 DEF InitHead, Goto, ShmFresh
<1>7. CASE InitTail
  BY <1>1, <1>2, <1>3, <1>7 DEF InitTail, Goto
<1>8. CASE Produce \/ WaitEmpty \/ QueueAdd \/ PostFull
  BY <1>3, <1>8 DEF Produce, WaitEmpty, QueueAdd, PostFull, Goto
<1>9. ASSUME NEW c \in Consumers, StartConsumer(c) PROVE ShmFresh'
  BY <1>1, <1>3, <1>9 DEF StartConsumer, Goto, ShmFresh, queue
<1>10. ASSUME NEW c \in Consumers, Consumes(c) PROVE FALSE
  BY <1>3, <1>10 DEF Consumes, WaitFull, DeleteTest, DeleteAdvance, DeleteClearHead, DeleteClearTail,
                     PostEmpty, Again, Goto
<1>11. ASSUME NEW p \in Processes, Both(p) PROVE FALSE
  BY <1>4, <1>11 DEF Both, WaitMutex, PostMutex, QueuePrint, PrintWalk, PrintSpin, Goto
<1>12. ASSUME NEW p \in Processes, Kill(p) PROVE ShmFresh'
  BY <1>1, <1>3, <1>12 DEF Kill, ShmFresh, queue
<1> QED
  BY <1>5, <1>6, <1>7, <1>8, <1>9, <1>10, <1>11, <1>12 DEF Next, Produces

\* A segment in use stays as ShmReady says, whoever is killed.
LEMMA StepReady == TypeOK /\ MutexExclusive /\ ShmShape /\ Next => ShmReady'
<1> SUFFICES ASSUME TypeOK, MutexExclusive, ShmShape, Next, segment' = "ready" PROVE ShmReady'
  BY DEF ShmReady
<1>1. /\ pc \in [Processes -> PCs] /\ got \in [Consumers -> Values \cup {NULL}]
      /\ head \in -1..Size - 1 /\ tail \in -1..Size - 1 /\ seen \in [Consumers -> -1..Size - 1]
      /\ Producer \in Processes /\ Consumers \subseteq Processes /\ Producer \notin Consumers
  BY ShmConstants DEF TypeOK, Processes
<1> DEFINE Torn == head = -1 /\ tail # -1
<1>2. CASE InitTail
  <2>1. /\ tail' = -1 /\ head' = head /\ pc[Producer] = "p_init_tail"
        /\ pc' = [pc EXCEPT ![Producer] = "p_produce"]
    BY <1>2 DEF InitTail, Goto
  <2>2. segment \in {"absent", "zeroed"}
    BY <1>2, <2>1 DEF InitTail, TypeOK, ShmShape, ShmReady
  <2>3. head = -1 /\ \A c \in Consumers : pc[c] \in {"off", "c_full"}
    BY <2>1, <2>2 DEF ShmShape, ShmFresh
  <2>4. \A p \in Processes : pc'[p] \in {"off", "c_full", "p_produce"}
    BY <1>1, <2>1, <2>3 DEF Processes
  <2>5. \A c \in Consumers : pc'[c] \in {"off", "c_full", "p_produce"}
    BY <1>1, <2>4
  <2> QED
    BY <1>1, <2>1, <2>3, <2>4, <2>5 DEF ShmReady, Critical
<1> SUFFICES ASSUME ~InitTail PROVE ShmReady'
  BY <1>2
<1>3. segment = "ready"
  BY DEF Next, StartProducer, Produces, InitHead, Produce, WaitEmpty, QueueAdd, PostFull,
         StartConsumer, Consumes, WaitFull, DeleteTest, DeleteAdvance, DeleteClearHead,
         DeleteClearTail, PostEmpty, Again, Both, WaitMutex, PostMutex, QueuePrint, PrintWalk,
         PrintSpin, Kill, vars, TypeOK
<1>4. /\ pc[Producer] \notin {"p_init_head", "p_init_tail"}
      /\ tail = -1 => head = -1
      /\ Torn => mutex = 0 /\ \A p \in Processes : pc[p] \in Critical => pc[p] = "c_clear_tail"
      /\ \A c \in Consumers : pc[c] = "c_clear_tail" => head = -1
      /\ \A c \in Consumers : pc[c] = "c_advance" =>
           head # -1 /\ head # tail /\ seen[c] = head /\ got[c] = arr[head]
      /\ \A c \in Consumers : pc[c] = "c_clear_head" =>
           head # -1 /\ head = tail /\ got[c] = arr[head]
      /\ \A p \in Processes : pc[p] \in {"p_walk", "c_walk"} => head # -1
  BY <1>3 DEF ShmShape, ShmReady
<1>5. ASSUME NEW p \in Processes, NEW l, l \notin Critical \cup {"p_init_head", "p_init_tail"},
             pc' = [pc EXCEPT ![p] = l], \A c \in Consumers : c # p => got'[c] = got[c],
             UNCHANGED <<arr, head, tail, seen>>, UNCHANGED mutex \/ ~Torn
      PROVE  ShmReady'
  <2>1. pc'[p] = l /\ \A q \in Processes : q # p => pc'[q] = pc[q]
    BY <1>1, <1>5
  <2>2. \A q \in Processes : pc'[q] \in Critical => q # p /\ pc'[q] = pc[q]
    BY <1>5, <2>1
  <2>3. pc'[Producer] \notin {"p_init_head", "p_init_tail"}
    BY <1>1, <1>4, <1>5, <2>1
  <2>4. \A q \in Processes : pc'[q] \in {"p_walk", "c_walk"} => head' # -1
    BY <1>4, <1>5, <2>2 DEF Critical
  <2>5. Torn' => mutex' = 0 /\ \A q \in Processes : pc'[q] \in Critical => pc'[q] = "c_clear_tail"
    BY <1>4, <1>5, <2>2
  <2>6. ASSUME NEW c \in Consumers, pc'[c] \in {"c_clear_tail", "c_advance", "c_clear_head"}
        PROVE  pc[c] = pc'[c] /\ got'[c] = got[c]
    BY <1>1, <1>5, <2>2, <2>6 DEF Critical
  <2>7. \A c \in Consumers : pc'[c] = "c_clear_tail" => head' = -1
    BY <1>4, <1>5, <2>6
  <2>8. \A c \in Consumers : pc'[c] = "c_advance" =>
           head' # -1 /\ head' # tail' /\ seen'[c] = head' /\ got'[c] = arr'[head']
    BY <1>4, <1>5, <2>6
  <2>9. \A c \in Consumers : pc'[c] = "c_clear_head" =>
           head' # -1 /\ head' = tail' /\ got'[c] = arr'[head']
    BY <1>4, <1>5, <2>6
  <2>10. tail' = -1 => head' = -1
    BY <1>4, <1>5
  <2> QED
    BY <2>3, <2>4, <2>5, <2>7, <2>8, <2>9, <2>10 DEF ShmReady
<1>6. ASSUME NEW p \in Processes, pc[p] \in Critical, pc[p] # "c_clear_tail"
      PROVE  ~Torn /\ \A q \in Processes : q # p => pc[q] \notin Critical
  BY <1>4, <1>6, OneInside
<1>7. CASE Produce \/ WaitEmpty \/ PostFull
  <2>1. PICK l \in {"p_empty", "p_mutex", "p_produce"} : pc' = [pc EXCEPT ![Producer] = l]
    BY <1>7 DEF Produce, WaitEmpty, PostFull, Goto
  <2>2. UNCHANGED <<arr, head, tail, seen, mutex, got>>
    BY <1>7 DEF Produce, WaitEmpty, PostFull, locals, queue
  <2>3. l \notin Critical \cup {"p_init_head", "p_init_tail"}
    BY DEF Critical
  <2> QED
    BY <1>1, <1>5, <2>1, <2>2, <2>3
<1>8. ASSUME NEW c \in Consumers, StartConsumer(c) \/ WaitFull(c) \/ PostEmpty(c) \/ Again(c) PROVE ShmReady'
  <2>1. PICK l \in {"c_full", "c_mutex", "c_done"} : pc' = [pc EXCEPT ![c] = l]
    BY <1>8 DEF StartConsumer, WaitFull, PostEmpty, Again, Goto
  <2>2. UNCHANGED <<arr, head, tail, seen, mutex>> /\ \A d \in Consumers : d # c => got'[d] = got[d]
    BY <1>1, <1>8 DEF StartConsumer, WaitFull, PostEmpty, Again, locals, queue
  <2>3. l \notin Critical \cup {"p_init_head", "p_init_tail"} /\ c \in Processes
    BY <1>1 DEF Critical
  <2> QED
    BY <1>5, <2>1, <2>2, <2>3
<1>9. ASSUME NEW p \in Processes, Kill(p) PROVE ShmReady'
  <2>1. /\ pc' = [pc EXCEPT ![p] = "off"] /\ UNCHANGED <<arr, head, tail, seen, mutex>>
        /\ \A d \in Consumers : d # p => got'[d] = got[d]
    BY <1>1, <1>9 DEF Kill, queue
  <2>2. "off" \notin Critical \cup {"p_init_head", "p_init_tail"}
    BY DEF Critical
  <2> QED
    BY <1>5, <2>1, <2>2
<1>10. ASSUME NEW p \in Processes, PostMutex(p) PROVE ShmReady'
  <2>1. /\ pc[p] \in {"p_post_mutex", "c_post_mutex"} /\ UNCHANGED <<arr, head, tail, seen, got>>
    BY <1>10 DEF PostMutex, Goto, queue, locals
  <2>2. PICK l \in {"p_post_full", "c_post_empty"} : pc' = [pc EXCEPT ![p] = l]
    BY <1>10 DEF PostMutex, Goto
  <2>3. ~Torn /\ l \notin Critical \cup {"p_init_head", "p_init_tail"}
    BY <1>6, <2>1 DEF Critical
  <2> QED
    BY <1>5, <2>1, <2>2, <2>3
\* One process in the critical section moves, and the others are outside.
<1>11. ASSUME NEW p \in Processes, \A q \in Processes : q # p => pc[q] \notin Critical,
              NEW l, l \notin {"p_init_head", "p_init_tail"}, pc' = [pc EXCEPT ![p] = l],
              tail' = -1 => head' = -1,
              Torn' => mutex' = 0 /\ l = "c_clear_tail",
              l = "c_clear_tail" => head' = -1,
              l = "c_advance" => head' # -1 /\ head' # tail' /\ seen'[p] = head' /\ got'[p] = arr'[head'],
              l = "c_clear_head" => head' # -1 /\ head' = tail' /\ got'[p] = arr'[head'],
              l \in {"p_walk", "c_walk"} => head' # -1
       PROVE  ShmReady'
  <2>1. pc'[p] = l /\ \A q \in Processes : q # p => pc'[q] \notin Critical
    BY <1>1, <1>11
  <2>2. \A q \in Processes : pc'[q] \in Critical => q = p
    BY <2>1
  <2>3. pc'[Producer] \notin {"p_init_head", "p_init_tail"}
    BY <1>1, <1>4, <1>11
  <2>4. \A q \in Processes : pc'[q] \in {"p_walk", "c_walk"} => head' # -1
    BY <1>11, <2>1, <2>2 DEF Critical
  <2>5. Torn' => mutex' = 0 /\ \A q \in Processes : pc'[q] \in Critical => pc'[q] = "c_clear_tail"
    BY <1>11, <2>1, <2>2
  <2>6. \A c \in Consumers : pc'[c] \in {"c_clear_tail", "c_advance", "c_clear_head"} => c = p
    BY <1>1, <2>2 DEF Critical
  <2>7. \A c \in Consumers : pc'[c] = "c_clear_tail" => head' = -1
    BY <1>11, <2>1, <2>6
  <2>8. \A c \in Consumers : pc'[c] = "c_advance" =>
           head' # -1 /\ head' # tail' /\ seen'[c] = head' /\ got'[c] = arr'[head']
    BY <1>11, <2>1, <2>6
  <2>9. \A c \in Consumers : pc'[c] = "c_clear_head" =>
           head' # -1 /\ head' = tail' /\ got'[c] = arr'[head']
    BY <1>11, <2>1, <2>6
  <2> QED
    BY <1>11, <2>3, <2>4, <2>5, <2>7, <2>8, <2>9 DEF ShmReady
<1>12. ASSUME NEW p \in Processes, WaitMutex(p) PROVE ShmReady'
  <2>1. mutex > 0 /\ UNCHANGED <<arr, head, tail, seen, got>>
    BY <1>12 DEF WaitMutex, queue, locals
  <2>2. PICK l \in {"p_add", "c_test"} : pc' = [pc EXCEPT ![p] = l]
    BY <1>12 DEF WaitMutex, Goto
  <2>3. ~Torn /\ \A q \in Processes : pc[q] \notin Critical
    BY <1>4, <2>1, OneInside
  <2> QED
    BY <1>4, <1>11, <2>1, <2>2, <2>3
<1>13. ASSUME NEW p \in Processes, QueuePrint(p) \/ PrintWalk(p) PROVE ShmReady'
  <2>1. /\ pc[p] \in {"p_print", "c_print", "p_walk", "c_walk"}
        /\ UNCHANGED <<arr, head, tail, seen, got>>
    BY <1>13 DEF QueuePrint, PrintWalk, Goto, queue, locals
  <2>2. ~Torn /\ \A q \in Processes : q # p => pc[q] \notin Critical
    BY <1>6, <2>1 DEF Critical
  <2>3. PICK l \in {"p_walk", "c_walk", "p_post_mutex", "c_post_mutex"} :
            pc' = [pc EXCEPT ![p] = l] /\ (l \in {"p_walk", "c_walk"} => head # -1)
    BY <1>13 DEF QueuePrint, PrintWalk, Goto
  <2> QED
    BY <1>4, <1>11, <2>1, <2>2, <2>3
<1>14. CASE QueueAdd
  <2>1. pc[Producer] = "p_add" /\ pc' = [pc EXCEPT ![Producer] = "p_print"]
    BY <1>14 DEF QueueAdd, Goto
  <2>2. ~Torn /\ \A q \in Processes : q # Producer => pc[q] \notin Critical
    BY <1>1, <1>6, <2>1 DEF Critical
  <2>3. (tail + 1) % Size \in 0..Size - 1
    BY <1>1, NextInRing
  <2>4. ~Torn' /\ (tail' = -1 => head' = -1)
    BY <1>1, <1>4, <1>14, <2>2, <2>3, ShmConstants DEF QueueAdd, queue
  <2> QED
    BY <1>1, <1>11, <2>1, <2>2, <2>4
<1>15. ASSUME NEW c \in Consumers, DeleteTest(c) PROVE ShmReady'
  <2>1. /\ pc[c] = "c_test" /\ UNCHANGED <<arr, head, tail>>
        /\ seen'[c] = head /\ got'[c] = (IF head = -1 THEN NULL ELSE arr[head])
    BY <1>1, <1>15 DEF DeleteTest, queue
  <2>2. c \in Processes /\ ~Torn /\ \A q \in Processes : q # c => pc[q] \notin Critical
    BY <1>1, <1>6, <2>1 DEF Critical
  <2>3. PICK l \in {"c_print", "c_clear_head", "c_advance"} :
            /\ pc' = [pc EXCEPT ![c] = l]
            /\ l = "c_clear_head" => head # -1 /\ head = tail
            /\ l = "c_advance" => head # -1 /\ head # tail
    BY <1>15 DEF DeleteTest
  <2> QED
    BY <1>4, <1>11, <2>1, <2>2, <2>3
<1>16. ASSUME NEW c \in Consumers, DeleteAdvance(c) PROVE ShmReady'
  <2>1. pc[c] = "c_advance" /\ pc' = [pc EXCEPT ![c] = "c_print"] /\ UNCHANGED tail
    BY <1>16 DEF DeleteAdvance, Goto
  <2>2. c \in Processes /\ \A q \in Processes : q # c => pc[q] \notin Critical
    BY <1>1, <1>6, <2>1 DEF Critical
  <2>3. head # -1 /\ tail # -1 /\ head' = (head + 1) % Size
    BY <1>4, <1>16, <2>1 DEF DeleteAdvance
  <2>4. head' # -1
    BY <1>1, <2>3, NextInRing
  <2> QED
    BY <1>11, <2>1, <2>2, <2>3, <2>4
<1>17. ASSUME NEW c \in Consumers, DeleteClearHead(c) PROVE ShmReady'
  <2>1. pc[c] = "c_clear_head" /\ pc' = [pc EXCEPT ![c] = "c_clear_tail"] /\ head' = -1 /\ UNCHANGED mutex
    BY <1>17 DEF DeleteClearHead, Goto
  <2>2. c \in Processes /\ pc[c] \in Critical
    BY <1>1, <2>1 DEF Critical
  <2>3. mutex = 0 /\ \A q \in Processes : q # c => pc[q] \notin Critical
    BY <2>2, OneInside
  <2> QED
    BY <1>11, <2>1, <2>2, <2>3
<1>18. ASSUME NEW c \in Consumers, DeleteClearTail(c) PROVE ShmReady'
  <2>1. pc[c] = "c_clear_tail" /\ pc' = [pc EXCEPT ![c] = "c_print"] /\ tail' = -1 /\ UNCHANGED head
    BY <1>18 DEF DeleteClearTail, Goto
  <2>2. c \in Processes /\ pc[c] \in Critical
    BY <1>1, <2>1 DEF Critical
  <2>3. head = -1 /\ \A q \in Processes : q # c => pc[q] \notin Critical
    BY <1>4, <2>1, <2>2, OneInside
  <2> QED
    BY <1>11, <2>1, <2>2, <2>3
<1>19. ASSUME NEW p \in Processes, PrintSpin(p) PROVE ShmReady'
  BY <1>19 DEF PrintSpin, vars, queue, locals, ShmShape, ShmReady
<1>20. ASSUME StartProducer \/ InitHead PROVE FALSE
  BY <1>3, <1>4, <1>20 DEF StartProducer, InitHead, Goto
<1>21. CASE Produces
  BY <1>7, <1>14, <1>20, <1>21 DEF Produces
<1>22. ASSUME NEW c \in Consumers, StartConsumer(c) \/ Consumes(c) PROVE ShmReady'
  BY <1>8, <1>15, <1>16, <1>17, <1>18, <1>22 DEF Consumes
<1>23. ASSUME NEW p \in Processes, Both(p) \/ Kill(p) PROVE ShmReady'
  BY <1>9, <1>10, <1>12, <1>13, <1>19, <1>23 DEF Both
<1> QED
  BY <1>20, <1>21, <1>22, <1>23 DEF Next

\* What every reachable state of the queue is like.
ShmInv == TypeOK /\ MutexExclusive /\ ShmShape

LEMMA ShmInvHolds == Spec => []ShmInv
<1>1. Init => ShmShape
  BY ShmConstants DEF Init, ShmShape, ShmLocal, ShmFresh, ShmReady, ProducerPCs, ConsumerPCs, Processes
<1>2. ShmInv /\ [Next]_vars => ShmShape'
  <2> SUFFICES ASSUME ShmInv, [Next]_vars PROVE ShmShape'
    OBVIOUS
  <2>1. CASE Next
    BY <2>1, StepLocal, StepFresh, StepReady DEF ShmInv, ShmShape
  <2>2. CASE UNCHANGED vars
    BY <2>2 DEF vars, queue, locals, ShmInv, ShmShape, ShmLocal, ShmFresh, ShmReady
  <2> QED
    BY <2>1, <2>2
<1> QED
  BY <1>1, <1>2, ShmTyped, ShmExclusive, PTL DEF Spec, ShmInv

\* shm_producer.c and shm_consumer.c: queue_print ends, for any size, any
\* consumers and any kills, unless a producer was started on a segment in use.
THEOREM ShmPrintEnds == Spec => []PrintEnds
<1>1. ShmInv => PrintEnds
  <2> SUFFICES ASSUME ShmInv, segment # "reused", NEW p \in Processes, pc[p] \in {"p_walk", "c_walk"}
               PROVE  tail # -1
    BY DEF PrintEnds
  <2>1. segment = "ready"
    BY DEF ShmInv, TypeOK, ShmShape, ShmFresh, Processes
  <2> QED
    BY <2>1 DEF ShmInv, ShmShape, ShmReady
<1> QED
  BY <1>1, ShmInvHolds, PTL

-----------------------------------------------------------------------------
(***************************************************************************)
(* The refinement: what is in the ring from head to tail, as a sequence.   *)
(***************************************************************************)
Index == 0..Size - 1
Distance(h, t) == (t - h + Size) % Size
RingOf(a, h, t) == [i \in 1..Distance(h, t) + 1 |-> a[(h + i - 1) % Size]]

LEMMA ModSmall == ASSUME NEW b \in Nat, b > 0, NEW a \in 0..b - 1 PROVE a % b = a
  OBVIOUS

LEMMA ModOnce == ASSUME NEW b \in Nat, b > 0, NEW a \in b..2 * b - 1 PROVE a % b = a - b
  OBVIOUS

\* Indices of the ring without the modulus.
LEMMA Wrapped ==
    ASSUME NEW h \in Index, NEW k \in 0..Size
    PROVE  /\ (h + k) % Size = (IF h + k < Size THEN h + k ELSE h + k - Size)
           /\ (h + k) % Size \in Index
<1>1. Size \in Nat /\ Size > 0
  BY ShmConstants
<1>2. CASE h + k < Size
  <2>1. h + k \in 0..Size - 1
    BY <1>1, <1>2 DEF Index
  <2>2. (h + k) % Size = h + k
    BY <1>1, <2>1, ModSmall
  <2> QED
    BY <1>2, <2>1, <2>2 DEF Index
<1>3. CASE ~(h + k < Size)
  <2>1. h + k \in Size..2 * Size - 1 /\ h + k - Size \in 0..Size - 1
    BY <1>1, <1>3 DEF Index
  <2>2. PICK x \in Size..2 * Size - 1 : x = h + k
    BY <2>1
  <2>3. x % Size = x - Size
    BY <1>1, ModOnce
  <2>4. (h + k) % Size = h + k - Size
    BY <1>1, <2>2, <2>3 DEF Index
  <2>5. (h + k) % Size \in Index
    BY <2>1, <2>4 DEF Index
  <2> QED
    BY <1>3, <2>4, <2>5
<1> QED
  BY <1>2, <1>3

LEMMA Between ==
    ASSUME NEW h \in Index, NEW t \in Index
    PROVE  /\ Distance(h, t) = (IF t >= h THEN t - h ELSE t - h + Size)
           /\ Distance(h, t) \in Index
<1>1. Size \in Nat /\ Size > 0
  BY ShmConstants
<1>2. CASE t >= h
  <2>1. t - h + Size \in Size..2 * Size - 1 /\ t - h + Size - Size = t - h /\ t - h \in 0..Size - 1
    BY <1>1, <1>2 DEF Index
  <2>2. (t - h + Size) % Size = t - h + Size - Size
    BY <1>1, <2>1, ModOnce
  <2> QED
    BY <1>2, <2>1, <2>2 DEF Index, Distance
<1>3. CASE ~(t >= h)
  <2>1. t - h + Size \in 0..Size - 1
    BY <1>1, <1>3 DEF Index
  <2>2. (t - h + Size) % Size = t - h + Size
    BY <1>1, <2>1, ModSmall
  <2> QED
    BY <1>3, <2>1, <2>2 DEF Index, Distance
<1> QED
  BY <1>2, <1>3

\* What RingOf is, with its indices in the ring.
LEMMA RingOfMeans ==
    ASSUME NEW S, NEW a \in [Index -> S], NEW h \in Index, NEW t \in Index
    PROVE  RingOf(a, h, t) \in Seq(S) /\ Len(RingOf(a, h, t)) = Distance(h, t) + 1
<1> DEFINE n == Distance(h, t) + 1
<1>1. n \in 1..Size /\ Size \in Nat
  <2> DEFINE m == Distance(h, t)
  <2>1. m \in 0..Size - 1 /\ Size \in Nat
    BY Between, ShmConstants DEF Index
  <2> HIDE DEF m
  <2>2. m + 1 \in 1..Size
    BY <2>1
  <2> QED
    BY <2>1, <2>2 DEF m
<1> HIDE DEF n
<1>2. ASSUME NEW i \in 1..n PROVE (h + (i - 1)) % Size \in Index /\ h + i - 1 = h + (i - 1)
  <2>1. i - 1 \in 0..Size /\ h \in Int
    BY <1>1 DEF Index
  <2> QED
    BY <2>1, Wrapped
<1>3. RingOf(a, h, t) = [i \in 1..n |-> a[(h + i - 1) % Size]]
  BY DEF RingOf, n
<1>4. \A i \in 1..n : (h + i - 1) % Size = (h + (i - 1)) % Size /\ a[(h + i - 1) % Size] \in S
  BY <1>2
<1>5. RingOf(a, h, t) \in Seq(S) /\ Len(RingOf(a, h, t)) = n
  BY <1>1, <1>3, <1>4
<1> QED
  BY <1>5 DEF n

LEMMA RingItem ==
    ASSUME NEW a, NEW h \in Index, NEW t \in Index, NEW i \in 1..Distance(h, t) + 1
    PROVE  (h + (i - 1)) % Size \in Index /\ RingOf(a, h, t)[i] = a[(h + (i - 1)) % Size]
<1> DEFINE n == Distance(h, t)
<1>1. n \in 0..Size - 1 /\ Size \in Nat /\ i \in 1..n + 1
  BY Between, ShmConstants DEF Index
<1>2. RingOf(a, h, t)[i] = a[(h + i - 1) % Size]
  BY DEF RingOf
<1> HIDE DEF n
<1>3. i - 1 \in 0..Size /\ h + i - 1 = h + (i - 1)
  BY <1>1 DEF Index
<1> QED
  BY <1>2, <1>3, Wrapped

\* b is a with v behind t, at u.
Written(a, b, t, u, v) ==
    u = (t + 1) % Size /\ b[u] = v /\ \A i \in Index : i # u => b[i] = a[i]

\* The queue r has room and is r2 with v added.
Longer(r, r2, v) == Len(r) < Size /\ r2 = Append(r, v)

\* queue_add puts a value behind the last one.
LEMMA RingPut ==
    ASSUME NEW S, NEW a \in [Index -> S], NEW h \in Index, NEW t \in Index, NEW v \in S,
           NEW u \in Index, u # h, NEW b \in [Index -> S], Written(a, b, t, u, v)
    PROVE  Longer(RingOf(a, h, t), RingOf(b, h, u), v)
<1> DEFINE n == Distance(h, t)
<1>1. Size \in Nat /\ Size > 0 /\ 1 \in 0..Size
  BY ShmConstants
<1>2. u = (IF t + 1 < Size THEN t + 1 ELSE t + 1 - Size)
  BY <1>1, Wrapped DEF Written
<1>3. n = (IF t >= h THEN t - h ELSE t - h + Size) /\ n \in Index
  BY Between
<1>4. Distance(h, u) = (IF u >= h THEN u - h ELSE u - h + Size)
  BY <1>2, Between
<1>5. Distance(h, u) = n + 1 /\ n + 1 \in Index
  BY <1>1, <1>2, <1>3, <1>4 DEF Index
<1> DEFINE r == RingOf(a, h, t)
           s == RingOf(b, h, u)
<1>7. r \in Seq(S) /\ Len(r) = n + 1
  BY RingOfMeans, ZenonT(60)
<1>71. ASSUME NEW i \in 1..(n + 1) PROVE (h + (i - 1)) % Size \in Index /\ r[i] = a[(h + (i - 1)) % Size]
  BY RingItem
<1>8. s \in Seq(S) /\ Len(s) = n + 1 + 1
  <2>1. s \in Seq(S) /\ Len(s) = Distance(h, u) + 1
    BY RingOfMeans, ZenonT(60)
  <2> QED
    BY <1>5, <2>1, Zenon
<1>81. ASSUME NEW i \in 1..(n + 1 + 1) PROVE s[i] = b[(h + (i - 1)) % Size]
  <2>1. i \in 1..Distance(h, u) + 1
    BY <1>5
  <2> QED
    BY <2>1, RingItem
<1> HIDE DEF r, s, n
<1>9. ASSUME NEW i \in 1..(n + 1) PROVE s[i] = r[i]
  <2>1. i - 1 \in 0..Size /\ i - 1 <= n /\ i \in 1..(n + 1 + 1)
    BY <1>1, <1>3 DEF Index
  <2>2. (h + (i - 1)) % Size = (IF h + (i - 1) < Size THEN h + (i - 1) ELSE h + (i - 1) - Size)
    BY <2>1, Wrapped
  <2>3. (h + (i - 1)) % Size # u
    BY <1>1, <1>2, <1>3, <1>5, <2>1, <2>2 DEF Index
  <2> QED
    BY <1>71, <1>81, <2>1, <2>3 DEF Written
<1>10. s[n + 1 + 1] = v
  <2>1. n + 1 \in 0..Size /\ n + 1 + 1 \in 1..(n + 1 + 1) /\ n + 1 + 1 - 1 = n + 1
    BY <1>1, <1>3, <1>5 DEF Index
  <2>2. (h + (n + 1)) % Size = (IF h + (n + 1) < Size THEN h + (n + 1) ELSE h + (n + 1) - Size)
    BY <2>1, Wrapped
  <2>3. (h + (n + 1)) % Size = u
    BY <1>1, <1>2, <1>3, <2>2 DEF Index
  <2> QED
    BY <1>81, <2>1, <2>3 DEF Written
<1>11. n \in Nat /\ n + 1 < Size
  BY <1>1, <1>5, <1>3 DEF Index
<1>12. s = Append(r, v)
  <2> DEFINE q == Append(r, v)
  <2>1. /\ q \in Seq(S) /\ Len(q) = n + 1 + 1 /\ q[n + 1 + 1] = v
        /\ \A i \in 1..(n + 1) : q[i] = r[i]
    BY <1>7, <1>11
  <2>2. \A i \in 1..(n + 1 + 1) : i \in 1..(n + 1) \/ i = n + 1 + 1
    BY <1>11
  <2> HIDE DEF q
  <2>3. \A i \in 1..(n + 1 + 1) : s[i] = q[i]
    BY <1>9, <1>10, <2>1, <2>2
  <2>4. Len(s) = Len(q) /\ 1..Len(s) = 1..(n + 1 + 1)
    BY <1>8, <2>1
  <2>5. s = q
    BY <1>8, <2>1, <2>3, <2>4, SeqEqual
  <2> QED
    BY <2>5 DEF q
<1>13. Len(r) < Size
  BY <1>7, <1>11
<1> QED
  BY <1>12, <1>13 DEF r, s, Longer

\* queue_delete takes the first value away.
LEMMA RingGet ==
    ASSUME NEW S, NEW a \in [Index -> S], NEW h \in Index, NEW t \in Index, h # t
    PROVE  /\ RingOf(a, h, t) # <<>> /\ Head(RingOf(a, h, t)) = a[h]
           /\ RingOf(a, (h + 1) % Size, t) = Tail(RingOf(a, h, t))
<1> DEFINE n == Distance(h, t)
<1>1. Size \in Nat /\ Size > 0 /\ 1 \in 0..Size /\ 0 \in 0..Size
  BY ShmConstants
<1>21. PICK u \in Index : u = (h + 1) % Size
  BY <1>1, Wrapped
<1>2. u = (IF h + 1 < Size THEN h + 1 ELSE h + 1 - Size)
  BY <1>1, <1>21, Wrapped
<1>3. n = (IF t >= h THEN t - h ELSE t - h + Size) /\ n \in Index
  BY Between
<1>4. Distance(u, t) = (IF t >= u THEN t - u ELSE t - u + Size)
  BY <1>2, Between
<1>5. Distance(u, t) = n - 1 /\ n - 1 \in Nat /\ n <= Size
  BY <1>1, <1>2, <1>3, <1>4 DEF Index
<1> DEFINE r == RingOf(a, h, t)
           s == RingOf(a, u, t)
<1>6. r \in Seq(S) /\ Len(r) = n + 1
  BY RingOfMeans, ZenonT(60)
<1>61. ASSUME NEW i \in 1..(n + 1) PROVE r[i] = a[(h + (i - 1)) % Size]
  BY RingItem
<1>7. s \in Seq(S) /\ Len(s) = n - 1 + 1
  BY <1>2, <1>5, RingOfMeans
<1>71. ASSUME NEW i \in 1..(n - 1 + 1) PROVE s[i] = a[(u + (i - 1)) % Size]
  <2>1. i \in 1..Distance(u, t) + 1
    BY <1>5
  <2> QED
    BY <1>21, <2>1, RingItem
<1> HIDE DEF r, s, n
<1>8. n \in Nat /\ n - 1 + 1 = n /\ n >= 1
  BY <1>5, <1>3 DEF Index
<1>9. r # <<>> /\ Head(r) = r[1] /\ 1 \in 1..(n + 1) /\ h + (1 - 1) = h + 0
  BY <1>6, <1>8 DEF Index
<1>10. (h + 0) % Size = h
  BY <1>1, Wrapped DEF Index
<1>11. Head(r) = a[h]
  BY <1>61, <1>9, <1>10
<1>12. ASSUME NEW i \in 1..n PROVE s[i] = r[i + 1]
  <2>1. i - 1 \in 0..Size /\ i \in 0..Size /\ i + 1 \in 1..(n + 1) /\ i + 1 - 1 = i
    BY <1>1, <1>5, <1>8
  <2>2. (u + (i - 1)) % Size = (IF u + (i - 1) < Size THEN u + (i - 1) ELSE u + (i - 1) - Size)
    BY <1>2, <2>1, Wrapped
  <2>3. (h + i) % Size = (IF h + i < Size THEN h + i ELSE h + i - Size)
    BY <2>1, Wrapped
  <2>4. (u + (i - 1)) % Size = (h + i) % Size
    BY <1>1, <1>2, <1>3, <2>1, <2>2, <2>3 DEF Index
  <2> QED
    BY <1>61, <1>71, <1>8, <2>1, <2>4
<1>13. s = Tail(r)
  <2> DEFINE q == Tail(r)
  <2>1. q \in Seq(S) /\ Len(q) = n /\ \A i \in 1..n : q[i] = r[i + 1]
    BY <1>6, <1>8, <1>9, HeadTailProperties
  <2> HIDE DEF q
  <2>2. Len(s) = Len(q) /\ 1..Len(s) = 1..n
    BY <1>7, <1>8, <2>1
  <2>3. \A i \in 1..n : s[i] = q[i]
    BY <1>12, <2>1
  <2>4. s = q
    BY <1>7, <2>1, <2>2, <2>3, SeqEqual
  <2> QED
    BY <2>4 DEF q
<1> QED
  BY <1>9, <1>11, <1>13, <1>21 DEF r, s

\* A ring whose head is its tail holds one value.
LEMMA RingOne ==
    ASSUME NEW S, NEW a \in [Index -> S], NEW h \in Index
    PROVE  RingOf(a, h, h) = <<a[h]>>
<1>1. Size \in Nat /\ Size > 0 /\ 0 \in 0..Size
  BY ShmConstants
<1>2. Distance(h, h) = 0
  BY <1>1, Between DEF Index
<1>3. (h + (1 - 1)) % Size = h
  BY <1>1, Wrapped DEF Index
<1>4. RingOf(a, h, h) \in Seq(S) /\ Len(RingOf(a, h, h)) = 1
  <2>1. RingOf(a, h, h) \in Seq(S) /\ Len(RingOf(a, h, h)) = Distance(h, h) + 1
    BY RingOfMeans, Zenon
  <2>2. 0 + 1 = 1
    OBVIOUS
  <2> QED
    BY <1>2, <2>1, <2>2, Zenon
<1>5. RingOf(a, h, h)[1] = a[h]
  <2>1. 1 \in 1..Distance(h, h) + 1
    BY <1>2
  <2> QED
    BY <1>3, <2>1, RingItem
<1> QED
  BY <1>4, <1>5

\* Contents where the segment is not reused, in terms of RingOf.
LEMMA ContentsMeans ==
    ASSUME ShmInv, segment # "reused"
    PROVE  Contents = (IF segment = "ready" /\ head # -1 THEN RingOf(arr, head, tail) ELSE <<>>)
<1>1. segment \in {"absent", "zeroed", "ready"} /\ (segment = "ready" /\ tail = -1 => head = -1)
  BY DEF ShmInv, TypeOK, ShmShape, ShmReady
<1>2. CASE segment = "ready" /\ head # -1
  <2>1. Contents = Ring /\ head # -1 /\ tail # -1
    BY <1>1, <1>2 DEF Contents
  <2>2. Ring = RingOf(arr, head, tail)
    BY <2>1, Zenon DEF Ring, RingOf, Distance
  <2> QED
    BY <1>2, <2>1, <2>2
<1>3. CASE ~(segment = "ready" /\ head # -1)
  BY <1>1, <1>3 DEF Contents, Ring
<1> QED
  BY <1>2, <1>3

LEMMA ContentsMeansNext ==
    ASSUME ShmInv', segment' # "reused"
    PROVE  Contents' = (IF segment' = "ready" /\ head' # -1 THEN RingOf(arr', head', tail') ELSE <<>>)
<1>1. segment' \in {"absent", "zeroed", "ready"} /\ (segment' = "ready" /\ tail' = -1 => head' = -1)
  BY DEF ShmInv, TypeOK, ShmShape, ShmReady
<1>2. CASE segment' = "ready" /\ head' # -1
  <2>1. Contents' = Ring' /\ head' # -1 /\ tail' # -1
    BY <1>1, <1>2 DEF Contents
  <2>2. Ring' = RingOf(arr', head', tail')
    BY <2>1, Zenon DEF Ring, RingOf, Distance
  <2> QED
    BY <1>2, <2>1, <2>2
<1>3. CASE ~(segment' = "ready" /\ head' # -1)
  BY <1>1, <1>3 DEF Contents, Ring
<1> QED
  BY <1>2, <1>3

\* A consumer between its test and the move of head.
Reported == {"c_advance", "c_clear_head"}

\* One process moves: what becomes of Delivered.
LEMMA DeliveredMoves ==
    ASSUME TypeOK, NEW p \in Processes, NEW l, pc' = [pc EXCEPT ![p] = l],
           \A c \in Consumers : c # p => got'[c] = got[c]
    PROVE  /\ p \notin Consumers => Delivered' = Delivered
           /\ p \in Consumers /\ l \notin Reported => Delivered' = [Delivered EXCEPT ![p] = got'[p]]
           /\ p \in Consumers /\ pc[p] \notin Reported /\ l \notin Reported /\ got'[p] = got[p] =>
                 Delivered' = Delivered
           /\ p \in Consumers /\ pc[p] \notin Reported /\ l \in Reported /\ got[p] = NULL =>
                 Delivered' = Delivered
<1>1. /\ pc \in [Processes -> PCs] /\ Consumers \subseteq Processes
      /\ pc'[p] = l /\ \A q \in Processes : q # p => pc'[q] = pc[q]
  BY DEF TypeOK, Processes
<1> DEFINE D(c) == IF pc[c] \in Reported THEN NULL ELSE got[c]
           E(c) == IF pc'[c] \in Reported THEN NULL ELSE got'[c]
<1>2. Delivered = [c \in Consumers |-> D(c)] /\ Delivered' = [c \in Consumers |-> E(c)]
  BY DEF Delivered, Reported
<1>3. \A c \in Consumers : c # p => E(c) = D(c)
  BY <1>1
<1>4. l \notin Reported => E(p) = got'[p]
  BY <1>1
<1>5. pc[p] \notin Reported /\ l \notin Reported /\ got'[p] = got[p] => E(p) = D(p)
  BY <1>1
<1>6. pc[p] \notin Reported /\ l \in Reported /\ got[p] = NULL => E(p) = D(p)
  BY <1>1
<1> HIDE DEF D, E
<1> QED
  BY <1>2, <1>3, <1>4, <1>5, <1>6

\* A segment that queue_init has not been through stays an empty queue.
LEMMA FifoFresh ==
    ASSUME ShmInv, ShmInv', Next, segment \in {"absent", "zeroed"}
    PROVE  UNCHANGED <<Contents, Delivered>>
<1>1. /\ pc[Producer] \in {"off", "p_init_head", "p_init_tail"}
      /\ pc[Producer] = "p_init_tail" => head = -1
      /\ \A c \in Consumers : pc[c] \in {"off", "c_full"} /\ got[c] = NULL
      /\ pc \in [Processes -> PCs] /\ Producer \in Processes /\ Consumers \subseteq Processes
      /\ Producer \notin Consumers /\ full = 0 /\ got \in [Consumers -> Values \cup {NULL}]
  BY ShmConstants DEF ShmInv, ShmShape, ShmFresh, ShmLocal, TypeOK, Processes
<1>2. \A p \in Processes : pc[p] \in {"off", "c_full", "p_init_head", "p_init_tail"}
  BY <1>1 DEF Processes
<1>3. Contents = <<>>
  BY DEF Contents
<1> DEFINE Goal == Contents' = <<>> /\ \A c \in Consumers : pc'[c] \notin Reported /\ got'[c] = NULL
<1> HIDE DEF Goal
<1>4. ASSUME StartProducer PROVE Goal
  BY <1>1, <1>4 DEF StartProducer, Goto, Goal, Contents, Reported, locals
<1>5. ASSUME InitHead PROVE Goal
  BY <1>1, <1>5 DEF InitHead, Goto, Goal, Contents, Reported, locals
<1>6. ASSUME InitTail PROVE Goal
  <2>1. head' = -1
    BY <1>1, <1>6 DEF InitTail, Goto
  <2>2. Contents' = <<>>
    BY <2>1 DEF Contents, Ring
  <2> QED
    BY <1>1, <1>6, <2>2 DEF InitTail, Goto, Goal, Reported, locals
<1>7. ASSUME Produce \/ WaitEmpty \/ QueueAdd \/ PostFull PROVE FALSE
  BY <1>1, <1>7 DEF Produce, WaitEmpty, QueueAdd, PostFull, Goto
<1>8. ASSUME NEW c \in Consumers, StartConsumer(c) PROVE Goal
  BY <1>1, <1>8 DEF StartConsumer, Goto, Goal, Contents, Reported, locals
<1>9. ASSUME NEW c \in Consumers, Consumes(c) PROVE FALSE
  BY <1>1, <1>9 DEF Consumes, WaitFull, DeleteTest, DeleteAdvance, DeleteClearHead, DeleteClearTail,
                    PostEmpty, Again, Goto
<1>10. ASSUME NEW p \in Processes, Both(p) PROVE FALSE
  BY <1>2, <1>10 DEF Both, WaitMutex, PostMutex, QueuePrint, PrintWalk, PrintSpin, Goto
<1>11. ASSUME NEW p \in Processes, Kill(p) PROVE Goal
  BY <1>1, <1>11 DEF Kill, Goal, Contents, Reported
<1>12. ASSUME StartProducer \/ InitHead \/ InitTail PROVE Goal
  BY <1>12, <1>4, <1>5, <1>6
<1>13. Goal
  BY <1>7, <1>8, <1>9, <1>10, <1>11, <1>12 DEF Next, Produces
<1>14. Delivered' = Delivered
  BY <1>1, <1>13 DEF Goal, Delivered, Reported
<1> QED
  BY <1>3, <1>13, <1>14 DEF Goal

\* The producer's queue_add on a segment in use puts its value, or drops it.
LEMMA FifoAdd ==
    ASSUME ShmInv, ShmInv', segment = "ready", QueueAdd
    PROVE  F!Next \/ UNCHANGED <<Contents, Delivered>>
<1>1. /\ pc[Producer] = "p_add" /\ pc' = [pc EXCEPT ![Producer] = "p_print"]
      /\ segment' = "ready" /\ UNCHANGED got /\ Producer \in Processes /\ Producer \notin Consumers
  BY ShmConstants DEF QueueAdd, Goto, locals, Processes
<1>2. Delivered' = Delivered
  BY <1>1, DeliveredMoves DEF ShmInv
<1>3. val \in Values /\ arr \in [Index -> Values \cup {NULL}] /\ Size \in Nat /\ Size > 0
  BY <1>1, ShmConstants DEF ShmInv, ShmShape, ShmLocal, TypeOK, Index
<1>4. head \in -1..Size - 1 /\ tail \in -1..Size - 1 /\ (head = -1 <=> tail = -1)
  <2>1. Producer \in Processes /\ pc[Producer] \in Critical
    BY <1>1 DEF Critical
  <2> QED
    BY <1>1, <2>1 DEF ShmInv, ShmShape, ShmReady, TypeOK
<1>5. Contents = (IF head # -1 THEN RingOf(arr, head, tail) ELSE <<>>)
  BY ContentsMeans
<1>6. segment' # "reused" /\ Contents' = (IF head' # -1 THEN RingOf(arr', head', tail') ELSE <<>>)
  <2>1. segment' # "reused"
    BY <1>1
  <2>2. Contents' = (IF segment' = "ready" /\ head' # -1 THEN RingOf(arr', head', tail') ELSE <<>>)
    BY <2>1, ContentsMeansNext
  <2> QED
    BY <1>1, <2>1, <2>2
<1>7. CASE QueueFull
  BY <1>1, <1>2, <1>7 DEF QueueAdd, queue, Contents, Ring
<1>8. CASE ~QueueFull /\ head = -1
  <2>1. head' = 0 /\ tail' = 0 /\ arr' = [arr EXCEPT ![0] = val]
    BY <1>4, <1>8 DEF QueueAdd
  <2>2. 0 \in Index /\ arr' \in [Index -> Values \cup {NULL}] /\ arr'[0] = val
    BY <1>3, <2>1 DEF Index
  <2>3. RingOf(arr', 0, 0) = <<arr'[0]>>
    BY <2>2, RingOne
  <2>4. Contents = <<>> /\ Contents' = <<val>>
    BY <1>5, <1>6, <1>8, <2>1, <2>2, <2>3
  <2>5. F!Put(val)
    BY <1>2, <1>3, <2>4 DEF F!Put
  <2> QED
    BY <1>3, <2>5 DEF F!Next
<1>9. CASE ~QueueFull /\ head # -1
  <2>1. head' = head /\ tail' = (tail + 1) % Size /\ arr' = [arr EXCEPT ![(tail + 1) % Size] = val]
    BY <1>4, <1>9 DEF QueueAdd
  <2>2. head \in Index /\ tail \in Index /\ (tail + 1) % Size # head
    BY <1>3, <1>4, <1>9 DEF Index, QueueFull
  <2>3. val \in Values \cup {NULL} /\ arr \in [Index -> Values \cup {NULL}] /\ tail' \in Index
    BY <1>3, <1>4, <2>1, NextInRing DEF Index
  <2>31. Longer(RingOf(arr, head, tail), RingOf(arr', head, tail'), val)
    <3>1. tail' # head /\ head \in Index /\ tail \in Index
      BY <2>1, <2>2
    <3>2. arr' \in [Index -> Values \cup {NULL}] /\ Written(arr, arr', tail, tail', val)
      BY <2>1, <2>3 DEF Written
    <3> QED
      BY <2>3, <3>1, <3>2, RingPut
  <2>32. head' # -1
    BY <1>9, <2>1
  <2>4. Len(Contents) < Size /\ Contents' = Append(Contents, val)
    BY <1>5, <1>6, <1>9, <2>1, <2>31, <2>32, Zenon DEF Longer
  <2>5. F!Put(val)
    BY <1>2, <2>4 DEF F!Put
  <2> QED
    BY <1>3, <2>5 DEF F!Next
<1> QED
  BY <1>7, <1>8, <1>9

\* The two ways a consumer moves head take the oldest value, and it is the one
\* it reported.
LEMMA FifoDelete ==
    ASSUME ShmInv, ShmInv', segment = "ready", NEW c \in Consumers,
           DeleteAdvance(c) \/ DeleteClearHead(c)
    PROVE  F!Get(c)
<1>1. /\ pc[c] \in Reported /\ segment' = "ready" /\ UNCHANGED <<got, arr, tail>> /\ c \in Processes
      /\ \E l \in {"c_print", "c_clear_tail"} : pc' = [pc EXCEPT ![c] = l]
  BY DEF DeleteAdvance, DeleteClearHead, Goto, locals, Processes, Reported
<1>2. Delivered' = [Delivered EXCEPT ![c] = got[c]]
  <2>1. PICK l \in {"c_print", "c_clear_tail"} : pc' = [pc EXCEPT ![c] = l]
    BY <1>1
  <2>2. l \notin Reported /\ TypeOK
    BY DEF Reported, ShmInv
  <2> QED
    BY <1>1, <2>1, <2>2, DeliveredMoves
<1>3. head # -1 /\ tail # -1 /\ got[c] = arr[head]
  BY <1>1 DEF ShmInv, ShmShape, ShmReady, Reported
<1>4. /\ head \in Index /\ tail \in Index /\ arr \in [Index -> Values \cup {NULL}]
      /\ Size \in Nat /\ Size > 0
  BY <1>3, ShmConstants DEF ShmInv, TypeOK, Index
<1>5. Contents = RingOf(arr, head, tail)
  BY <1>3, ContentsMeans
<1>6. Contents' = (IF head' # -1 THEN RingOf(arr', head', tail') ELSE <<>>)
  <2>1. segment' # "reused"
    BY <1>1
  <2>2. Contents' = (IF segment' = "ready" /\ head' # -1 THEN RingOf(arr', head', tail') ELSE <<>>)
    BY <2>1, ContentsMeansNext
  <2> QED
    BY <1>1, <2>1, <2>2
<1>7. Contents # <<>> /\ Head(Contents) = arr[head] /\ Contents' = Tail(Contents)
  <2>1. CASE DeleteAdvance(c)
    <3>1. head # tail /\ head' = (head + 1) % Size
      BY <2>1 DEF DeleteAdvance, Goto, ShmInv, ShmShape, ShmReady
    <3>2. head' \in Index /\ head' # -1
      BY <1>4, <3>1, NextInRing DEF Index
    <3>3. Contents' = RingOf(arr, (head + 1) % Size, tail)
      BY <1>1, <1>6, <3>1, <3>2
    <3> QED
      BY <1>4, <1>5, <3>1, <3>3, RingGet
  <2>2. CASE DeleteClearHead(c)
    <3>1. head = tail /\ head' = -1
      BY <2>2 DEF DeleteClearHead, Goto, ShmInv, ShmShape, ShmReady
    <3>2. Contents' = <<>>
      BY <1>6, <3>1
    <3>3. Contents = <<arr[head]>>
      BY <1>4, <1>5, <3>1, RingOne
    <3> QED
      BY <3>2, <3>3
  <2> QED
    BY <2>1, <2>2
<1> QED
  BY <1>2, <1>3, <1>7 DEF F!Get

\* Every other step on a segment in use leaves the queue alone.
LEMMA FifoRest ==
    ASSUME ShmInv, ShmInv', segment = "ready", segment' = "ready", Next, ~QueueAdd,
           \A c \in Consumers : ~DeleteAdvance(c) /\ ~DeleteClearHead(c)
    PROVE  F!Next \/ UNCHANGED <<Contents, Delivered>>
<1>1. /\ TypeOK /\ pc \in [Processes -> PCs] /\ got \in [Consumers -> Values \cup {NULL}]
      /\ Producer \in Processes /\ Consumers \subseteq Processes /\ Producer \notin Consumers
  BY ShmConstants DEF ShmInv, TypeOK, Processes
<1>2. /\ \A c \in Consumers : pc[c] \in ConsumerPCs
      /\ \A c \in Consumers : pc[c] \in {"off", "c_full", "c_mutex", "c_test"} => got[c] = NULL
      /\ pc[Producer] \notin {"p_init_head", "p_init_tail"}
  BY DEF ShmInv, ShmShape, ShmLocal, ShmReady
\* The ring is not touched.
<1>3. ASSUME UNCHANGED queue PROVE Contents' = Contents
  BY <1>3 DEF queue, Contents, Ring
\* A process that is not a consumer, or one that keeps what it got, moves.
<1>4. ASSUME NEW p \in Processes, NEW l, l \notin Reported, pc' = [pc EXCEPT ![p] = l],
             p \in Consumers => pc[p] \notin Reported, UNCHANGED <<queue, got>>
      PROVE  UNCHANGED <<Contents, Delivered>>
  <2>1. Delivered' = Delivered
    BY <1>1, <1>4, DeliveredMoves
  <2> QED
    BY <1>3, <1>4, <2>1
<1>5. CASE Produce \/ WaitEmpty \/ PostFull
  <2>1. PICK l \in {"p_empty", "p_mutex", "p_produce"} : pc' = [pc EXCEPT ![Producer] = l]
    BY <1>5 DEF Produce, WaitEmpty, PostFull, Goto
  <2>2. l \notin Reported /\ UNCHANGED <<queue, got>>
    BY <1>5 DEF Produce, WaitEmpty, PostFull, locals, Reported
  <2> QED
    BY <1>1, <1>4, <2>1, <2>2
<1>6. ASSUME InitHead \/ InitTail PROVE FALSE
  BY <1>2, <1>6 DEF InitHead, InitTail, Goto
<1>7. ASSUME StartProducer PROVE FALSE
  BY <1>7 DEF StartProducer
<1>8. ASSUME NEW c \in Consumers, StartConsumer(c) \/ WaitFull(c) \/ PostEmpty(c)
      PROVE  UNCHANGED <<Contents, Delivered>>
  <2>1. PICK l \in {"c_full", "c_mutex", "c_done"} : pc' = [pc EXCEPT ![c] = l]
    BY <1>8 DEF StartConsumer, WaitFull, PostEmpty, Goto
  <2>2. l \notin Reported /\ pc[c] \notin Reported /\ UNCHANGED <<queue, got>>
    BY <1>8 DEF StartConsumer, WaitFull, PostEmpty, Goto, locals, Reported
  <2> QED
    BY <1>1, <1>4, <2>1, <2>2
<1>9. ASSUME NEW c \in Consumers, DeleteTest(c) PROVE UNCHANGED <<Contents, Delivered>>
  <2>1. /\ pc[c] = "c_test" /\ UNCHANGED queue /\ got[c] = NULL
        /\ \A d \in Consumers : d # c => got'[d] = got[d]
    BY <1>1, <1>2, <1>9 DEF DeleteTest
  <2>2. PICK l \in {"c_print", "c_clear_head", "c_advance"} :
            pc' = [pc EXCEPT ![c] = l] /\ (l = "c_print" => head = -1)
    BY <1>9 DEF DeleteTest
  <2>3. l \notin Reported => got'[c] = got[c]
    BY <1>1, <1>9, <2>1, <2>2 DEF DeleteTest, Reported
  <2>4. pc[c] \notin Reported /\ c \in Processes
    BY <1>1, <2>1 DEF Reported
  <2>5. Delivered' = Delivered
    BY <1>1, <2>1, <2>2, <2>3, <2>4, DeliveredMoves
  <2> QED
    BY <1>3, <2>1, <2>5
<1>10. ASSUME NEW c \in Consumers, DeleteClearTail(c) PROVE UNCHANGED <<Contents, Delivered>>
  <2>1. /\ pc[c] = "c_clear_tail" /\ pc' = [pc EXCEPT ![c] = "c_print"] /\ UNCHANGED <<head, got>>
    BY <1>10 DEF DeleteClearTail, Goto, locals
  <2>2. head = -1
    BY <2>1 DEF ShmInv, ShmShape, ShmReady
  <2>3. Contents' = Contents
    BY <2>1, <2>2 DEF Contents, Ring
  <2>4. pc[c] \notin Reported /\ "c_print" \notin Reported /\ c \in Processes
    BY <1>1, <2>1 DEF Reported
  <2>5. Delivered' = Delivered
    BY <1>1, <2>1, <2>4, DeliveredMoves
  <2> QED
    BY <2>3, <2>5
<1>11. ASSUME NEW c \in Consumers, Again(c) PROVE F!Next
  <2>1. /\ pc' = [pc EXCEPT ![c] = "c_full"] /\ UNCHANGED queue /\ got'[c] = NULL
        /\ \A d \in Consumers : d # c => got'[d] = got[d]
    BY <1>1, <1>11 DEF Again, Goto
  <2>2. "c_full" \notin Reported /\ c \in Processes
    BY <1>1 DEF Reported
  <2>3. Delivered' = [Delivered EXCEPT ![c] = NULL]
    BY <1>1, <2>1, <2>2, DeliveredMoves
  <2>4. F!Handled(c)
    BY <1>3, <2>1, <2>3 DEF F!Handled
  <2> QED
    BY <2>4 DEF F!Next
<1>12. ASSUME NEW p \in Processes, Kill(p) PROVE F!Next \/ UNCHANGED <<Contents, Delivered>>
  <2>1. /\ pc' = [pc EXCEPT ![p] = "off"] /\ UNCHANGED queue
        /\ p \in Consumers => got'[p] = NULL
        /\ \A d \in Consumers : d # p => got'[d] = got[d]
    BY <1>1, <1>12 DEF Kill
  <2>2. "off" \notin Reported
    BY DEF Reported
  <2>3. CASE p \in Consumers
    <3>1. Delivered' = [Delivered EXCEPT ![p] = NULL]
      BY <1>1, <2>1, <2>2, <2>3, DeliveredMoves
    <3>2. F!Handled(p)
      BY <1>3, <2>1, <3>1 DEF F!Handled
    <3> QED
      BY <2>3, <3>2 DEF F!Next
  <2>4. CASE p \notin Consumers
    <3>1. Delivered' = Delivered
      BY <1>1, <2>1, <2>4, DeliveredMoves
    <3> QED
      BY <1>3, <2>1, <3>1
  <2> QED
    BY <2>3, <2>4
<1>13. ASSUME NEW p \in Processes, WaitMutex(p) \/ PostMutex(p) \/ QueuePrint(p) \/ PrintWalk(p)
       PROVE  UNCHANGED <<Contents, Delivered>>
  <2> DEFINE L == {"p_add", "c_test", "p_post_full", "c_post_empty", "p_post_mutex", "c_post_mutex",
                   "p_walk", "c_walk"}
  <2>1. PICK l \in L : pc' = [pc EXCEPT ![p] = l]
    BY <1>13 DEF WaitMutex, PostMutex, QueuePrint, PrintWalk, Goto
  <2>2. pc[p] \notin Reported /\ UNCHANGED <<queue, got>>
    BY <1>13 DEF WaitMutex, PostMutex, QueuePrint, PrintWalk, Goto, locals, Reported
  <2>3. l \notin Reported
    BY DEF Reported
  <2> QED
    BY <1>4, <2>1, <2>2, <2>3
<1>14. ASSUME NEW p \in Processes, PrintSpin(p) PROVE UNCHANGED <<Contents, Delivered>>
  BY <1>14 DEF PrintSpin, vars, queue, locals, Contents, Ring, Delivered
<1>15. CASE Produces
  BY <1>5, <1>6, <1>15 DEF Produces
<1>16. ASSUME NEW c \in Consumers, StartConsumer(c) \/ Consumes(c)
       PROVE  F!Next \/ UNCHANGED <<Contents, Delivered>>
  BY <1>8, <1>9, <1>10, <1>11, <1>16 DEF Consumes
<1>17. ASSUME NEW p \in Processes, Both(p) \/ Kill(p)
       PROVE  F!Next \/ UNCHANGED <<Contents, Delivered>>
  BY <1>12, <1>13, <1>14, <1>17 DEF Both
<1> QED
  BY <1>7, <1>15, <1>16, <1>17 DEF Next

\* A segment that was reused stays reused.
LEMMA ReusedStays == TypeOK /\ Next /\ segment' # "reused" => segment # "reused"
  BY DEF Next, StartProducer, Produces, InitHead, InitTail, Produce, WaitEmpty, QueueAdd, PostFull,
         StartConsumer, Consumes, WaitFull, DeleteTest, DeleteAdvance, DeleteClearHead,
         DeleteClearTail, PostEmpty, Again, Both, WaitMutex, PostMutex, QueuePrint, PrintWalk,
         PrintSpin, Kill, vars, TypeOK

LEMMA ReadyStays == TypeOK /\ Next /\ segment = "ready" => segment' \in {"ready", "reused"}
  BY DEF Next, StartProducer, Produces, InitHead, InitTail, Produce, WaitEmpty, QueueAdd, PostFull,
         StartConsumer, Consumes, WaitFull, DeleteTest, DeleteAdvance, DeleteClearHead,
         DeleteClearTail, PostEmpty, Again, Both, WaitMutex, PostMutex, QueuePrint, PrintWalk,
         PrintSpin, Kill, vars, TypeOK

\* Every step is a step of the abstract queue or a stutter of it, until a
\* producer is started on a segment in use.
LEMMA FifoStep ==
    ShmInv /\ ShmInv' /\ [Next]_vars =>
        [segment' = "reused" \/ F!Next]_<<Contents, Delivered>>
<1> SUFFICES ASSUME ShmInv, ShmInv', [Next]_vars, segment' # "reused"
             PROVE  F!Next \/ UNCHANGED <<Contents, Delivered>>
  OBVIOUS
<1>1. CASE UNCHANGED vars
  BY <1>1 DEF vars, queue, locals, Contents, Ring, Delivered
<1>2. CASE Next
  <2>1. TypeOK /\ segment \in {"absent", "zeroed", "ready"}
    BY <1>2, ReusedStays DEF ShmInv, TypeOK
  <2>2. CASE segment \in {"absent", "zeroed"}
    BY <1>2, <2>2, FifoFresh
  <2>3. CASE segment = "ready"
    <3>1. segment' = "ready"
      BY <1>2, <2>1, <2>3, ReadyStays
    <3>2. ASSUME NEW c \in Consumers, DeleteAdvance(c) \/ DeleteClearHead(c) PROVE F!Next
      BY <2>3, <3>2, FifoDelete DEF F!Next
    <3> QED
      BY <1>2, <2>3, <3>1, <3>2, FifoAdd, FifoRest
  <2> QED
    BY <2>1, <2>2, <2>3
<1> QED
  BY <1>1, <1>2

\* queue_add and queue_delete: for any ring, any consumers and any kills, what is
\* inside comes out in the order it went in, each value to one consumer, and nothing
\* is lost or duplicated, until a producer is started on a segment in use.
THEOREM ShmImplementsFifo == Spec => ImplementsFifo
<1>1. Init => F!Init
  BY DEF Init, F!Init, Contents, Delivered, Processes
<1>2. ShmInv /\ ShmInv' /\ [Next]_vars =>
        [segment' = "reused" \/ F!Next]_<<Contents, Delivered>>
  BY FifoStep
<1> QED
  BY <1>1, <1>2, ShmInvHolds, PTL DEF Spec, ImplementsFifo

=============================================================================
