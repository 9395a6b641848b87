-------------------------- MODULE ConnMgrPoolProofs --------------------------
(***************************************************************************)
(* Proofs about ConnMgrPool, for any number of threads and connections,    *)
(* any max_pool_size, with or without try_pop, malloc failures and callers *)
(* that destroy connections.                                               *)
(*                                                                         *)
(* TypeOK is not inductive: that push finds a connection to push, and that *)
(* a connect in progress still has room in the pool, must be carried along *)
(* (Pending).                                                              *)
(***************************************************************************)
EXTENDS ConnMgrPool, FiniteSetTheorems, TLAPS

\* A thread inside push has a connection to give; a thread inside
\* conn_mgr_conn_new came there with an empty queue and a pool that may grow.
Pending ==
    \A t \in Threads :
        /\ pc[t] \in {"push_lock", "push_crit"} => conn[t] # NULL
        /\ pc[t] \in {"connecting", "try_connecting"} =>
              queue = <<>> /\ size < MaxPoolSize

Inv == TypeOK /\ Pending /\ size <= MaxPoolSize

\* Initially every thread is idle and nothing is open.
LEMMA InitInv == Init => Inv /\ ExclusiveUse
BY PoolConstants DEF Init, Inv, TypeOK, Pending, ExclusiveUse, PCs, Critical, Locking, QueueSet

\* Every step preserves the inductive invariant.
LEMMA StepInv == Inv /\ [Next]_vars => Inv'
<1> SUFFICES ASSUME Inv, [Next]_vars PROVE Inv'
  OBVIOUS
<1> USE PoolConstants DEF Inv, TypeOK, Pending, PCs, Critical, Locking, Goto
<1>1. ASSUME NEW t \in Threads, Lock(t) PROVE Inv'
  BY <1>1 DEF Lock, AfterLock
<1>2. ASSUME NEW t \in Threads, Unlock(t) PROVE Inv'
  BY <1>2 DEF Unlock
<1>3. ASSUME NEW t \in Threads, PopTake(t) \/ TryTake(t) PROVE Inv'
  <2>1. Head(queue) \in Conns /\ Tail(queue) \in Seq(Conns)
    BY <1>3 DEF PopTake, TryTake, Take
  <2>2. pc[t] \in {"pop_loop", "try_loop"} /\ Take(t)
    BY <1>3 DEF PopTake, TryTake
  <2>3. TypeOK'
    BY <2>1, <2>2 DEF Take
  <2>4. Pending' /\ (size <= MaxPoolSize)'
    BY <2>2 DEF Take
  <2> QED BY <2>3, <2>4
<1>4. ASSUME NEW t \in Threads, PopConnect(t) \/ TryConnect(t) PROVE Inv'
  <2>1. CASE PopConnect(t)
    BY <2>1 DEF PopConnect
  <2>2. CASE TryConnect(t)
    BY <2>2 DEF TryConnect
  <2> QED BY <1>4, <2>1, <2>2
<1>5. ASSUME NEW t \in Threads, PopConnected(t) PROVE Inv'
  <2>1. \A u \in Threads : pc[u] \in {"connecting", "try_connecting"} => u = t
    BY <1>5 DEF PopConnected
  <2>2. open' \subseteq Conns /\ conn' \in [Threads -> Conns \cup {NULL}]
    BY <1>5 DEF PopConnected
  <2>3. size' \in Nat /\ size' <= MaxPoolSize
    BY <1>5 DEF PopConnected
  <2>4. TypeOK'
    BY <1>5, <2>2, <2>3 DEF PopConnected
  <2>5. Pending'
    BY <1>5, <2>1 DEF PopConnected
  <2> QED BY <2>3, <2>4, <2>5
<1>6. ASSUME NEW t \in Threads, PopWait(t) PROVE Inv'
  BY <1>6 DEF PopWait
<1>7. ASSUME NEW t \in Threads, SpuriousWake(t) PROVE Inv'
  BY <1>7 DEF SpuriousWake
<1>8. ASSUME NEW t \in Threads, TryConnected(t) PROVE Inv'
  BY <1>8 DEF TryConnected
<1>9. ASSUME NEW t \in Threads, PushHead(t) PROVE Inv'
  <2>1. queue' \in Seq(Conns)
    <3>1. conn[t] \in Conns
      BY <1>9 DEF PushHead
    <3>2. <<conn[t]>> \o queue \in Seq(Conns)
      BY <3>1
    <3> QED BY <1>9, <3>2 DEF PushHead
  <2>2. pc[t] = "push_crit" /\ pc' \in [Threads -> PCs] /\ pc'[t] = "unlock"
    BY <1>9 DEF PushHead, Signal, Waiting
  <2>3. \A u \in Threads \ {t} : pc'[u] = pc[u] \/ (pc[u] = "waiting" /\ pc'[u] = "woken")
    BY <1>9 DEF PushHead, Signal, Waiting
  <2>4. TypeOK'
    BY <1>9, <2>1, <2>2, <2>3 DEF PushHead
  <2>5. Pending'
    BY <1>9, <2>2, <2>3 DEF PushHead
  <2> QED BY <1>9, <2>4, <2>5 DEF PushHead
<1>10. ASSUME NEW t \in Threads, Call(t) PROVE Inv'
  <2>1. CASE PopCall(t)
    BY <2>1 DEF PopCall
  <2>2. CASE TryCall(t)
    BY <2>2 DEF TryCall
  <2>3. CASE PushCall(t)
    BY <2>3 DEF PushCall
  <2>4. CASE ConnDestroy(t)
    BY <2>4 DEF ConnDestroy
  <2> QED BY <1>10, <2>1, <2>2, <2>3, <2>4 DEF Call
<1>11. CASE PoolDestroy
  BY <1>11 DEF PoolDestroy
<1>12. CASE UNCHANGED vars
  BY <1>12 DEF vars
<1> QED
  BY <1>1, <1>2, <1>3, <1>4, <1>5, <1>6, <1>7, <1>8, <1>9, <1>10, <1>11, <1>12
     DEF Next, Step, TrySpin, Finished

\* Types and mutual exclusion: the thread that runs a critical section of
\* conn_mgr_pool.c is the one that holds pool->mutex.
THEOREM PoolTyped == Spec => []TypeOK
<1>1. Inv => TypeOK
  BY DEF Inv
<1> QED
  BY InitInv, StepInv, <1>1, PTL DEF Spec

-----------------------------------------------------------------------------

\* What push_head does to the contents of the queue: one element more, in
\* front, and the others moved by one.
LEMMA PushedQueue ==
    ASSUME NEW S, NEW q \in Seq(S), NEW x \in S
    PROVE  LET r == <<x>> \o q
           IN  /\ r \in Seq(S) /\ Len(r) = Len(q) + 1
               /\ r[1] = x
               /\ \A i \in 2..Len(r) : i - 1 \in 1..Len(q) /\ r[i] = q[i - 1]
OBVIOUS

\* What pop_head does: the others move by one the other way.
LEMMA PoppedQueue ==
    ASSUME NEW S, NEW q \in Seq(S), q # <<>>
    PROVE  /\ Tail(q) \in Seq(S) /\ Len(Tail(q)) = Len(q) - 1
           /\ 1 \in 1..Len(q) /\ Head(q) = q[1]
           /\ \A i \in 1..Len(Tail(q)) : i + 1 \in 2..Len(q) /\ Tail(q)[i] = q[i + 1]
OBVIOUS

\* Taking the head of the queue hands it to one thread only.
LEMMA TakeExclusive ==
    ASSUME Inv, ExclusiveUse, NEW t \in Threads, Take(t)
    PROVE  ExclusiveUse'
<1> USE PoolConstants DEF Inv, TypeOK, ExclusiveUse, QueueSet, Take
<1>1. /\ Len(Tail(queue)) = Len(queue) - 1
      /\ 1 \in 1..Len(queue) /\ Head(queue) = queue[1]
      /\ \A i \in 1..Len(Tail(queue)) :
            i + 1 \in 2..Len(queue) /\ Tail(queue)[i] = queue[i + 1]
  BY PoppedQueue
<1>2. conn'[t] = queue[1] /\ \A u \in Threads \ {t} : conn'[u] = conn[u]
  BY <1>1
<1>3. Len(queue) \in Nat /\ Len(queue') = Len(queue) - 1
  BY <1>1
<1>4. \A i \in 1..Len(queue') : i + 1 \in 1..Len(queue) /\ i + 1 # 1 /\ queue'[i] = queue[i + 1]
  BY <1>1, <1>3
<1>5. \A u, v \in Threads : conn'[u] # NULL /\ conn'[u] = conn'[v] => u = v
  BY <1>1, <1>2
<1>6. \A u \in Threads : \A i \in 1..Len(queue') : conn'[u] # queue'[i]
  BY <1>1, <1>2, <1>4
<1>7. \A i, j \in 1..Len(queue') : queue'[i] = queue'[j] => i = j
  <2> TAKE i \in 1..Len(queue'), j \in 1..Len(queue')
  <2> HAVE queue'[i] = queue'[j]
  <2>1. i + 1 = j + 1
    BY <1>4
  <2> QED BY <2>1, <1>3
<1>8. \A i \in 1..Len(queue') : queue'[i] \in open'
  BY <1>4
<1>9. \A u \in Threads : conn'[u] # NULL => conn'[u] \in open'
  BY <1>1, <1>2
<1> QED
  BY <1>5, <1>6, <1>7, <1>8, <1>9

\* Giving a connection back moves it from the thread to the queue.
LEMMA PushExclusive ==
    ASSUME Inv, ExclusiveUse, NEW t \in Threads, PushHead(t)
    PROVE  ExclusiveUse'
<1>1. /\ conn[t] \in Conns /\ conn[t] # NULL /\ conn[t] \in open
      /\ conn'[t] = NULL
      /\ \A u \in Threads \ {t} : conn'[u] = conn[u] /\ conn[u] # conn[t]
      /\ open' = open
  BY PoolConstants DEF Inv, TypeOK, Pending, ExclusiveUse, PushHead
<1>2. /\ \A u \in Threads : \A i \in 1..Len(queue) : conn[u] # queue[i]
      /\ \A i, j \in 1..Len(queue) : queue[i] = queue[j] => i = j
      /\ \A i \in 1..Len(queue) : queue[i] \in open /\ queue[i] # NULL
  BY PoolConstants DEF Inv, TypeOK, ExclusiveUse, QueueSet
<1>3. /\ \A u, v \in Threads : conn'[u] # NULL /\ conn'[u] = conn'[v] => u = v
      /\ \A u \in Threads : conn'[u] # NULL => conn'[u] \in open'
  BY <1>1 DEF ExclusiveUse
<1>4. CASE queue' = queue
  BY <1>1, <1>2, <1>3, <1>4 DEF ExclusiveUse, QueueSet
<1>5. CASE queue' = <<conn[t]>> \o queue
  <2>1. /\ Len(queue') = Len(queue) + 1
        /\ queue'[1] = conn[t]
        /\ \A i \in 2..Len(queue') : i - 1 \in 1..Len(queue) /\ queue'[i] = queue[i - 1]
    BY <1>1, <1>5, PushedQueue DEF Inv, TypeOK
  <2>2. Len(queue) \in Nat
    BY DEF Inv, TypeOK
  <2>3. \A i \in 1..Len(queue') :
          \/ i = 1 /\ queue'[i] = conn[t]
          \/ i - 1 \in 1..Len(queue) /\ queue'[i] = queue[i - 1]
    BY <2>1, <2>2
  <2>4. \A u \in Threads : \A i \in 1..Len(queue') : conn'[u] # queue'[i]
    BY <1>1, <1>2, <2>3
  <2>5. \A i, j \in 1..Len(queue') : queue'[i] = queue'[j] => i = j
    <3> TAKE i \in 1..Len(queue'), j \in 1..Len(queue')
    <3> HAVE queue'[i] = queue'[j]
    <3>1. CASE i - 1 \in 1..Len(queue) /\ j - 1 \in 1..Len(queue)
                 /\ queue'[i] = queue[i - 1] /\ queue'[j] = queue[j - 1]
      <4>1. i - 1 = j - 1
        BY <1>2, <3>1
      <4> QED BY <4>1, <2>1, <2>2
    <3> QED BY <1>2, <2>3, <3>1
  <2>6. \A i \in 1..Len(queue') : queue'[i] \in open'
    BY <1>1, <1>2, <2>3
  <2> QED
    BY <1>3, <2>4, <2>5, <2>6 DEF ExclusiveUse, QueueSet
<1> QED
  BY <1>4, <1>5 DEF PushHead

\* Every step preserves the exclusive use of connections.
LEMMA StepExclusive == Inv /\ ExclusiveUse /\ [Next]_vars => ExclusiveUse'
<1> SUFFICES ASSUME Inv, ExclusiveUse, [Next]_vars PROVE ExclusiveUse'
  OBVIOUS
<1> USE PoolConstants DEF Inv, TypeOK
<1>1. CASE UNCHANGED <<queue, open, conn>>
  BY <1>1 DEF ExclusiveUse, QueueSet
<1>2. ASSUME NEW t \in Threads, PopTake(t) \/ TryTake(t) PROVE ExclusiveUse'
  BY <1>2, TakeExclusive DEF PopTake, TryTake
<1>3. ASSUME NEW t \in Threads, PushHead(t) PROVE ExclusiveUse'
  BY <1>3, PushExclusive
<1>4. ASSUME NEW t \in Threads, PopConnected(t) PROVE ExclusiveUse'
  <2>1. CASE UNCHANGED <<open, conn>>
    BY <1>1, <1>4, <2>1 DEF PopConnected
  <2>2. ASSUME NEW c \in Conns \ open, open' = open \cup {c},
               conn' = [conn EXCEPT ![t] = c]
        PROVE ExclusiveUse'
    <3>1. queue' = queue
      BY <1>4 DEF PopConnected
    <3>2. conn'[t] = c /\ \A u \in Threads \ {t} : conn'[u] = conn[u]
      BY <2>2
    <3>3. /\ \A u \in Threads : conn[u] # c
          /\ \A i \in 1..Len(queue) : queue[i] # c
      BY <2>2 DEF ExclusiveUse, QueueSet
    <3>4. \A u, v \in Threads : conn'[u] # NULL /\ conn'[u] = conn'[v] => u = v
      <4>1. \A u, v \in Threads : conn[u] # NULL /\ conn[u] = conn[v] => u = v
        BY DEF ExclusiveUse
      <4> QED BY <3>2, <3>3, <4>1
    <3>5. \A u \in Threads : conn'[u] \notin QueueSet
      <4>1. \A u \in Threads : conn[u] \notin QueueSet
        BY DEF ExclusiveUse
      <4>2. c \notin QueueSet
        BY <3>3 DEF QueueSet
      <4> QED BY <3>2, <4>1, <4>2
    <3>6. \A u \in Threads : conn'[u] # NULL => conn'[u] \in open'
      <4>1. \A u \in Threads : conn[u] # NULL => conn[u] \in open
        BY DEF ExclusiveUse
      <4> QED BY <2>2, <3>2, <4>1
    <3>7. QueueSet' = QueueSet
      BY <3>1 DEF QueueSet
    <3> QED BY <2>2, <3>1, <3>4, <3>5, <3>6, <3>7 DEF ExclusiveUse
  <2> QED BY <1>4, <2>1, <2>2 DEF PopConnected
<1>5. ASSUME NEW t \in Threads, TryConnected(t) PROVE ExclusiveUse'
  BY <1>5 DEF TryConnected, ExclusiveUse, QueueSet
<1>6. ASSUME NEW t \in Threads, ConnDestroy(t) PROVE ExclusiveUse'
  BY <1>6 DEF ConnDestroy, ExclusiveUse, QueueSet
<1>7. CASE PoolDestroy
  BY <1>7 DEF PoolDestroy, ExclusiveUse, QueueSet
<1> QED
  BY <1>1, <1>2, <1>3, <1>4, <1>5, <1>6, <1>7
     DEF Next, Step, Call, Lock, Unlock, PopConnect, PopWait, SpuriousWake, TryConnect,
         TrySpin, PopCall, TryCall, PushCall, Finished, vars

\* A connection is never in two hands, whatever the threads do and however
\* malloc fails.
THEOREM PoolExclusive == Spec => []ExclusiveUse
BY InitInv, StepInv, StepExclusive, PTL DEF Spec

-----------------------------------------------------------------------------

\* Opening a connection adds one to those that exist, and size counts it;
\* every other step opens none.
LEMMA StepBound == Inv /\ PoolBound /\ [Next]_vars => PoolBound'
<1> SUFFICES ASSUME Inv, PoolBound, [Next]_vars PROVE PoolBound'
  OBVIOUS
<1>1. Inv'
  BY StepInv
<1>2. /\ IsFiniteSet(open) /\ Cardinality(open) \in Nat
      /\ size \in Nat /\ size' \in Nat /\ size' <= MaxPoolSize /\ MaxPoolSize \in Nat
  BY <1>1, FS_Subset, FS_CardinalityType, PoolConstants DEF Inv, TypeOK
<1>3. ASSUME open' \subseteq open, size' >= size PROVE PoolBound'
  <2>1. Cardinality(open') <= Cardinality(open) /\ Cardinality(open') \in Nat
    BY <1>2, <1>3, FS_Subset, FS_CardinalityType
  <2> QED BY <1>2, <1>3, <2>1 DEF PoolBound
<1>4. ASSUME NEW c \in Conns \ open, open' = open \cup {c}, size' = size + 1
      PROVE  PoolBound'
  <2>1. Cardinality(open') = Cardinality(open) + 1
    BY <1>2, <1>4, FS_AddElement
  <2> QED BY <1>2, <1>4, <2>1 DEF PoolBound
<1>5. ASSUME NEW t \in Threads, PopConnected(t) \/ TryConnected(t) PROVE PoolBound'
  BY <1>2, <1>3, <1>4, <1>5 DEF PopConnected, TryConnected
<1>6. CASE UNCHANGED <<open, size>>
  BY <1>2, <1>3, <1>6
<1>7. ASSUME NEW t \in Threads, ConnDestroy(t) PROVE PoolBound'
  BY <1>2, <1>3, <1>7 DEF ConnDestroy
<1>8. CASE PoolDestroy
  BY <1>2, <1>3, <1>8 DEF PoolDestroy
<1> QED
  BY <1>5, <1>6, <1>7, <1>8
     DEF Next, Step, Call, Lock, Unlock, PopTake, TryTake, Take, PopConnect, PopWait,
         SpuriousWake, TryConnect, TrySpin, PushHead, PopCall, TryCall, PushCall, Finished, vars

\* There are never more than max_pool_size connections.
THEOREM PoolBounded == Spec => []PoolBound
<1>1. Init => PoolBound
  BY PoolConstants, FS_EmptySet DEF Init, PoolBound
<1> QED
  BY <1>1, InitInv, StepInv, StepBound, PTL DEF Spec

-----------------------------------------------------------------------------

\* A thread waits only when the pool has grown to its limit, where it stays.
LEMMA StepWaits == Inv /\ WaitsOnlyWhenFull /\ [Next]_vars => WaitsOnlyWhenFull'
<1> SUFFICES ASSUME Inv, WaitsOnlyWhenFull, [Next]_vars, NEW w \in Waiting'
             PROVE  size' = MaxPoolSize
  BY DEF WaitsOnlyWhenFull
<1>1. size \in Nat /\ size' \in Nat /\ size <= MaxPoolSize /\ size' <= MaxPoolSize /\ MaxPoolSize \in Nat
  BY StepInv, PoolConstants DEF Inv, TypeOK
<1>2. ASSUME NEW t \in Threads, PopConnected(t) \/ TryConnected(t) PROVE size' = MaxPoolSize
  <2>1. size' >= size /\ w \in Waiting
    BY <1>1, <1>2 DEF Inv, TypeOK, PopConnected, TryConnected, Goto, Waiting
  <2> QED BY <1>1, <2>1 DEF WaitsOnlyWhenFull
<1>3. ASSUME NEW t \in Threads, PopWait(t) PROVE size' = MaxPoolSize
  BY <1>1, <1>3 DEF PopWait
<1>4. ASSUME NEW t \in Threads, PushHead(t) PROVE size' = MaxPoolSize
  <2>1. w \in Waiting
    BY <1>4 DEF PushHead, Signal, Waiting, Inv, TypeOK
  <2> QED BY <1>4, <2>1 DEF PushHead, WaitsOnlyWhenFull
<1>5. ASSUME NEW t \in Threads, Lock(t) PROVE size' = MaxPoolSize
  <2>1. w \in Waiting
    BY <1>5 DEF Lock, Locking, AfterLock, Waiting, Inv, TypeOK, Goto
  <2> QED BY <1>5, <2>1 DEF Lock, WaitsOnlyWhenFull
<1>6. ASSUME NEW t \in Threads,
             Unlock(t) \/ PopTake(t) \/ TryTake(t) \/ PopConnect(t) \/ TryConnect(t)
               \/ Call(t) \/ SpuriousWake(t)
      PROVE  size' = MaxPoolSize
  <2>1. w \in Waiting /\ size' = size
    BY <1>6 DEF Unlock, PopTake, TryTake, Take, PopConnect, TryConnect, Call, PopCall, TryCall,
                PushCall, ConnDestroy, SpuriousWake, Waiting, Inv, TypeOK, Goto
  <2> QED BY <2>1 DEF WaitsOnlyWhenFull
<1>7. CASE PoolDestroy \/ UNCHANGED vars
  BY <1>7 DEF PoolDestroy, vars, WaitsOnlyWhenFull, Waiting
<1> QED
  BY <1>2, <1>3, <1>4, <1>5, <1>6, <1>7 DEF Next, Step, TrySpin, Finished

\* pop never blocks while it could have connected.
THEOREM PoolWaits == Spec => []WaitsOnlyWhenFull
<1>1. Init => WaitsOnlyWhenFull
  BY DEF Init, WaitsOnlyWhenFull, Waiting
<1> QED
  BY <1>1, InitInv, StepInv, StepWaits, PTL DEF Spec

\* What pop checked before it called conn_mgr_conn_new holds when the call
\* comes back.
THEOREM PoolConnects == Spec => ConnectsOnlyWhenNoneIdle
<1>1. ASSUME Inv, [Next]_vars, open' \ open # {}
      PROVE  queue = <<>> /\ size < MaxPoolSize
  <2>1. PICK t \in Threads : PopConnected(t) \/ TryConnected(t)
    BY <1>1
     DEF Next, Step, Call, Lock, Unlock, PopTake, TryTake, Take, PopConnect, PopWait,
         SpuriousWake, TryConnect, TrySpin, PushHead, PopCall, TryCall, PushCall,
         ConnDestroy, PoolDestroy, Finished, vars
  <2> QED BY <1>1, <2>1 DEF PopConnected, TryConnected, Inv, Pending
<1>2. Inv /\ [Next]_vars => [open' \ open # {} => queue = <<>> /\ size < MaxPoolSize]_vars
  BY <1>1
<1> QED
  BY <1>2, InitInv, StepInv, PTL DEF Spec, ConnectsOnlyWhenNoneIdle

-----------------------------------------------------------------------------

\* As long as somebody sleeps, no step leaves more connections in the queue
\* than there are threads on their way to take one.
LEMMA StepWakeup == Inv /\ NoLostWakeup /\ [Next]_vars => NoLostWakeup'
<1> SUFFICES ASSUME Inv, NoLostWakeup, [Next]_vars, Waiting' # {}
             PROVE  Len(queue') <= Cardinality(Takers')
  BY DEF NoLostWakeup
<1> USE DEF NoLostWakeup
<1>1. /\ IsFiniteSet(Takers) /\ Cardinality(Takers) \in Nat
      /\ IsFiniteSet(Takers') /\ Cardinality(Takers') \in Nat
  BY PoolConstants, FS_Subset, FS_CardinalityType DEF Takers
<1>2. Len(queue) \in Nat /\ Len(queue') \in Nat /\ queue \in Seq(Conns) /\ pc \in [Threads -> PCs]
  BY StepInv DEF Inv, TypeOK
<1>3. CASE queue' = <<>>
  BY <1>1, <1>3
<1>4. ASSUME queue' = queue, Takers \subseteq Takers', Waiting' \subseteq Waiting
      PROVE  Len(queue') <= Cardinality(Takers')
  <2>1. Cardinality(Takers) <= Cardinality(Takers')
    BY <1>1, <1>4, FS_Subset
  <2> QED BY <1>1, <1>2, <1>4, <2>1
<1>5. ASSUME NEW t \in Threads, PopTake(t) \/ TryTake(t)
      PROVE  Len(queue') <= Cardinality(Takers')
  <2>1. t \in Takers /\ Takers' = Takers \ {t} /\ Waiting' = Waiting
    BY <1>2, <1>5 DEF PopTake, TryTake, Take, Goto, Takers, Waiting
  <2>2. Cardinality(Takers') = Cardinality(Takers) - 1
    BY <1>1, <2>1, FS_RemoveElement
  <2>3. Len(queue') = Len(queue) - 1
    BY <1>2, <1>5, PoppedQueue DEF PopTake, TryTake, Take
  <2> QED BY <1>1, <1>2, <2>1, <2>2, <2>3
<1>6. ASSUME NEW t \in Threads, PushHead(t) PROVE Len(queue') <= Cardinality(Takers')
  <2>1. Waiting # {}
    BY <1>2, <1>6 DEF PushHead, Signal, Waiting
  <2>2. PICK w \in Waiting : pc' = [[pc EXCEPT ![t] = "unlock"] EXCEPT ![w] = "woken"]
    BY <1>6, <2>1 DEF PushHead, Signal
  <2>3. w \notin Takers /\ Takers' = Takers \cup {w}
    BY <1>2, <1>6, <2>2 DEF PushHead, Waiting, Takers
  <2>4. Cardinality(Takers') = Cardinality(Takers) + 1
    BY <1>1, <2>3, FS_AddElement
  <2>5. conn[t] \in Conns
    BY <1>6 DEF PushHead, Inv, Pending, TypeOK
  <2>6. Len(queue') <= Len(queue) + 1
    BY <1>2, <1>6, <2>5, PushedQueue DEF PushHead
  <2> QED BY <1>1, <1>2, <2>1, <2>4, <2>6
<1>7. ASSUME NEW t \in Threads,
             PopConnect(t) \/ TryConnect(t) \/ PopConnected(t) \/ TryConnected(t) \/ PopWait(t)
      PROVE  Len(queue') <= Cardinality(Takers')
  BY <1>3, <1>7 DEF PopConnect, TryConnect, PopConnected, TryConnected, PopWait, Inv, Pending
<1>8. ASSUME NEW t \in Threads, Lock(t) PROVE Len(queue') <= Cardinality(Takers')
  <2>1. queue' = queue /\ Takers \subseteq Takers' /\ Waiting' \subseteq Waiting
    BY <1>2, <1>8 DEF Lock, Locking, AfterLock, Goto, Takers, Waiting
  <2> QED BY <1>4, <2>1
<1>9. ASSUME NEW t \in Threads, Unlock(t) \/ Call(t) \/ SpuriousWake(t)
      PROVE  Len(queue') <= Cardinality(Takers')
  <2>1. queue' = queue /\ Takers \subseteq Takers' /\ Waiting' \subseteq Waiting
    BY <1>2, <1>9 DEF Unlock, Call, PopCall, TryCall, PushCall, ConnDestroy, SpuriousWake,
                      Goto, Takers, Waiting
  <2> QED BY <1>4, <2>1
<1>10. CASE PoolDestroy
  BY <1>3, <1>10 DEF PoolDestroy
<1>11. CASE UNCHANGED vars
  BY <1>4, <1>11 DEF vars, Takers, Waiting
<1> QED
  BY <1>5, <1>6, <1>7, <1>8, <1>9, <1>10, <1>11 DEF Next, Step, TrySpin, Finished

\* No signal of conn_mgr_pool_push is lost.
THEOREM PoolWakes == Spec => []NoLostWakeup
<1>1. Init => NoLostWakeup
  BY DEF Init, NoLostWakeup, Waiting
<1> QED
  BY <1>1, InitInv, StepInv, StepWakeup, PTL DEF Spec

-----------------------------------------------------------------------------

\* The users CapacityKept is about: nobody calls try_pop or destroys a
\* connection, and the queue always finds memory.
CarefulUsers == TryPoppers = {} /\ Destroyers = {} /\ ~MallocMayFail

\* Then no thread is inside try_pop, and one inside pop has no connection that
\* the new one could overwrite.
PopsEmptyHanded ==
    \A t \in Threads :
        /\ pc[t] \notin {"try_lock", "try_loop", "try_connecting"}
        /\ pc[t] \in {"pop_lock", "waiting", "woken", "pop_loop", "connecting"} =>
              conn[t] = NULL

\* pop is called empty-handed, and a thread comes to its other places only
\* from there.
LEMMA StepEmptyHanded ==
    CarefulUsers /\ Inv /\ PopsEmptyHanded /\ [Next]_vars => PopsEmptyHanded'
<1> SUFFICES ASSUME CarefulUsers, Inv, PopsEmptyHanded, [Next]_vars PROVE PopsEmptyHanded'
  OBVIOUS
<1>1. pc \in [Threads -> PCs] /\ conn \in [Threads -> Conns \cup {NULL}]
  BY DEF Inv, TypeOK
<1>2. ASSUME NEW t \in Threads, PushHead(t) PROVE PopsEmptyHanded'
  BY <1>1, <1>2 DEF PushHead, Signal, Waiting, PopsEmptyHanded
<1>3. ASSUME NEW t \in Threads, Lock(t) PROVE PopsEmptyHanded'
  BY <1>1, <1>3 DEF Lock, Goto, Locking, AfterLock, PopsEmptyHanded
<1>4. ASSUME NEW t \in Threads, PopConnected(t) PROVE PopsEmptyHanded'
  BY <1>1, <1>4 DEF PopConnected, Goto, PopsEmptyHanded
<1>5. ASSUME NEW t \in Threads,
             Unlock(t) \/ PopTake(t) \/ PopConnect(t) \/ PopWait(t) \/ SpuriousWake(t)
      PROVE  PopsEmptyHanded'
  BY <1>1, <1>5 DEF Unlock, PopTake, Take, PopConnect, PopWait, SpuriousWake, Goto,
                    PopsEmptyHanded
<1>6. ASSUME NEW t \in Threads, Call(t) PROVE PopsEmptyHanded'
  BY <1>1, <1>6 DEF CarefulUsers, Call, PopCall, TryCall, PushCall, ConnDestroy, Goto,
                    PopsEmptyHanded
<1>7. ASSUME NEW t \in Threads
      PROVE  ~(TryTake(t) \/ TryConnect(t) \/ TryConnected(t) \/ TrySpin(t))
  BY DEF TryTake, TryConnect, TryConnected, TrySpin, PopsEmptyHanded
<1>8. CASE PoolDestroy \/ Finished \/ UNCHANGED vars
  BY <1>8 DEF PoolDestroy, Finished, vars, PopsEmptyHanded
<1> QED
  BY <1>2, <1>3, <1>4, <1>5, <1>6, <1>7, <1>8 DEF Next, Step

\* The connections that threads hold.
Held == {conn[t] : t \in Threads} \ {NULL}

\* Every step of careful users moves a connection between the queue and a
\* thread, or opens one that size counts.
LEMMA StepCapacity ==
    CarefulUsers /\ Inv /\ PopsEmptyHanded /\ CapacityKept /\ [Next]_vars => CapacityKept'
<1> DEFINE Kept == Cardinality(open) = size /\ open = QueueSet \cup Held
<1> SUFFICES ASSUME CarefulUsers, Inv, PopsEmptyHanded, CapacityKept, [Next]_vars, pool' = "live"
             PROVE  Kept'
  BY DEF CapacityKept, Held
<1>1. pool = "live"
  BY DEF Next, Step, Call, Lock, Unlock, PopTake, TryTake, Take, PopConnect, PopConnected,
         PopWait, TryConnect, TryConnected, TrySpin, PushHead, PopCall, TryCall, PushCall,
         ConnDestroy, SpuriousWake, PoolDestroy, Finished, vars
<1>2. Kept
  BY <1>1 DEF CapacityKept, Held
<1>3. /\ queue \in Seq(Conns) /\ conn \in [Threads -> Conns \cup {NULL}]
      /\ open \subseteq Conns /\ NULL \notin Conns /\ IsFiniteSet(open) /\ size \in Nat
  BY PoolConstants, FS_Subset DEF Inv, TypeOK
<1>4. CASE UNCHANGED <<queue, size, open, conn>>
  BY <1>2, <1>4 DEF QueueSet, Held
<1>5. ASSUME NEW t \in Threads, PopTake(t) PROVE Kept'
  <2>1. /\ queue # <<>> /\ queue' = Tail(queue) /\ conn[t] = NULL
        /\ conn' = [conn EXCEPT ![t] = Head(queue)]
        /\ open' = open /\ size' = size
    BY <1>5 DEF PopTake, Take, PopsEmptyHanded
  <2>2. /\ Len(Tail(queue)) = Len(queue) - 1 /\ Len(queue) \in Nat
        /\ 1 \in 1..Len(queue) /\ Head(queue) = queue[1]
        /\ \A i \in 1..Len(Tail(queue)) :
              i + 1 \in 2..Len(queue) /\ Tail(queue)[i] = queue[i + 1]
    BY <1>3, <2>1, PoppedQueue
  <2>3. QueueSet = QueueSet' \cup {Head(queue)}
    <3>1. ASSUME NEW i \in 1..Len(queue) PROVE queue[i] \in QueueSet' \cup {Head(queue)}
      <4>1. CASE i = 1
        BY <2>2, <4>1
      <4>2. CASE i # 1
        <5>1. i - 1 \in 1..Len(Tail(queue)) /\ (i - 1) + 1 = i
          BY <2>2, <4>2
        <5>2. Tail(queue)[i - 1] = queue[i]
          BY <2>2, <5>1
        <5> QED BY <2>1, <5>1, <5>2 DEF QueueSet
      <4> QED BY <4>1, <4>2
    <3>2. QueueSet' \subseteq QueueSet
      BY <2>1, <2>2 DEF QueueSet
    <3> QED BY <2>2, <3>1, <3>2 DEF QueueSet
  <2>4. Held' = Held \cup {Head(queue)}
    <3>1. Head(queue) # NULL
      BY <1>3, <2>2
    <3>2. conn'[t] = Head(queue) /\ \A u \in Threads \ {t} : conn'[u] = conn[u]
      BY <1>3, <2>1
    <3> QED BY <2>1, <3>1, <3>2 DEF Held
  <2> QED BY <1>2, <2>1, <2>3, <2>4
<1>6. ASSUME NEW t \in Threads, PushHead(t) PROVE Kept'
  <2>1. /\ queue' = <<conn[t]>> \o queue /\ conn' = [conn EXCEPT ![t] = NULL]
        /\ conn[t] # NULL /\ conn[t] \in Conns
        /\ open' = open /\ size' = size
    BY <1>3, <1>6 DEF PushHead, CarefulUsers, Inv, Pending
  <2>2. /\ Len(queue') = Len(queue) + 1 /\ Len(queue) \in Nat
        /\ queue'[1] = conn[t]
        /\ \A i \in 2..Len(queue') : i - 1 \in 1..Len(queue) /\ queue'[i] = queue[i - 1]
    BY <1>3, <2>1, PushedQueue
  <2>3. QueueSet' = QueueSet \cup {conn[t]}
    <3>1. ASSUME NEW i \in 1..Len(queue) PROVE queue[i] \in QueueSet'
      <4>1. i + 1 \in 2..Len(queue') /\ i + 1 \in 1..Len(queue') /\ queue'[i + 1] = queue[(i + 1) - 1]
        BY <2>2
      <4> QED BY <4>1 DEF QueueSet
    <3>2. ASSUME NEW i \in 1..Len(queue') PROVE queue'[i] \in QueueSet \cup {conn[t]}
      BY <2>2 DEF QueueSet
    <3>3. conn[t] \in QueueSet'
      BY <2>2 DEF QueueSet
    <3> QED BY <3>1, <3>2, <3>3 DEF QueueSet
  <2>4. Held = Held' \cup {conn[t]}
    <3>1. conn'[t] = NULL /\ \A u \in Threads \ {t} : conn'[u] = conn[u]
      BY <1>3, <2>1
    <3> QED BY <2>1, <3>1 DEF Held
  <2> QED BY <1>2, <2>1, <2>3, <2>4
<1>7. ASSUME NEW t \in Threads, PopConnected(t) PROVE Kept'
  <2>1. conn[t] = NULL /\ queue' = queue
    BY <1>7 DEF PopConnected, PopsEmptyHanded
  <2>2. CASE UNCHANGED <<open, conn, size>>
    BY <1>4, <2>1, <2>2
  <2>3. ASSUME NEW c \in Conns \ open, open' = open \cup {c},
               conn' = [conn EXCEPT ![t] = c], size' = size + 1
        PROVE  Kept'
    <3>1. Cardinality(open') = size'
      BY <1>2, <1>3, <2>3, FS_AddElement
    <3>2. conn'[t] = c /\ \A u \in Threads \ {t} : conn'[u] = conn[u]
      BY <1>3, <2>3
    <3>3. Held' = Held \cup {c}
      BY <1>3, <2>1, <2>3, <3>2 DEF Held
    <3> QED BY <1>2, <2>1, <2>3, <3>1, <3>3 DEF QueueSet
  <2> QED BY <1>7, <2>1, <2>2, <2>3 DEF PopConnected
<1>8. ASSUME NEW t \in Threads
      PROVE  ~(TryTake(t) \/ TryConnect(t) \/ TryConnected(t) \/ TrySpin(t) \/ ConnDestroy(t))
  BY DEF TryTake, TryConnect, TryConnected, TrySpin, ConnDestroy, CarefulUsers, PopsEmptyHanded
<1>9. CASE PoolDestroy
  BY <1>9 DEF PoolDestroy
<1> QED
  BY <1>4, <1>5, <1>6, <1>7, <1>8, <1>9
     DEF Next, Step, Call, Lock, Unlock, PopConnect, PopWait, SpuriousWake, PopCall, TryCall,
         PushCall, Finished, vars

\* With careful users the pool never loses count of a connection: each one it
\* counted is open, and idle or with a thread.
THEOREM PoolKeepsCapacity == CarefulUsers /\ Spec => []CapacityKept
<1>1. Init => PopsEmptyHanded /\ CapacityKept
  BY FS_EmptySet DEF Init, PopsEmptyHanded, CapacityKept, QueueSet
<1>2. CarefulUsers => (Inv /\ PopsEmptyHanded /\ CapacityKept /\ [Next]_vars
                         => PopsEmptyHanded' /\ CapacityKept')
  BY StepEmptyHanded, StepCapacity
<1>3. CASE CarefulUsers
  <2>1. Inv /\ PopsEmptyHanded /\ CapacityKept /\ [Next]_vars => PopsEmptyHanded' /\ CapacityKept'
    BY <1>2, <1>3
  <2> QED
    BY <1>1, <2>1, InitInv, StepInv, PTL DEF Spec
<1> QED
  BY <1>3

==============================================================================
