-------------------------- MODULE ProxyWorkerProofs --------------------------
(***************************************************************************)
(* Proofs about the worker of proxy_old: no wake-up is lost, the request   *)
(* list is exact, and the threads stay apart as long as no event overlaps  *)
(* the work for an earlier one.  None of the three is inductive; WInv is.  *)
(***************************************************************************)
EXTENDS ProxyWorker, SequenceTheorems, NaturalsInduction, WellFoundedInduction, TLAPS

WTyped ==
    /\ info \in [Clients -> {"none", "live", "freed"}]
    /\ end \in [Clients -> {"open", "closed", "reset"}]
    /\ sent \in [Clients -> Seq(Bytes)] /\ rx \in [Clients -> Seq(Bytes)]
    /\ buf \in [Clients -> Seq(Bytes)] /\ parsed \in [Clients -> Nat]
    /\ reqs \in [Clients -> Seq(Nat \X Nat)]
    /\ edge \subseteq Clients /\ workq \in Seq(Clients)
    /\ \A e \in batch : e[1] \in Clients
    /\ pc \in [Threads -> {"idle", "alloc", "recv", "parse", "cleanup"}]
    /\ cur \in [Threads -> Clients \cup {NULL}]
    /\ \A t \in Threads : cur[t] = NULL <=> pc[t] = "idle"

\* What is readable was reported, will be, or is yet to be read by its thread.
\* A thread that parses has seen EAGAIN; what came later is reported again.
WEvents ==
    process = "running" =>
        \A c \in Clients : info[c] = "live" /\ Readable(c) =>
            \/ c \in edge \cup missed \cup Queued \cup Batched
            \/ \E t \in Threads : cur[t] = c /\ (pc[t] # "parse" \/ Spoiled(t))

\* The requests r are those of the first p bytes of b, and nothing is between them.
Exact(b, p, r) ==
    /\ p <= Len(b)
    /\ p = IF Len(r) = 0 THEN 0 ELSE r[Len(r)][2]
    /\ \A i \in 1..Len(r) :
          /\ r[i][2] <= p
          /\ r[i][1] = (IF i = 1 THEN 1 ELSE r[i - 1][2] + 1)
          /\ {j \in r[i][1]..r[i][2] : b[j] = "e"} = {r[i][2]}

WData ==
    process = "running" =>
        \A c \in Clients :
            /\ info[c] # "freed" /\ end[c] # "reset" => buf[c] \o rx[c] = sent[c]
            /\ Exact(buf[c], parsed[c], reqs[c])
            /\ info[c] # "freed" /\ c \notin Worked => Unparsed(c, "e") = {}

Once(s) == \A i, j \in 1..Len(s) : s[i] = s[j] => i = j

\* A client has one place at most: epoll's list, the poller's batch, the work
\* queue or a thread; and only a live one has.
WApart ==
    process = "running" /\ ~overlap =>
        /\ Once(workq)
        /\ \A d, e \in batch : d[1] = e[1] => d = e
        /\ \A t, u \in Threads : cur[t] = cur[u] /\ cur[t] # NULL => t = u
        /\ Queued \cap Batched = {} /\ Queued \cap Worked = {} /\ Batched \cap Worked = {}
        /\ edge \cap (Queued \cup Batched \cup Worked) = {}
        /\ \A c \in edge \cup Queued \cup Batched \cup Worked : info[c] = "live"

WInv == WTyped /\ WEvents /\ WData /\ WApart /\ SafeWithoutOverlap

-----------------------------------------------------------------------------
(* What the parser does with a buffer *)

\* A set of numbers has a least one: the parser's next end of headers.
LEMMA Least == ASSUME NEW T \in SUBSET Nat, T # {} PROVE \E x \in T : \A y \in T : x <= y
<1> DEFINE R == OpToRel(<, Nat)
<1>1. IsWellFoundedOn(R, Nat)
  BY NatLessThanWellFounded
<1>2. \A y, x \in Nat : y < x => <<y, x>> \in R
  BY DEF OpToRel
<1> HIDE DEF R
<1>3. \E x \in T : \A y \in T : ~(<<y, x>> \in R)
  BY WFMin, <1>1
<1>4. PICK x \in T : \A y \in T : ~(<<y, x>> \in R)
  BY <1>3
<1>5. ASSUME NEW y \in T PROVE x <= y
  <2>1. x \in Nat /\ y \in Nat
    OBVIOUS
  <2>2. ~(y < x)
    BY <1>2, <1>4, <2>1
  <2> QED
    BY <2>1, <2>2
<1> QED
  BY <1>5

\* An empty buffer has no requests.
LEMMA ExactEmpty == Exact(<<>>, 0, <<>>)
  BY DEF Exact

\* recv appends to the buffer, and the requests stay where they are.
LEMMA ExactGrows ==
    ASSUME NEW b \in Seq(Bytes), NEW t \in Seq(Bytes), NEW p \in Nat,
           NEW r \in Seq(Nat \X Nat), Exact(b, p, r)
    PROVE  Exact(b \o t, p, r)
<1>1. /\ b \o t \in Seq(Bytes) /\ Len(b \o t) = Len(b) + Len(t) /\ Len(b) \in Nat /\ Len(t) \in Nat
      /\ \A j \in 1..Len(b) : (b \o t)[j] = b[j]
  OBVIOUS
<1>2. p <= Len(b \o t)
  BY <1>1 DEF Exact
<1>3. ASSUME NEW i \in 1..Len(r)
      PROVE  {j \in r[i][1]..r[i][2] : (b \o t)[j] = "e"} = {j \in r[i][1]..r[i][2] : b[j] = "e"}
  <2>1. r[i] \in Nat \X Nat /\ (i # 1 => r[i - 1] \in Nat \X Nat)
    BY SMTT(30)
  <2>2. r[i][1] >= 1 /\ r[i][2] <= Len(b)
    BY <1>1, <2>1, SMTT(30) DEF Exact
  <2>3. \A j \in r[i][1]..r[i][2] : (b \o t)[j] = b[j]
    BY <1>1, <2>1, <2>2, SMTT(30)
  <2> QED
    BY <2>3
<1> QED
  BY <1>2, <1>3 DEF Exact

\* The request from p to the first "e" after it is the next of the list.
LEMMA ExactNext ==
    ASSUME NEW b \in Seq(Bytes), NEW p \in Nat, NEW r \in Seq(Nat \X Nat), Exact(b, p, r),
           NEW n \in p + 1..Len(b), b[n] = "e", \A j \in p + 1..Len(b) : b[j] = "e" => n <= j
    PROVE  Exact(b, n, Append(r, <<p + 1, n>>))
<1> DEFINE q == Append(r, <<p + 1, n>>)
           m == Len(r)
<1>1. /\ m \in Nat /\ Len(q) = m + 1 /\ q[m + 1] = <<p + 1, n>> /\ \A i \in 1..m : q[i] = r[i]
      /\ Len(b) \in Nat /\ n \in Nat /\ n > p /\ n <= Len(b)
  OBVIOUS
<1>2. {j \in p + 1..n : b[j] = "e"} = {n}
  <2>1. \A j \in p + 1..n : b[j] = "e" => j = n
    <3> SUFFICES ASSUME NEW j \in p + 1..n, b[j] = "e" PROVE j = n
      OBVIOUS
    <3>1. j \in p + 1..Len(b)
      BY <1>1
    <3>2. n <= j
      BY <3>1
    <3> QED
      BY <1>1, <3>2
  <2>2. n \in p + 1..n
    BY <1>1
  <2> QED
    BY <2>1, <2>2
<1>3. /\ p = IF m = 0 THEN 0 ELSE r[m][2]
      /\ \A i \in 1..m :
          /\ r[i][2] <= p
          /\ r[i][1] = (IF i = 1 THEN 1 ELSE r[i - 1][2] + 1)
          /\ {j \in r[i][1]..r[i][2] : b[j] = "e"} = {r[i][2]}
      /\ \A i \in 1..m : r[i] \in Nat \X Nat
  <2>1. \A i \in 1..m : r[i] \in Nat \X Nat
    OBVIOUS
  <2> QED
    BY <2>1, Zenon DEF Exact
<1> HIDE DEF q, m
<1>4. n <= Len(b) /\ n = IF Len(q) = 0 THEN 0 ELSE q[Len(q)][2]
  BY <1>1
<1>5. ASSUME NEW i \in 1..m
      PROVE  /\ q[i][2] <= n
             /\ q[i][1] = (IF i = 1 THEN 1 ELSE q[i - 1][2] + 1)
             /\ {j \in q[i][1]..q[i][2] : b[j] = "e"} = {q[i][2]}
  <2>1. q[i] = r[i] /\ (i # 1 => q[i - 1] = r[i - 1])
    BY <1>1
  <2>2. r[i][2] \in Nat /\ r[i][2] <= n
    BY <1>1, <1>3, SMTT(30)
  <2>3. r[i][1] = (IF i = 1 THEN 1 ELSE r[i - 1][2] + 1)
    BY <1>3
  <2>4. {j \in r[i][1]..r[i][2] : b[j] = "e"} = {r[i][2]}
    BY <1>3
  <2>5. q[i][1] = (IF i = 1 THEN 1 ELSE q[i - 1][2] + 1)
    BY <2>1, <2>3
  <2> QED
    BY <2>1, <2>2, <2>4, <2>5
<1>6. ASSUME NEW i \in {m + 1}
      PROVE  /\ q[i][2] <= n
             /\ q[i][1] = (IF i = 1 THEN 1 ELSE q[i - 1][2] + 1)
             /\ {j \in q[i][1]..q[i][2] : b[j] = "e"} = {q[i][2]}
  <2>1. q[i][1] = p + 1 /\ q[i][2] = n
    BY <1>1
  <2>2. p + 1 = (IF i = 1 THEN 1 ELSE q[i - 1][2] + 1)
    BY <1>1, <1>3
  <2> QED
    BY <1>1, <1>2, <2>1, <2>2
<1>7. \A i \in 1..(m + 1) : i \in 1..m \/ i = m + 1
  BY <1>1
<1>8. Exact(b, n, q)
  <2> DEFINE Body(i) == /\ q[i][2] <= n
                        /\ q[i][1] = (IF i = 1 THEN 1 ELSE q[i - 1][2] + 1)
                        /\ {j \in q[i][1]..q[i][2] : b[j] = "e"} = {q[i][2]}
  <2>1. \A i \in {m + 1} : Body(i)
    BY <1>6
  <2>2. \A i \in 1..m : Body(i)
    BY <1>5
  <2> HIDE DEF Body
  <2>3. \A i \in 1..(m + 1) : Body(i)
    BY <1>7, <2>1, <2>2, Zenon
  <2>4. \A i \in 1..Len(q) : Body(i)
    BY <1>1, <2>3
  <2> QED
    BY <1>4, <2>4, Zenon DEF Exact, Body
<1> QED
  BY <1>8 DEF q

-----------------------------------------------------------------------------
(* The places of a client *)

\* What queueing and taking from the work queue do to who is in it.
LEMMA QueueAppend ==
    ASSUME NEW c \in Clients, workq \in Seq(Clients), workq' = Append(workq, c)
    PROVE  /\ workq' \in Seq(Clients) /\ Queued' = Queued \cup {c}
           /\ Once(workq) /\ c \notin Queued => Once(workq')
<1>1. /\ workq' \in Seq(Clients) /\ Len(workq) \in Nat /\ Len(workq') = Len(workq) + 1
      /\ workq'[Len(workq) + 1] = c /\ \A i \in 1..Len(workq) : workq'[i] = workq[i]
  OBVIOUS
<1> DEFINE n == Len(workq)
<1>2. n \in Nat /\ Len(workq') = n + 1 /\ workq'[n + 1] = c /\ \A i \in 1..n : workq'[i] = workq[i]
  BY <1>1
<1>3. Queued = {workq[i] : i \in 1..n} /\ Queued' = {workq'[i] : i \in 1..(n + 1)}
  BY <1>2 DEF Queued
<1>4. Once(workq) = (\A i, j \in 1..n : workq[i] = workq[j] => i = j)
  BY DEF Once
<1>5. Once(workq') = (\A i, j \in 1..(n + 1) : workq'[i] = workq'[j] => i = j)
  BY <1>2 DEF Once
<1> HIDE DEF n
<1>6. \A i \in 1..(n + 1) : i \in 1..n \/ i = n + 1
  BY <1>2
<1>7. Queued' = Queued \cup {c}
  BY <1>2, <1>3, <1>6
<1>8. ASSUME Once(workq), c \notin Queued PROVE Once(workq')
  <2>1. \A i, j \in 1..n : workq[i] = workq[j] => i = j
    BY <1>4, <1>8
  <2>2. \A i \in 1..n : workq[i] # c
    BY <1>3, <1>8
  <2>3. \A i, j \in 1..(n + 1) : workq'[i] = workq'[j] => i = j
    BY <1>2, <1>6, <2>1, <2>2
  <2> QED
    BY <1>5, <2>3
<1> QED
  BY <1>1, <1>7, <1>8

LEMMA QueueTake ==
    ASSUME workq \in Seq(Clients), workq # <<>>, workq' = Tail(workq)
    PROVE  /\ workq' \in Seq(Clients) /\ Head(workq) \in Clients
           /\ Queued = Queued' \cup {Head(workq)}
           /\ Once(workq) => Once(workq') /\ Head(workq) \notin Queued'
<1> DEFINE n == Len(workq)
<1>1. /\ workq' \in Seq(Clients) /\ Head(workq) \in Clients /\ Head(workq) = workq[1]
      /\ n \in Nat /\ n >= 1 /\ Len(workq') = n - 1
      /\ \A i \in 1..(n - 1) : workq'[i] = workq[i + 1]
  BY HeadTailProperties
<1>3. Queued = {workq[i] : i \in 1..n} /\ Queued' = {workq'[i] : i \in 1..(n - 1)}
  BY <1>1 DEF Queued
<1>4. Once(workq) = (\A i, j \in 1..n : workq[i] = workq[j] => i = j)
  BY DEF Once
<1>5. Once(workq') = (\A i, j \in 1..(n - 1) : workq'[i] = workq'[j] => i = j)
  BY <1>1 DEF Once
<1> HIDE DEF n
<1>6. 1 \in 1..n /\ (\A i \in 1..(n - 1) : i + 1 \in 1..n /\ i + 1 # 1)
      /\ \A i \in 1..n : i = 1 \/ (i - 1 \in 1..(n - 1) /\ (i - 1) + 1 = i)
  BY <1>1
<1>7. Queued = Queued' \cup {Head(workq)}
  <2>1. Queued' \subseteq Queued /\ Head(workq) \in Queued
    BY <1>1, <1>3, <1>6
  <2>2. ASSUME NEW i \in 1..n PROVE workq[i] \in Queued' \cup {Head(workq)}
    <3>1. CASE i = 1
      BY <1>1, <3>1
    <3>2. CASE i - 1 \in 1..(n - 1) /\ (i - 1) + 1 = i
      <4>1. workq'[i - 1] = workq[i]
        BY <1>1, <3>2
      <4> QED
        BY <1>3, <3>2, <4>1
    <3> QED
      BY <1>6, <3>1, <3>2
  <2> QED
    BY <1>3, <2>1, <2>2
<1>8. ASSUME Once(workq) PROVE Once(workq') /\ Head(workq) \notin Queued'
  <2>1. \A i, j \in 1..n : workq[i] = workq[j] => i = j
    BY <1>4, <1>8
  <2>2. \A i \in 1..(n - 1) : workq'[i] # workq[1]
    BY <1>1, <1>6, <2>1
  <2>3. \A i, j \in 1..(n - 1) : workq'[i] = workq'[j] => i = j
    <3> SUFFICES ASSUME NEW i \in 1..(n - 1), NEW j \in 1..(n - 1), workq'[i] = workq'[j]
                 PROVE  i = j
      OBVIOUS
    <3>1. i + 1 = j + 1
      BY <1>1, <1>6, <2>1
    <3> QED
      BY <1>1, <3>1
  <2> QED
    BY <1>1, <1>3, <1>5, <2>2, <2>3
<1> QED
  BY <1>1, <1>7, <1>8

\* The poller leaves the event of one client.
LEMMA BatchTake ==
    ASSUME NEW e \in batch, batch' = batch \ {e}
    PROVE  /\ Batched \subseteq Batched' \cup {e[1]} /\ Batched' \subseteq Batched /\ e[1] \in Batched
           /\ (\A d, f \in batch : d[1] = f[1] => d = f) => e[1] \notin Batched'
  BY DEF Batched

\* Who is worked for when a thread begins or finishes.
LEMMA WorkBegins ==
    ASSUME NEW t \in Threads, NEW c \in Clients, cur \in [Threads -> Clients \cup {NULL}],
           cur[t] = NULL, cur' = [cur EXCEPT ![t] = c]
    PROVE  Worked' = Worked \cup {c}
  BY WorkerConstants DEF Worked

LEMMA WorkFinishes ==
    ASSUME NEW t \in Threads, cur \in [Threads -> Clients \cup {NULL}], cur[t] # NULL,
           cur' = [cur EXCEPT ![t] = NULL]
    PROVE  /\ Worked \subseteq Worked' \cup {cur[t]} /\ Worked' \subseteq Worked
           /\ cur[t] \in Worked
           /\ (\A u \in Threads \ {t} : cur[u] # cur[t]) => cur[t] \notin Worked'
  BY DEF Worked

-----------------------------------------------------------------------------
(* The steps *)

\* The unread part of a socket's buffer is cut off its front.
LEMMA CutInTwo ==
    ASSUME NEW s \in Seq(Bytes), NEW k \in 1..Len(s)
    PROVE  /\ SubSeq(s, 1, k) \in Seq(Bytes) /\ SubSeq(s, k + 1, Len(s)) \in Seq(Bytes)
           /\ SubSeq(s, 1, k) \o SubSeq(s, k + 1, Len(s)) = s
<1>1. SubSeq(s, 1, k) \in Seq(Bytes) /\ SubSeq(s, k + 1, Len(s)) \in Seq(Bytes)
  BY SubSeqProperties
<1>2. SubSeq(s, 1, k) \o SubSeq(s, k + 1, Len(s)) = SubSeq(s, 1, Len(s))
  BY ConcatAdjacentSubSeq
<1>3. SubSeq(s, 1, Len(s)) = s
  BY SubSeqFull
<1> QED
  BY <1>1, <1>2, <1>3

\* What is joined may be joined in any order.
LEMMA Joined ==
    ASSUME NEW a \in Seq(Bytes), NEW b \in Seq(Bytes), NEW c \in Seq(Bytes)
    PROVE  (a \o b) \o c = a \o (b \o c)
  OBVIOUS

LEMMA JoinedLast ==
    ASSUME NEW a \in Seq(Bytes), NEW b \in Seq(Bytes), NEW c \in Bytes
    PROVE  a \o Append(b, c) = Append(a \o b, c)
  OBVIOUS

\* FirstEnd is where the next request ends.
LEMMA FirstEndMeans ==
    ASSUME WTyped, NEW c \in Clients, Unparsed(c, "e") # {}
    PROVE  /\ FirstEnd(c) \in parsed[c] + 1..Len(buf[c]) /\ buf[c][FirstEnd(c)] = "e"
           /\ FirstEnd(c) \in Nat
           /\ \A j \in parsed[c] + 1..Len(buf[c]) : buf[c][j] = "e" => FirstEnd(c) <= j
<1>1. parsed[c] \in Nat /\ buf[c] \in Seq(Bytes)
  BY DEF WTyped
<1>2. Unparsed(c, "e") \in SUBSET Nat
  BY <1>1 DEF Unparsed
<1>3. \E i \in Unparsed(c, "e") : \A j \in Unparsed(c, "e") : i <= j
  BY <1>2, Least
<1>4. FirstEnd(c) \in Unparsed(c, "e") /\ \A j \in Unparsed(c, "e") : FirstEnd(c) <= j
  BY <1>3, Zenon DEF FirstEnd
<1> QED
  BY <1>2, <1>4 DEF Unparsed

\* No step leaves the types.
LEMMA WTypedStep == WTyped /\ Next => WTyped'
<1> SUFFICES ASSUME WTyped, Next PROVE WTyped'
  OBVIOUS
<1>1. ASSUME NEW c \in Clients, ClientSends(c) PROVE WTyped'
  <2>1. PICK b \in Bytes : /\ sent' = [sent EXCEPT ![c] = Append(@, b)]
                           /\ rx' = [rx EXCEPT ![c] = Append(@, b)]
    BY <1>1 DEF ClientSends
  <2>2. UNCHANGED <<end, infos, batch, workq, threads>>
    BY <1>1 DEF ClientSends, Arrived
  <2>3. edge' \subseteq edge \cup {c}
    BY <1>1 DEF ClientSends, Arrived
  <2>4. sent[c] \in Seq(Bytes) /\ rx[c] \in Seq(Bytes)
    BY DEF WTyped
  <2>5. Append(sent[c], b) \in Seq(Bytes) /\ Append(rx[c], b) \in Seq(Bytes)
    BY <2>4
  <2>6. sent' \in [Clients -> Seq(Bytes)] /\ rx' \in [Clients -> Seq(Bytes)]
    BY <2>1, <2>5 DEF WTyped
  <2> QED
    BY <2>2, <2>3, <2>6 DEF WTyped, infos, threads
<1>2. ASSUME NEW c \in Clients, ClientLeaves(c) PROVE WTyped'
  <2>1. end' \in [Clients -> {"open", "closed", "reset"}] /\ rx' \in [Clients -> Seq(Bytes)]
    <3>1. end' \in [Clients -> {"open", "closed", "reset"}]
      <4>1. end' = [end EXCEPT ![c] = "closed"] \/ end' = [end EXCEPT ![c] = "reset"]
        BY <1>2 DEF ClientLeaves
      <4>2. end \in [Clients -> {"open", "closed", "reset"}]
        BY DEF WTyped
      <4> QED
        BY <4>1, <4>2
    <3>2. <<>> \in Seq(Bytes) /\ rx \in [Clients -> Seq(Bytes)]
      BY DEF WTyped
    <3>3. [rx EXCEPT ![c] = <<>>] \in [Clients -> Seq(Bytes)]
      BY <3>2
    <3>4. UNCHANGED rx \/ rx' = [rx EXCEPT ![c] = <<>>]
      BY <1>2 DEF ClientLeaves
    <3> QED
      BY <3>1, <3>2, <3>3, <3>4
  <2>2. UNCHANGED <<sent, infos, batch, workq, threads>> /\ edge' \subseteq edge \cup {c}
    BY <1>2 DEF ClientLeaves, Arrived
  <2> QED
    BY <2>1, <2>2 DEF WTyped, infos, threads
<1>3. ASSUME NEW c \in Clients, Accept(c) PROVE WTyped'
  BY <1>3 DEF Accept, WTyped, sockets, threads
<1>4. CASE Exit
  BY <1>4 DEF Exit, WTyped, sockets, threads, infos
<1>5. ASSUME Undefined PROVE WTyped'
  BY <1>5 DEF Undefined, WTyped, sockets, threads, infos
<1>6. CASE EpollWait
  BY <1>6 DEF EpollWait, WTyped, sockets, threads, infos
<1>7. ASSUME NEW c \in Clients, Free(c)
      PROVE  /\ info' \in [Clients -> {"none", "live", "freed"}] /\ edge' \subseteq Clients
             /\ buf' \in [Clients -> Seq(Bytes)] /\ parsed' \in [Clients -> Nat]
             /\ reqs' \in [Clients -> Seq(Nat \X Nat)]
  BY <1>7 DEF Free, WTyped
<1>8. ASSUME NEW c \in Clients, HandleHangup(c) PROVE WTyped'
  <2>1. CASE Undefined
    BY <1>5, <2>1
  <2>2. CASE Free(c) /\ batch' = batch \ {<<c, TRUE>>} /\ UNCHANGED <<process, sockets, workq, threads, overlap>>
    <3>1. Free(c) /\ batch' \subseteq batch
      BY <2>2
    <3> QED
      BY <1>7, <2>2, <3>1 DEF WTyped, sockets, threads
  <2> QED
    BY <1>8, <2>1, <2>2 DEF HandleHangup
<1>9. ASSUME NEW c \in Clients, HandleInput(c) PROVE WTyped'
  <2>1. CASE Undefined
    BY <1>5, <2>1
  <2>2. CASE /\ batch' = batch \ {<<c, FALSE>>}
             /\ workq' = Append(workq, c) \/ UNCHANGED workq
             /\ UNCHANGED <<process, sockets, edge, infos, threads, overlap>>
    <3>1. batch' \subseteq batch
      BY <2>2
    <3>2. workq' \in Seq(Clients)
      <4>1. workq \in Seq(Clients)
        BY DEF WTyped
      <4>2. Append(workq, c) \in Seq(Clients)
        BY <4>1
      <4> QED
        BY <2>2, <4>1, <4>2
    <3> QED
      BY <2>2, <3>1, <3>2 DEF WTyped, sockets, threads, infos
  <2> QED
    BY <1>9, <2>1, <2>2 DEF HandleInput
<1>10. ASSUME NEW t \in Threads, Begin(t) PROVE WTyped'
  <2>1. /\ workq # <<>> /\ workq' = Tail(workq) /\ pc[t] = "idle" /\ pc' = [pc EXCEPT ![t] = "alloc"]
        /\ cur' = [cur EXCEPT ![t] = Head(workq)] /\ UNCHANGED <<sockets, edge, infos, batch>>
    BY <1>10 DEF Begin, Goto
  <2>2. workq' \in Seq(Clients) /\ Head(workq) \in Clients
    BY <2>1, QueueTake DEF WTyped
  <2> QED
    BY <2>1, <2>2, WorkerConstants DEF WTyped, sockets, infos
<1>11. ASSUME NEW t \in Threads, Alloc(t) PROVE WTyped'
  <2>1. /\ pc[t] = "alloc" /\ (pc' = [pc EXCEPT ![t] = "cleanup"] \/ pc' = [pc EXCEPT ![t] = "recv"])
        /\ UNCHANGED <<sockets, edge, info, buf, parsed, reqs, batch, workq, cur>>
    BY <1>11 DEF Alloc, Goto
  <2> QED
    BY <2>1 DEF WTyped, sockets
<1>12. ASSUME NEW t \in Threads, Recv(t) PROVE WTyped'
  <2> DEFINE c == cur[t]
  <2>1. /\ pc[t] = "recv" /\ UNCHANGED <<sent, end, edge, info, parsed, reqs, batch, workq, cur>>
        /\ \E l \in {"alloc", "parse", "cleanup"} : pc' = [pc EXCEPT ![t] = l]
    BY <1>12 DEF Recv, At
  <2>2. c \in Clients
    BY <2>1 DEF WTyped
  <2>3. rx' \in [Clients -> Seq(Bytes)] /\ buf' \in [Clients -> Seq(Bytes)]
    <3>1. CASE UNCHANGED <<buf, rx>>
      BY <3>1 DEF WTyped
    <3>2. ASSUME NEW k \in 1..Len(rx[c]), buf' = [buf EXCEPT ![c] = @ \o SubSeq(rx[c], 1, k)],
                 rx' = [rx EXCEPT ![c] = SubSeq(@, k + 1, Len(@))]
          PROVE  rx' \in [Clients -> Seq(Bytes)] /\ buf' \in [Clients -> Seq(Bytes)]
      <4>1. rx[c] \in Seq(Bytes) /\ buf[c] \in Seq(Bytes)
        BY <2>2 DEF WTyped
      <4>2. SubSeq(rx[c], 1, k) \in Seq(Bytes) /\ SubSeq(rx[c], k + 1, Len(rx[c])) \in Seq(Bytes)
        BY <3>2, <4>1, CutInTwo
      <4>3. buf[c] \o SubSeq(rx[c], 1, k) \in Seq(Bytes)
        BY <4>1, <4>2
      <4> QED
        BY <2>2, <3>2, <4>2, <4>3 DEF WTyped
    <3> QED
      BY <1>12, <3>1, <3>2 DEF Recv
  <2> QED
    BY <2>1, <2>3 DEF WTyped
<1>13. ASSUME NEW t \in Threads, Parse(t) PROVE WTyped'
  <2> DEFINE c == cur[t]
  <2>1. /\ pc[t] = "parse" /\ UNCHANGED <<sockets, edge, info, buf, batch, workq>>
    BY <1>13 DEF Parse, At
  <2>2. c \in Clients
    BY <2>1 DEF WTyped
  <2>3. CASE Unparsed(c, "e") # {} /\ HandleRequest(t, c)
    <3>1. FirstEnd(c) \in Nat /\ parsed[c] + 1 \in Nat /\ reqs[c] \in Seq(Nat \X Nat)
      BY <2>2, <2>3, FirstEndMeans DEF WTyped
    <3>2. Append(reqs[c], <<parsed[c] + 1, FirstEnd(c)>>) \in Seq(Nat \X Nat)
      BY <3>1
    <3>3. parsed' \in [Clients -> Nat] /\ reqs' \in [Clients -> Seq(Nat \X Nat)] /\ UNCHANGED threads
      BY <2>2, <2>3, <3>1, <3>2 DEF HandleRequest, WTyped
    <3> QED
      BY <2>1, <3>3 DEF WTyped, sockets, threads
  <2>4. CASE Finish(t) /\ UNCHANGED <<parsed, reqs>>
    BY <2>1, <2>4 DEF Finish, WTyped, sockets
  <2>5. CASE UNCHANGED <<parsed, reqs, threads>>
    BY <2>1, <2>5 DEF WTyped, sockets, threads
  <2> QED
    BY <1>13, <2>3, <2>4, <2>5 DEF Parse
<1>14. ASSUME NEW t \in Threads, Cleanup(t) PROVE WTyped'
  <2>1. pc[t] = "cleanup" /\ Free(cur[t]) /\ Finish(t) /\ UNCHANGED <<sockets, batch, workq>>
    BY <1>14 DEF Cleanup, At
  <2>2. cur[t] \in Clients
    BY <2>1 DEF WTyped
  <2> QED
    BY <1>7, <2>1, <2>2 DEF WTyped, sockets, Finish
<1>15. ASSUME NEW t \in Threads, UseFreed(t) PROVE WTyped'
  BY <1>5, <1>15 DEF UseFreed
<1> QED
  BY <1>1, <1>2, <1>3, <1>4, <1>6, <1>8, <1>9, <1>10, <1>11, <1>12, <1>13, <1>14, <1>15
     DEF Next, AcceptNext, Poller, Work

\* No step of a client, the main thread, the poller or a thread of the work queue
\* loses an event.
LEMMA WEventsStep == WTyped /\ WEvents /\ Next => WEvents'
<1> SUFFICES ASSUME WTyped, WEvents, Next, process' = "running",
                    NEW d \in Clients, info'[d] = "live", Readable(d)'
             PROVE  \/ d \in (edge \cup missed \cup Queued \cup Batched)'
                    \/ \E u \in Threads : cur'[u] = d /\ (pc'[u] # "parse" \/ Spoiled(u)')
  BY DEF WEvents
<1> DEFINE Known == d \in edge \cup missed \cup Queued \cup Batched
           Read(u) == cur[u] = d /\ (pc[u] # "parse" \/ Spoiled(u))
           Goal == \/ d \in (edge \cup missed \cup Queued \cup Batched)'
                   \/ \E u \in Threads : cur'[u] = d /\ (pc'[u] # "parse" \/ Spoiled(u)')
<1>0. process = "running"
  BY DEF Next, ClientSends, ClientLeaves, AcceptNext, Accept, Exit, Poller, EpollWait,
         HandleHangup, HandleInput, Work, Begin, Alloc, Recv, Parse, Cleanup, UseFreed, At
<1>1. ASSUME info[d] = "live", Readable(d) PROVE Known \/ \E u \in Threads : Read(u)
  BY <1>0, <1>1 DEF WEvents
<1>2. d # NULL /\ \A u \in Threads : cur[u] = d => pc[u] # "idle"
  BY WorkerConstants DEF WTyped
<1>3. ASSUME UNCHANGED <<cur, pc>>, \A c \in Clients : info[c] = "freed" => info'[c] = "freed",
             NEW u \in Threads, Read(u)
      PROVE  cur'[u] = d /\ (pc'[u] # "parse" \/ Spoiled(u)')
  BY <1>3 DEF Spoiled
<1>4. ASSUME NEW c \in Clients, Arrived(c), UNCHANGED <<info, cur, pc>>,
             c # d => (Readable(d)' => Readable(d))
      PROVE  Goal
  <2>1. CASE c = d
    BY <1>4, <2>1 DEF Arrived
  <2>2. CASE c # d
    <3>1. edge \subseteq edge' /\ UNCHANGED <<missed, Queued, Batched>>
      BY <1>4 DEF Arrived, Queued, Batched
    <3> QED
      BY <1>1, <1>3, <1>4, <2>2, <3>1
  <2> QED
    BY <2>1, <2>2
<1>5. ASSUME NEW c \in Clients, ClientSends(c) PROVE Goal
  <2>1. UNCHANGED <<info, cur, pc, end>> /\ (c # d => rx'[d] = rx[d]) /\ Arrived(c)
    BY <1>5 DEF ClientSends, Arrived, infos, threads, WTyped
  <2> QED
    BY <1>4, <2>1 DEF Readable
<1>6. ASSUME NEW c \in Clients, ClientLeaves(c) PROVE Goal
  <2>1. UNCHANGED <<info, cur, pc>> /\ (c # d => rx'[d] = rx[d] /\ end'[d] = end[d]) /\ Arrived(c)
    BY <1>6 DEF ClientLeaves, Arrived, infos, threads, WTyped
  <2> QED
    BY <1>4, <2>1 DEF Readable
<1>7. ASSUME NEW c \in Clients, Accept(c) PROVE Goal
  <2>1. /\ UNCHANGED <<rx, end, cur, pc, missed, Queued, Batched>> /\ edge \subseteq edge'
        /\ info[c] = "none" /\ (c # d => info'[d] = info[d])
        /\ (c = d => (Readable(c) => c \in edge'))
    <3>1. UNCHANGED <<rx, end, cur, pc, missed, workq, batch>> /\ edge \subseteq edge'
      BY <1>7 DEF Accept, sockets, threads
    <3>2. info[c] = "none" /\ (c # d => info'[d] = info[d])
      BY <1>7 DEF Accept, WTyped
    <3>3. c = d => (Readable(c) => c \in edge')
      <4>1. CASE info' = [info EXCEPT ![c] = "live"] /\ edge' = IF Readable(c) THEN edge \cup {c} ELSE edge
        BY <4>1
      <4>2. CASE info' = [info EXCEPT ![c] = "freed"]
        BY <4>2 DEF WTyped
      <4> QED
        BY <1>7, <4>1, <4>2 DEF Accept
    <3> QED
      BY <3>1, <3>2, <3>3 DEF Queued, Batched
  <2>2. Readable(d)
    BY <2>1 DEF Readable
  <2>3. CASE c # d
    <3>1. \A a \in Clients : info[a] = "freed" => info'[a] = "freed"
      BY <1>7 DEF Accept, WTyped
    <3> QED
      BY <1>1, <1>3, <2>1, <2>2, <2>3, <3>1
  <2> QED
    BY <2>1, <2>2, <2>3
<1>8. ASSUME EpollWait PROVE Goal
  <2>1. UNCHANGED <<rx, end, info, cur, pc, missed, workq>>
    BY <1>8 DEF EpollWait, sockets, infos, threads
  <2>2. Readable(d) /\ Queued' = Queued /\ Batched = {}
    BY <1>8, <2>1 DEF Readable, Queued, Batched, EpollWait
  <2>3. d \in edge => d \in edge' \cup Batched'
    <3>1. PICK ready \in SUBSET edge : batch' = {<<c, end[c] = "reset">> : c \in ready} /\ edge' = edge \ ready
      BY <1>8 DEF EpollWait
    <3>2. ASSUME d \in ready PROVE d \in Batched'
      <4> DEFINE e == <<d, end[d] = "reset">>
      <4>1. e \in batch' /\ e[1] = d
        BY <3>1, <3>2
      <4> HIDE DEF e
      <4> QED
        BY <4>1 DEF Batched
    <3> QED
      BY <3>1, <3>2
  <2> QED
    BY <1>1, <1>3, <2>1, <2>2, <2>3
<1>9. ASSUME NEW c \in Clients, NEW e \in batch, e[1] = c, batch' = batch \ {e}
      PROVE  d # c => (d \in Batched => d \in Batched')
  BY <1>9, BatchTake
<1>10. ASSUME NEW c \in Clients, Free(c)
       PROVE  /\ d # c /\ info'[d] = info[d]
              /\ (d \in edge => d \in edge') /\ (d \in missed => d \in missed')
              /\ \A a \in Clients : info[a] = "freed" => info'[a] = "freed"
  BY <1>10 DEF Free, WTyped
<1>11. ASSUME NEW c \in Clients, HandleHangup(c) PROVE Goal
  <2>1. <<c, TRUE>> \in batch /\ Free(c) /\ batch' = batch \ {<<c, TRUE>>}
        /\ UNCHANGED <<rx, end, workq, cur, pc>>
    BY <1>11 DEF HandleHangup, Undefined, sockets, threads
  <2>2. Readable(d) /\ Queued' = Queued /\ (d # c => (d \in Batched => d \in Batched'))
    <3>1. <<c, TRUE>>[1] = c
      OBVIOUS
    <3> QED
      BY <1>9, <2>1, <3>1 DEF Readable, Queued
  <2> QED
    BY <1>1, <1>3, <1>10, <2>1, <2>2
<1>12. ASSUME NEW c \in Clients, HandleInput(c) PROVE Goal
  <2>1. /\ <<c, FALSE>> \in batch /\ batch' = batch \ {<<c, FALSE>>}
        /\ \/ workq' = Append(workq, c) /\ missed' = missed \ {c}
           \/ UNCHANGED workq /\ missed' = missed \cup {c}
        /\ UNCHANGED <<rx, end, info, edge, cur, pc>>
    BY <1>12 DEF HandleInput, Undefined, sockets, threads, infos
  <2>2. Readable(d) /\ (d # c => (d \in Batched => d \in Batched'))
    <3>1. <<c, FALSE>>[1] = c
      OBVIOUS
    <3> QED
      BY <1>9, <2>1, <3>1 DEF Readable
  <2>3. /\ d \in missed => d \in missed' \/ d \in Queued'
        /\ Queued \subseteq Queued'
        /\ d = c => d \in missed' \/ d \in Queued'
    <3>1. CASE workq' = Append(workq, c) /\ missed' = missed \ {c}
      <4>1. Queued' = Queued \cup {c}
        BY <3>1, QueueAppend DEF WTyped
      <4> QED
        BY <3>1, <4>1
    <3>2. CASE UNCHANGED workq /\ missed' = missed \cup {c}
      BY <3>2 DEF Queued
    <3> QED
      BY <2>1, <3>1, <3>2
  <2> QED
    BY <1>1, <1>3, <2>1, <2>2, <2>3
<1>13. ASSUME NEW t \in Threads, Begin(t) PROVE Goal
  <2>1. /\ workq # <<>> /\ workq' = Tail(workq) /\ pc[t] = "idle" /\ pc' = [pc EXCEPT ![t] = "alloc"]
        /\ cur' = [cur EXCEPT ![t] = Head(workq)] /\ UNCHANGED <<rx, end, info, edge, batch, missed>>
    BY <1>13 DEF Begin, Goto, sockets, infos
  <2>2. Queued = Queued' \cup {Head(workq)}
    BY <2>1, QueueTake DEF WTyped
  <2>3. Readable(d) /\ Batched' = Batched
    BY <2>1 DEF Readable, Batched
  <2>4. CASE d = Head(workq)
    <3>1. cur'[t] = d /\ pc'[t] = "alloc"
      BY <2>1, <2>4 DEF WTyped
    <3> QED
      BY <3>1
  <2>5. ASSUME NEW u \in Threads, Read(u) PROVE cur'[u] = d /\ (pc'[u] # "parse" \/ Spoiled(u)')
    <3>1. u # t /\ cur[t] = NULL /\ cur[u] = d
      BY <1>2, <2>1, <2>5 DEF WTyped
    <3>2. cur'[u] = d /\ pc'[u] = pc[u]
      BY <2>1, <3>1 DEF WTyped
    <3>3. ASSUME NEW v \in Threads \ {u}, cur[v] = cur[u] PROVE v # t /\ cur'[v] = cur'[u]
      BY <1>2, <2>1, <3>1, <3>2, <3>3 DEF WTyped
    <3> QED
      BY <2>1, <2>5, <3>2, <3>3 DEF Spoiled
  <2> QED
    BY <1>1, <2>1, <2>2, <2>3, <2>4, <2>5
<1>14. ASSUME NEW t \in Threads, NEW l, l # "parse", pc' = [pc EXCEPT ![t] = l], UNCHANGED <<cur, info>>,
              NEW u \in Threads, Read(u)
       PROVE  cur'[u] = d /\ (pc'[u] # "parse" \/ Spoiled(u)')
  BY <1>14 DEF Spoiled, WTyped
<1>15. ASSUME NEW t \in Threads, Alloc(t) PROVE Goal
  <2>1. /\ \E l \in {"cleanup", "recv"} : pc' = [pc EXCEPT ![t] = l]
        /\ UNCHANGED <<rx, end, info, edge, batch, workq, cur, missed>>
    BY <1>15 DEF Alloc, Goto, sockets
  <2>2. Readable(d) /\ Queued' = Queued /\ Batched' = Batched
    BY <2>1 DEF Readable, Queued, Batched
  <2> QED
    BY <1>1, <1>14, <2>1, <2>2
<1>16. ASSUME NEW t \in Threads, Recv(t) PROVE Goal
  <2> DEFINE c == cur[t]
  <2>1. /\ pc[t] = "recv" /\ c \in Clients
        /\ UNCHANGED <<end, info, edge, batch, workq, cur, missed>>
    BY <1>16 DEF Recv, At, WTyped
  <2>2. Queued' = Queued /\ Batched' = Batched
    BY <2>1 DEF Queued, Batched
  <2>3. CASE d = c
    <3>1. pc'[t] # "parse"
      <4> SUFFICES ASSUME pc'[t] = "parse" PROVE FALSE
        OBVIOUS
      <4>1. /\ rx[c] = <<>> \/ Remaining(c) = 0
            /\ pc' = [pc EXCEPT ![t] = IF end[c] = "open" /\ Remaining(c) > 0
                                       THEN "parse" ELSE "cleanup"]
            /\ UNCHANGED rx
        BY <1>16 DEF Recv, WTyped
      <4>2. end[c] = "open" /\ Remaining(c) > 0
        BY <4>1 DEF WTyped
      <4>3. rx[c] = <<>>
        BY <4>1, <4>2
      <4> QED
        BY <2>1, <2>3, <4>1, <4>2, <4>3 DEF Readable
    <3> QED
      BY <2>1, <2>3, <3>1
  <2>4. CASE d # c
    <3>1. rx'[d] = rx[d]
      BY <1>16, <2>1, <2>4 DEF Recv, WTyped
    <3>2. Readable(d)
      BY <2>1, <3>1 DEF Readable
    <3>3. \A u \in Threads : u # t => pc'[u] = pc[u]
      BY <1>16 DEF Recv, WTyped
    <3>4. ASSUME NEW u \in Threads, Read(u) PROVE cur'[u] = d /\ (pc'[u] # "parse" \/ Spoiled(u)')
      BY <2>1, <2>4, <3>3, <3>4 DEF Spoiled
    <3> QED
      BY <1>1, <2>1, <2>2, <3>2, <3>4
  <2> QED
    BY <2>3, <2>4
<1>17. ASSUME NEW t \in Threads, Finish(t), ~Spoiled(t), cur[t] # NULL, pc[t] # "parse" => d # cur[t],
              \A a \in Clients : info[a] = "freed" => info'[a] = "freed",
              NEW u \in Threads, Read(u)
       PROVE  cur'[u] = d /\ (pc'[u] # "parse" \/ Spoiled(u)')
  <2>1. u # t
    BY <1>17
  <2>2. cur[t] # d
    BY <1>17, <2>1 DEF Spoiled
  <2>3. cur'[u] = d /\ pc'[u] = pc[u]
    BY <1>17, <2>1 DEF Finish, WTyped
  <2>4. ASSUME NEW v \in Threads \ {u}, cur[v] = cur[u] PROVE cur'[v] = cur'[u]
    BY <1>17, <2>2, <2>3, <2>4 DEF Finish, WTyped
  <2> QED
    BY <1>17, <2>3, <2>4 DEF Spoiled
<1>18. ASSUME NEW t \in Threads, Parse(t) PROVE Goal
  <2>1. /\ pc[t] = "parse" /\ ~Spoiled(t) /\ cur[t] # NULL
        /\ UNCHANGED <<rx, end, edge, info, batch, workq, missed>>
    BY <1>18 DEF Parse, At, sockets, WTyped
  <2>2. Readable(d) /\ Queued' = Queued /\ Batched' = Batched
    BY <2>1 DEF Readable, Queued, Batched
  <2>3. CASE UNCHANGED threads
    BY <1>1, <1>3, <2>1, <2>2, <2>3 DEF threads
  <2>4. CASE Finish(t)
    BY <1>1, <1>17, <2>1, <2>2, <2>4
  <2> QED
    BY <1>18, <2>3, <2>4 DEF Parse, HandleRequest
<1>19. ASSUME NEW t \in Threads, Cleanup(t) PROVE Goal
  <2>1. /\ pc[t] = "cleanup" /\ ~Spoiled(t) /\ cur[t] # NULL /\ cur[t] \in Clients
        /\ Free(cur[t]) /\ Finish(t) /\ UNCHANGED <<rx, end, batch, workq>>
    BY <1>19 DEF Cleanup, At, sockets, WTyped
  <2>2. Readable(d) /\ Queued' = Queued /\ Batched' = Batched
    BY <2>1 DEF Readable, Queued, Batched
  <2>3. /\ d # cur[t] /\ info'[d] = info[d]
        /\ (d \in edge => d \in edge') /\ (d \in missed => d \in missed')
        /\ \A a \in Clients : info[a] = "freed" => info'[a] = "freed"
    BY <1>10, <2>1
  <2> QED
    BY <1>1, <1>17, <2>1, <2>2, <2>3
<1>20. ASSUME Exit \/ \E t \in Threads : UseFreed(t) PROVE FALSE
  BY <1>20 DEF Exit, UseFreed, Undefined
<1> HIDE DEF Goal
<1>21. Goal
  <2>1. CASE \E c \in Clients : ClientSends(c) \/ ClientLeaves(c)
    BY <1>5, <1>6, <2>1
  <2>2. CASE AcceptNext \/ Exit
    BY <1>7, <1>20, <2>2 DEF AcceptNext
  <2>3. CASE Poller
    BY <1>8, <1>11, <1>12, <2>3 DEF Poller
  <2>4. CASE \E t \in Threads : Work(t)
    <3>1. PICK t \in Threads : Work(t)
      BY <2>4
    <3>2. CASE Begin(t) \/ Alloc(t) \/ Recv(t)
      BY <1>13, <1>15, <1>16, <3>2
    <3>3. CASE Parse(t) \/ Cleanup(t)
      BY <1>18, <1>19, <3>3
    <3>4. CASE UseFreed(t)
      BY <1>20, <3>4
    <3> QED
      BY <3>1, <3>2, <3>3, <3>4 DEF Work
  <2> QED
    BY <2>1, <2>2, <2>3, <2>4 DEF Next
<1> QED
  BY <1>21 DEF Goal

\* No step loses, repeats or reorders a byte, or leaves a request half parsed
\* when its thread goes.
LEMMA WDataStep == WTyped /\ WData /\ Next => WData'
<1> DEFINE Bytes1(d) == info[d] # "freed" /\ end[d] # "reset" => buf[d] \o rx[d] = sent[d]
           Bytes2(d) == Exact(buf[d], parsed[d], reqs[d])
           Bytes3(d) == info[d] # "freed" /\ d \notin Worked => Unparsed(d, "e") = {}
           Goal(d) == Bytes1(d)' /\ Bytes2(d)' /\ Bytes3(d)'
<1> SUFFICES ASSUME WTyped, WData, Next, process' = "running", NEW d \in Clients
             PROVE  Goal(d)
  BY DEF WData
<1>0. process = "running"
  BY DEF Next, ClientSends, ClientLeaves, AcceptNext, Accept, Exit, Poller, EpollWait,
         HandleHangup, HandleInput, Work, Begin, Alloc, Recv, Parse, Cleanup, UseFreed, At
<1>1. Bytes1(d) /\ Bytes2(d) /\ Bytes3(d)
  BY <1>0 DEF WData
<1>2. /\ info[d] \in {"none", "live", "freed"} /\ buf[d] \in Seq(Bytes) /\ rx[d] \in Seq(Bytes)
      /\ sent[d] \in Seq(Bytes) /\ parsed[d] \in Nat /\ reqs[d] \in Seq(Nat \X Nat)
  BY DEF WTyped
<1>3. ASSUME UNCHANGED <<info[d], buf[d], parsed[d], reqs[d]>>, Worked \subseteq Worked' PROVE Bytes2(d)' /\ Bytes3(d)'
  BY <1>1, <1>3 DEF Unparsed
<1>4. ASSUME UNCHANGED <<sockets, infos>>, Worked \subseteq Worked' PROVE Goal(d)
  BY <1>1, <1>3, <1>4 DEF sockets, infos
<1>5. ASSUME NEW c \in Clients, ClientSends(c) PROVE Goal(d)
  <2>1. UNCHANGED <<info, buf, parsed, reqs, Worked, end>>
    BY <1>5 DEF ClientSends, Arrived, infos, threads, Worked
  <2>2. PICK b \in Bytes : /\ sent' = [sent EXCEPT ![c] = Append(@, b)]
                           /\ rx' = [rx EXCEPT ![c] = Append(@, b)]
    BY <1>5 DEF ClientSends
  <2>3. CASE c = d
    <3>1. sent'[d] = Append(sent[d], b) /\ rx'[d] = Append(rx[d], b)
      BY <2>2, <2>3 DEF WTyped
    <3>2. buf[d] \o Append(rx[d], b) = Append(buf[d] \o rx[d], b)
      BY <1>2, JoinedLast
    <3> QED
      BY <1>1, <1>3, <2>1, <3>1, <3>2
  <2>4. CASE c # d
    <3>1. sent'[d] = sent[d] /\ rx'[d] = rx[d]
      BY <2>2, <2>4 DEF WTyped
    <3> QED
      BY <1>1, <1>3, <2>1, <3>1
  <2> QED
    BY <2>3, <2>4
<1>6. ASSUME NEW c \in Clients, ClientLeaves(c) PROVE Goal(d)
  <2>1. UNCHANGED <<info, buf, parsed, reqs, Worked, sent>>
    BY <1>6 DEF ClientLeaves, Arrived, infos, threads, Worked
  <2>2. end'[d] # "reset" => rx'[d] = rx[d] /\ end[d] # "reset"
    BY <1>6 DEF ClientLeaves, WTyped
  <2> QED
    BY <1>1, <1>3, <2>1, <2>2
<1>7. ASSUME NEW c \in Clients, Accept(c) PROVE Goal(d)
  <2>1. UNCHANGED <<sockets, buf, parsed, reqs, Worked>>
    BY <1>7 DEF Accept, threads, Worked
  <2>2. info'[d] # "freed" => info[d] # "freed"
    BY <1>7 DEF Accept, WTyped
  <2> QED
    BY <1>1, <2>1, <2>2 DEF sockets, Unparsed
<1>8. ASSUME EpollWait PROVE Goal(d)
  <2>1. UNCHANGED <<sockets, infos, Worked>>
    BY <1>8 DEF EpollWait, threads, Worked
  <2> QED
    BY <1>4, <2>1
<1>9. ASSUME NEW c \in Clients, Free(c), UNCHANGED sockets, Worked \subseteq Worked' \cup {c}
      PROVE  Goal(d)
  <2>1. CASE c = d
    <3>1. info'[d] = "freed" /\ buf'[d] = <<>> /\ parsed'[d] = 0 /\ reqs'[d] = <<>>
      BY <1>9, <2>1 DEF Free, WTyped
    <3> QED
      BY <3>1, ExactEmpty
  <2>2. CASE c # d
    <3>1. UNCHANGED <<info[d], buf[d], parsed[d], reqs[d]>>
      BY <1>9, <2>2 DEF Free, WTyped
    <3> QED
      BY <1>1, <1>9, <2>2, <3>1 DEF sockets, Unparsed
  <2> QED
    BY <2>1, <2>2
<1>10. ASSUME NEW c \in Clients, HandleHangup(c) PROVE Goal(d)
  <2>1. Free(c) /\ UNCHANGED <<sockets, Worked>>
    BY <1>10 DEF HandleHangup, Undefined, threads, Worked
  <2> QED
    BY <1>9, <2>1
<1>11. ASSUME NEW c \in Clients, HandleInput(c) PROVE Goal(d)
  <2>1. UNCHANGED <<sockets, infos, Worked>>
    BY <1>11 DEF HandleInput, Undefined, threads, Worked
  <2> QED
    BY <1>4, <2>1
<1>12. ASSUME NEW t \in Threads, Begin(t) PROVE Goal(d)
  <2>1. /\ workq # <<>> /\ workq' = Tail(workq) /\ pc[t] = "idle"
        /\ cur' = [cur EXCEPT ![t] = Head(workq)] /\ UNCHANGED <<sockets, infos>>
    BY <1>12 DEF Begin, Goto
  <2>2. Head(workq) \in Clients
    BY <2>1, QueueTake DEF WTyped
  <2>3. Worked' = Worked \cup {Head(workq)}
    BY <2>1, <2>2, WorkBegins DEF WTyped
  <2> QED
    BY <1>4, <2>1, <2>3
<1>13. ASSUME NEW t \in Threads, Alloc(t) PROVE Goal(d)
  <2>1. UNCHANGED <<sockets, info, buf, parsed, reqs, Worked>>
    BY <1>13 DEF Alloc, Worked
  <2> QED
    BY <1>1, <1>3, <2>1 DEF sockets
<1>14. ASSUME NEW t \in Threads, Recv(t) PROVE Goal(d)
  <2> DEFINE c == cur[t]
  <2>1. /\ c \in Clients /\ c \in Worked /\ UNCHANGED <<sent, end, info, parsed, reqs, Worked>>
    BY <1>14, WorkerConstants DEF Recv, At, WTyped, Worked
  <2>2. CASE UNCHANGED <<buf, rx>>
    BY <1>1, <1>3, <2>1, <2>2
  <2>3. ASSUME NEW k \in 1..Len(rx[c]), buf' = [buf EXCEPT ![c] = @ \o SubSeq(rx[c], 1, k)],
               rx' = [rx EXCEPT ![c] = SubSeq(@, k + 1, Len(@))]
        PROVE  Goal(d)
    <3>1. CASE c # d
      <4>1. buf'[d] = buf[d] /\ rx'[d] = rx[d]
        BY <2>1, <2>3, <3>1 DEF WTyped
      <4> QED
        BY <1>1, <1>3, <2>1, <4>1
    <3>2. CASE c = d
      <4> DEFINE x == SubSeq(rx[d], 1, k)
                 y == SubSeq(rx[d], k + 1, Len(rx[d]))
      <4>1. buf'[d] = buf[d] \o x /\ rx'[d] = y
        BY <2>1, <2>3, <3>2 DEF WTyped
      <4>2. x \in Seq(Bytes) /\ y \in Seq(Bytes) /\ x \o y = rx[d]
        BY <1>2, <2>3, <3>2, CutInTwo
      <4> HIDE DEF x, y
      <4>3. (buf[d] \o x) \o y = buf[d] \o (x \o y)
        BY <1>2, <4>2, Joined
      <4>4. Bytes1(d)'
        BY <1>1, <2>1, <4>1, <4>2, <4>3
      <4>5. Bytes2(d)'
        BY <1>1, <1>2, <2>1, <4>1, <4>2, ExactGrows
      <4>6. Bytes3(d)'
        BY <2>1, <3>2
      <4> QED
        BY <4>4, <4>5, <4>6
    <3> QED
      BY <3>1, <3>2
  <2> QED
    BY <1>14, <2>2, <2>3 DEF Recv
<1>15. ASSUME NEW t \in Threads, Parse(t) PROVE Goal(d)
  <2> DEFINE c == cur[t]
  <2>1. /\ pc[t] = "parse" /\ c \in Clients /\ c # NULL /\ c \in Worked /\ UNCHANGED <<sockets, info, buf>>
    BY <1>15, WorkerConstants DEF Parse, At, WTyped, Worked
  <2>2. CASE Unparsed(c, "e") # {} /\ HandleRequest(t, c)
    <3>1. Worked' = Worked
      BY <2>2 DEF HandleRequest, threads, Worked
    <3>2. CASE c # d
      <4>1. parsed'[d] = parsed[d] /\ reqs'[d] = reqs[d]
        BY <2>1, <2>2, <3>2 DEF HandleRequest, WTyped
      <4> QED
        BY <1>1, <1>3, <2>1, <3>1, <4>1 DEF sockets
    <3>3. CASE c = d
      <4> DEFINE n == FirstEnd(d)
      <4>1. parsed'[d] = n /\ reqs'[d] = Append(reqs[d], <<parsed[d] + 1, n>>)
        BY <2>1, <2>2, <3>3 DEF HandleRequest, WTyped
      <4>2. /\ n \in parsed[d] + 1..Len(buf[d]) /\ buf[d][n] = "e"
            /\ \A j \in parsed[d] + 1..Len(buf[d]) : buf[d][j] = "e" => n <= j
        BY <2>2, <3>3, FirstEndMeans
      <4> HIDE DEF n
      <4>3. Exact(buf[d], n, Append(reqs[d], <<parsed[d] + 1, n>>))
        BY <1>1, <1>2, <4>2, ExactNext
      <4>4. Bytes2(d)'
        BY <2>1, <4>1, <4>3
      <4> QED
        BY <1>1, <2>1, <3>1, <3>3, <4>4 DEF sockets
    <3> QED
      BY <3>2, <3>3
  <2>3. CASE Unparsed(c, "e") = {} /\ Finish(t) /\ UNCHANGED <<parsed, reqs>>
    <3>1. Worked \subseteq Worked' \cup {c}
      BY <2>1, <2>3, WorkFinishes DEF Finish, WTyped
    <3>2. Unparsed(d, "e")' = Unparsed(d, "e")
      BY <2>1, <2>3 DEF Unparsed
    <3> QED
      BY <1>1, <2>1, <2>3, <3>1, <3>2 DEF sockets
  <2>4. CASE UNCHANGED <<parsed, reqs, threads>>
    <3>1. Worked' = Worked
      BY <2>4 DEF threads, Worked
    <3> QED
      BY <1>1, <1>3, <2>1, <2>4, <3>1 DEF sockets
  <2> QED
    BY <1>15, <2>2, <2>3, <2>4 DEF Parse
<1>16. ASSUME NEW t \in Threads, Cleanup(t) PROVE Goal(d)
  <2>1. /\ cur[t] # NULL /\ cur[t] \in Clients /\ Free(cur[t]) /\ Finish(t) /\ UNCHANGED sockets
    BY <1>16 DEF Cleanup, At, WTyped
  <2>2. Worked \subseteq Worked' \cup {cur[t]}
    BY <2>1, WorkFinishes DEF Finish, WTyped
  <2> QED
    BY <1>9, <2>1, <2>2
<1>17. ASSUME Exit \/ \E t \in Threads : UseFreed(t) PROVE FALSE
  BY <1>17 DEF Exit, UseFreed, Undefined
<1> HIDE DEF Goal
<1>18. CASE \E c \in Clients : ClientSends(c) \/ ClientLeaves(c)
  BY <1>5, <1>6, <1>18
<1>19. CASE AcceptNext \/ Exit
  BY <1>7, <1>17, <1>19 DEF AcceptNext
<1>20. CASE Poller
  BY <1>8, <1>10, <1>11, <1>20 DEF Poller
<1>21. CASE \E t \in Threads : Work(t)
  <2>1. PICK t \in Threads : Work(t)
    BY <1>21
  <2>2. CASE Begin(t) \/ Alloc(t) \/ Recv(t)
    BY <1>12, <1>13, <1>14, <2>2
  <2>3. CASE Parse(t) \/ Cleanup(t)
    BY <1>15, <1>16, <2>3
  <2>4. CASE UseFreed(t)
    BY <1>17, <2>4
  <2> QED
    BY <2>1, <2>2, <2>3, <2>4 DEF Work
<1> QED
  BY <1>18, <1>19, <1>20, <1>21 DEF Next

\* Only clients have a place.
LEMMA PlacesOfClients == WTyped => edge \cup Queued \cup Batched \cup Worked \subseteq Clients
<1> SUFFICES ASSUME WTyped PROVE edge \cup Queued \cup Batched \cup Worked \subseteq Clients
  OBVIOUS
<1>1. Queued \subseteq Clients
  <2>1. workq \in Seq(Clients)
    BY DEF WTyped
  <2>2. \A i \in 1..Len(workq) : workq[i] \in Clients
    BY <2>1
  <2> QED
    BY <2>2 DEF Queued
<1>2. Batched \subseteq Clients
  BY DEF WTyped, Batched
<1>3. Worked \subseteq Clients
  BY DEF WTyped, Worked
<1> QED
  BY <1>1, <1>2, <1>3 DEF WTyped

\* Without overlap a client keeps to one place, and nothing freed is used.
LEMMA WApartStep ==
    WTyped /\ WApart /\ SafeWithoutOverlap /\ Next => WApart' /\ SafeWithoutOverlap'
<1> SUFFICES ASSUME WTyped, WApart, SafeWithoutOverlap, Next PROVE WApart' /\ SafeWithoutOverlap'
  OBVIOUS
<1> DEFINE Pairs == \A d, e \in batch : d[1] = e[1] => d = e
           Alone == \A t, u \in Threads : cur[t] = cur[u] /\ cur[t] # NULL => t = u
           Places == /\ Queued \cap Batched = {} /\ Queued \cap Worked = {} /\ Batched \cap Worked = {}
                     /\ edge \cap (Queued \cup Batched \cup Worked) = {}
           Live == \A c \in edge \cup Queued \cup Batched \cup Worked : info[c] = "live"
           Apart == Once(workq) /\ Pairs /\ Alone /\ Places /\ Live
           Goal == WApart' /\ SafeWithoutOverlap'
<1>0. process = "running"
  BY DEF Next, ClientSends, ClientLeaves, AcceptNext, Accept, Exit, Poller, EpollWait,
         HandleHangup, HandleInput, Work, Begin, Alloc, Recv, Parse, Cleanup, UseFreed, At
<1>1. ASSUME ~overlap PROVE Apart
  BY <1>0, <1>1 DEF WApart
<1>2. ASSUME process' = "running", ~overlap' => Apart' PROVE Goal
  BY <1>2 DEF WApart, SafeWithoutOverlap
<1>3. ASSUME UNCHANGED workq PROVE Queued' = Queued /\ Once(workq)' = Once(workq)
  BY <1>3 DEF Queued, Once
<1>4. ASSUME UNCHANGED batch PROVE Batched' = Batched /\ Pairs' = Pairs
  BY <1>4 DEF Batched
<1>5. ASSUME UNCHANGED cur PROVE Worked' = Worked /\ Alone' = Alone
  BY <1>5 DEF Worked
<1>6. ASSUME NEW c \in Clients, Arrived(c), UNCHANGED process PROVE Goal
  <2>1. /\ UNCHANGED <<workq, batch, cur, info>> /\ overlap' = (overlap \/ Busy(c))
        /\ edge' = IF info[c] = "live" THEN edge \cup {c} ELSE edge
    BY <1>6 DEF Arrived, infos, threads
  <2>2. ASSUME ~overlap' PROVE ~overlap /\ ~Busy(c)
    BY <2>1, <2>2, Zenon
  <2>3. ASSUME ~overlap' PROVE Apart'
    <3>1. Apart /\ c \notin Queued \cup Batched \cup Worked
      BY <1>1, <2>2, <2>3 DEF Busy
    <3> QED
      BY <1>3, <1>4, <1>5, <2>1, <3>1
  <2> QED
    BY <1>0, <1>2, <1>6, <2>3
<1>7. ASSUME NEW c \in Clients, ClientSends(c) \/ ClientLeaves(c) PROVE Goal
  BY <1>6, <1>7 DEF ClientSends, ClientLeaves, Arrived
<1>8. ASSUME NEW c \in Clients, Accept(c) PROVE Goal
  <2>1. /\ UNCHANGED <<process, workq, batch, cur, overlap>> /\ info[c] = "none"
        /\ \A a \in Clients : a # c => info'[a] = info[a]
        /\ \/ info'[c] = "live" /\ edge' \subseteq edge \cup {c}
           \/ edge' = edge
    BY <1>8 DEF Accept, threads, WTyped
  <2>2. ASSUME ~overlap PROVE Apart'
    <3>1. Apart /\ c \notin edge \cup Queued \cup Batched \cup Worked
      BY <1>1, <2>1, <2>2
    <3>2. edge \cup Queued \cup Batched \cup Worked \subseteq Clients
      BY PlacesOfClients
    <3> QED
      BY <1>3, <1>4, <1>5, <2>1, <3>1, <3>2
  <2> QED
    BY <1>0, <1>2, <2>1, <2>2
<1>9. ASSUME EpollWait PROVE Goal
  <2>1. UNCHANGED <<process, workq, cur, info, overlap>> /\ batch = {}
    BY <1>9 DEF EpollWait, infos, threads
  <2>2. PICK ready \in SUBSET edge : batch' = {<<c, end[c] = "reset">> : c \in ready} /\ edge' = edge \ ready
    BY <1>9 DEF EpollWait
  <2>3. Batched = {} /\ Batched' = ready /\ Pairs'
    <3> DEFINE ev(c) == <<c, end[c] = "reset">>
    <3>1. batch' = {ev(c) : c \in ready} /\ \A c \in ready : ev(c)[1] = c
      BY <2>2
    <3> HIDE DEF ev
    <3> QED
      BY <2>1, <3>1 DEF Batched
  <2>4. ASSUME ~overlap PROVE Apart'
    <3>1. Apart
      BY <1>1, <2>4
    <3> QED
      BY <1>3, <1>5, <2>1, <2>2, <2>3, <3>1
  <2> QED
    BY <1>0, <1>2, <2>1, <2>4
<1>10. ASSUME NEW e \in batch, info[e[1]] = "freed" PROVE overlap
  <2>1. e[1] \in Batched
    BY DEF Batched
  <2> QED
    BY <1>1, <1>10, <2>1
<1>11. ASSUME NEW c \in Clients, Free(c)
       PROVE  edge' = edge \ {c} /\ \A a \in Clients : a # c => info'[a] = info[a]
  BY <1>11 DEF Free, WTyped
<1>12. edge \cup Queued \cup Batched \cup Worked \subseteq Clients
  BY PlacesOfClients
<1>13. ASSUME NEW c \in Clients, HandleHangup(c) PROVE Goal
  <2> DEFINE e == <<c, TRUE>>
  <2>1. e \in batch /\ e[1] = c
    BY <1>13 DEF HandleHangup
  <2>2. CASE info[c] = "freed"
    <3>1. overlap /\ overlap' = overlap
      BY <1>10, <1>13, <2>1, <2>2 DEF HandleHangup, Undefined
    <3> QED
      BY <3>1 DEF WApart, SafeWithoutOverlap
  <2>3. CASE info[c] # "freed"
    <3>1. Free(c) /\ batch' = batch \ {e} /\ UNCHANGED <<process, workq, cur, overlap>>
      BY <1>13, <2>3 DEF HandleHangup, threads
    <3> HIDE DEF e
    <3>2. ASSUME ~overlap PROVE Apart'
      <4>1. Apart
        BY <1>1, <3>2
      <4>2. Batched' \subseteq Batched /\ c \in Batched /\ c \notin Batched' /\ Pairs'
        BY <2>1, <3>1, <4>1, BatchTake
      <4>3. edge' = edge \ {c} /\ \A a \in Clients : a # c => info'[a] = info[a]
        BY <1>11, <3>1
      <4> QED
        BY <1>3, <1>5, <1>12, <3>1, <4>1, <4>2, <4>3
    <3> QED
      BY <1>0, <1>2, <3>1, <3>2
  <2> QED
    BY <2>2, <2>3
<1>14. ASSUME NEW c \in Clients, HandleInput(c) PROVE Goal
  <2> DEFINE e == <<c, FALSE>>
  <2>1. e \in batch /\ e[1] = c
    BY <1>14 DEF HandleInput
  <2>2. CASE info[c] = "freed"
    <3>1. overlap /\ overlap' = overlap
      BY <1>10, <1>14, <2>1, <2>2 DEF HandleInput, Undefined
    <3> QED
      BY <3>1 DEF WApart, SafeWithoutOverlap
  <2>3. CASE info[c] # "freed"
    <3>1. /\ batch' = batch \ {e} /\ UNCHANGED <<process, edge, info, cur, overlap>>
          /\ workq' = Append(workq, c) \/ UNCHANGED workq
      BY <1>14, <2>3 DEF HandleInput, threads, infos
    <3> HIDE DEF e
    <3>2. ASSUME ~overlap PROVE Apart'
      <4>1. Apart
        BY <1>1, <3>2
      <4>2. Batched' \subseteq Batched /\ c \in Batched /\ c \notin Batched' /\ Pairs'
        BY <2>1, <3>1, <4>1, BatchTake
      <4>3. Queued' \subseteq Queued \cup {c} /\ Once(workq')
        <5>1. c \notin Queued
          BY <4>1, <4>2
        <5>2. CASE workq' = Append(workq, c)
          BY <4>1, <5>1, <5>2, QueueAppend DEF WTyped
        <5>3. CASE UNCHANGED workq
          BY <1>3, <4>1, <5>3
        <5> QED
          BY <3>1, <5>2, <5>3
      <4> QED
        BY <1>5, <1>12, <3>1, <4>1, <4>2, <4>3
    <3> QED
      BY <1>0, <1>2, <3>1, <3>2
  <2> QED
    BY <2>2, <2>3
<1>15. ASSUME NEW t \in Threads, Begin(t) PROVE Goal
  <2> DEFINE c == Head(workq)
  <2>1. /\ workq # <<>> /\ workq' = Tail(workq) /\ cur[t] = NULL /\ cur' = [cur EXCEPT ![t] = c]
        /\ UNCHANGED <<process, edge, info, batch, overlap>>
    BY <1>15 DEF Begin, Goto, infos, WTyped
  <2>2. /\ c \in Clients /\ Queued = Queued' \cup {c}
        /\ Once(workq) => Once(workq') /\ c \notin Queued'
    BY <2>1, QueueTake DEF WTyped
  <2> HIDE DEF c
  <2>3. Worked' = Worked \cup {c}
    BY <2>1, <2>2, WorkBegins DEF WTyped
  <2>4. ASSUME ~overlap PROVE Apart'
    <3>1. Apart
      BY <1>1, <2>4
    <3>2. Alone'
      <4>1. c \notin Worked
        BY <2>2, <3>1
      <4>2. \A u \in Threads : cur[u] # c
        BY <2>2, <4>1, WorkerConstants DEF Worked
      <4> QED
        BY <2>1, <3>1, <4>2 DEF WTyped
    <3> QED
      BY <1>4, <2>1, <2>2, <2>3, <3>1, <3>2
  <2> QED
    BY <1>0, <1>2, <2>1, <2>4
<1>16. ASSUME UNCHANGED <<process, workq, batch, cur, info, edge, overlap>> PROVE Goal
  <2>1. ASSUME ~overlap PROVE Apart'
    <3>1. Apart
      BY <1>1, <2>1
    <3> QED
      BY <1>3, <1>4, <1>5, <1>16, <3>1
  <2> QED
    BY <1>0, <1>2, <1>16, <2>1
<1>17. ASSUME NEW t \in Threads, cur[t] # NULL, Finish(t), ~Spoiled(t), UNCHANGED <<process, workq, batch, overlap>>,
              edge' \subseteq edge, \A a \in Clients : a # cur[t] => info'[a] = info[a],
              info'[cur[t]] = info[cur[t]] \/ cur[t] \notin edge'
       PROVE  Goal
  <2>1. /\ Worked \subseteq Worked' \cup {cur[t]} /\ Worked' \subseteq Worked /\ cur[t] \in Worked
        /\ cur[t] \notin Worked'
    <3>1. \A u \in Threads \ {t} : cur[u] # cur[t]
      BY <1>17 DEF Spoiled
    <3> QED
      BY <1>17, <3>1, WorkFinishes DEF Finish, WTyped
  <2>2. ASSUME ~overlap PROVE Apart'
    <3>1. Apart
      BY <1>1, <2>2
    <3>2. Alone'
      BY <1>17, <3>1 DEF Finish, WTyped
    <3>3. Places'
      BY <1>3, <1>4, <1>17, <2>1, <3>1
    <3>4. Live'
      BY <1>3, <1>4, <1>12, <1>17, <2>1, <3>1
    <3> QED
      BY <1>3, <1>4, <1>17, <3>1, <3>2, <3>3, <3>4
  <2> QED
    BY <1>0, <1>2, <1>17, <2>2
<1>18. ASSUME NEW t \in Threads, Alloc(t) \/ Recv(t) PROVE Goal
  <2>1. UNCHANGED <<process, workq, batch, cur, info, edge, overlap>>
    BY <1>18 DEF Alloc, Recv
  <2> QED
    BY <1>16, <2>1
<1>19. ASSUME NEW t \in Threads, Parse(t) PROVE Goal
  <2>1. /\ cur[t] # NULL /\ ~Spoiled(t) /\ UNCHANGED <<process, workq, batch, info, edge, overlap>>
    BY <1>19 DEF Parse, At, WTyped
  <2>2. CASE Finish(t)
    BY <1>17, <2>1, <2>2
  <2>3. CASE UNCHANGED threads
    BY <1>16, <2>1, <2>3 DEF threads
  <2> QED
    BY <1>19, <2>2, <2>3 DEF Parse, HandleRequest
<1>20. ASSUME NEW t \in Threads, Cleanup(t) PROVE Goal
  <2>1. /\ cur[t] # NULL /\ cur[t] \in Clients /\ ~Spoiled(t) /\ Finish(t) /\ Free(cur[t])
        /\ UNCHANGED <<process, workq, batch, overlap>>
    BY <1>20 DEF Cleanup, At, WTyped
  <2>2. edge' = edge \ {cur[t]} /\ \A a \in Clients : a # cur[t] => info'[a] = info[a]
    BY <1>11, <2>1
  <2> QED
    BY <1>17, <2>1, <2>2
<1>21. ASSUME NEW t \in Threads, UseFreed(t) PROVE Goal
  <2>1. /\ cur[t] # NULL /\ (Spoiled(t) \/ ListDangles(t)) /\ process' = "undefined"
        /\ UNCHANGED <<overlap, dangling>>
    BY <1>21 DEF UseFreed, Undefined, infos
  <2>2. CASE Spoiled(t)
    <3>1. ASSUME ~overlap PROVE FALSE
      <4>1. Apart /\ cur[t] \in Worked
        BY <1>1, <1>21, <3>1 DEF Worked, UseFreed
      <4> QED
        BY <1>21, <2>2, <4>1 DEF Spoiled, UseFreed
    <3> QED
      BY <1>21, <3>1 DEF WApart, SafeWithoutOverlap, UseFreed, Undefined
  <2>3. CASE ListDangles(t)
    BY <1>21, <2>3 DEF WApart, SafeWithoutOverlap, UseFreed, Undefined, ListDangles, infos
  <2> QED
    BY <1>21, <2>2, <2>3 DEF UseFreed
<1>22. ASSUME Exit PROVE Goal
  BY <1>22 DEF Exit, WApart, SafeWithoutOverlap
<1> HIDE DEF Goal
<1>23. Goal
  <2>1. CASE \E c \in Clients : ClientSends(c) \/ ClientLeaves(c)
    BY <1>7, <2>1
  <2>2. CASE AcceptNext \/ Exit
    BY <1>8, <1>22, <2>2 DEF AcceptNext
  <2>3. CASE Poller
    BY <1>9, <1>13, <1>14, <2>3 DEF Poller
  <2>4. CASE \E t \in Threads : Work(t)
    <3>1. PICK t \in Threads : Work(t)
      BY <2>4
    <3>2. CASE Begin(t) \/ Alloc(t) \/ Recv(t)
      BY <1>15, <1>18, <3>2
    <3>3. CASE Parse(t) \/ Cleanup(t) \/ UseFreed(t)
      BY <1>19, <1>20, <1>21, <3>3
    <3> QED
      BY <3>1, <3>2, <3>3 DEF Work
  <2> QED
    BY <2>1, <2>2, <2>3, <2>4 DEF Next
<1> QED
  BY <1>23 DEF Goal

-----------------------------------------------------------------------------
\* The worker starts with nobody.
LEMMA WStarts == Init => WInv
<1> SUFFICES ASSUME Init PROVE WInv
  OBVIOUS
<1>1. WTyped
  BY DEF Init, WTyped
<1>2. WEvents
  BY DEF Init, WEvents
<1>3. WData
  <2>1. \A c \in Clients : /\ buf[c] = <<>> /\ rx[c] = <<>> /\ sent[c] = <<>> /\ parsed[c] = 0
                           /\ reqs[c] = <<>>
    BY DEF Init
  <2>2. \A c \in Clients : Unparsed(c, "e") = {}
    BY <2>1 DEF Unparsed
  <2>3. <<>> \o <<>> = <<>>
    OBVIOUS
  <2> QED
    BY <2>1, <2>2, <2>3, ExactEmpty DEF WData
<1>4. WApart
  BY DEF Init, WApart, Once, Queued, Batched, Worked
<1>5. SafeWithoutOverlap
  BY DEF Init, SafeWithoutOverlap
<1> QED
  BY <1>1, <1>2, <1>3, <1>4, <1>5 DEF WInv

\* WInv holds in every reachable state.
LEMMA WHolds == Spec => []WInv
<1>1. WInv /\ [Next]_vars => WInv'
  <2> SUFFICES ASSUME WInv, [Next]_vars PROVE WInv'
    OBVIOUS
  <2>1. CASE Next
    BY <2>1, WTypedStep, WEventsStep, WDataStep, WApartStep DEF WInv
  <2>2. CASE UNCHANGED vars
    <3>1. UNCHANGED <<process, sent, end, rx, edge, info, buf, parsed, reqs, dangling, batch, workq,
                      pc, cur, missed, overlap>>
      BY <2>2 DEF vars, sockets, infos, threads
    <3>2. WTyped'
      BY <3>1 DEF WInv, WTyped
    <3>3. WEvents'
      BY <3>1 DEF WInv, WEvents, Readable, Queued, Batched, Spoiled
    <3>4. WData'
      BY <3>1 DEF WInv, WData, Worked, Unparsed
    <3>5. UNCHANGED <<Queued, Batched, Worked>> /\ Once(workq)' = Once(workq)
      BY <3>1 DEF Queued, Batched, Worked, Once
    <3>6. WApart'
      BY <3>1, <3>5 DEF WInv, WApart
    <3>7. SafeWithoutOverlap'
      BY <3>1 DEF WInv, SafeWithoutOverlap
    <3> QED
      BY <3>2, <3>3, <3>4, <3>6, <3>7 DEF WInv
  <2> QED
    BY <2>1, <2>2
<1> QED
  BY <1>1, WStarts, PTL DEF Spec

\* proxy_poller.c: with any number of clients and threads, whatever is sent and
\* however epoll, the poller and the threads interleave, an edge-triggered event
\* is lost only when the work queue refuses it.
THEOREM EventsAreKept == Spec => []NoEventLost
<1>1. WInv => NoEventLost
  <2> SUFFICES ASSUME WInv, process = "running", NEW c \in Clients, info[c] = "live",
                      c \notin edge \cup missed, ~Busy(c), Readable(c)
               PROVE  FALSE
    BY DEF NoEventLost
  <2>1. c # NULL /\ \A t \in Threads : cur[t] # c
    BY WorkerConstants DEF Busy, Worked
  <2> QED
    BY <2>1 DEF WInv, WEvents, Busy
<1> QED
  BY <1>1, WHolds, PTL

\* proxy_request_handler.c: the list of requests is exactly the requests among
\* the bytes that were received, in order, for every sequence of bytes and every
\* way recv cuts it.
THEOREM RequestListExact == Spec => []RequestsExact
<1>1. WInv => RequestsExact
  <2> SUFFICES ASSUME WInv, process = "running", NEW c \in Clients
               PROVE  /\ info[c] = "live" /\ end[c] # "reset" => buf[c] \o rx[c] = sent[c]
                      /\ \A i \in 1..Len(reqs[c]) :
                           /\ reqs[c][i][1] = (IF i = 1 THEN 1 ELSE reqs[c][i - 1][2] + 1)
                           /\ {j \in reqs[c][i][1]..reqs[c][i][2] : buf[c][j] = "e"} = {reqs[c][i][2]}
                      /\ info[c] = "live" /\ ~Busy(c) => Unparsed(c, "e") = {}
    BY DEF RequestsExact
  <2>1. /\ info[c] # "freed" /\ end[c] # "reset" => buf[c] \o rx[c] = sent[c]
        /\ Exact(buf[c], parsed[c], reqs[c])
        /\ info[c] # "freed" /\ c \notin Worked => Unparsed(c, "e") = {}
    BY DEF WInv, WData
  <2>2. \A i \in 1..Len(reqs[c]) :
           /\ reqs[c][i][1] = (IF i = 1 THEN 1 ELSE reqs[c][i - 1][2] + 1)
           /\ {j \in reqs[c][i][1]..reqs[c][i][2] : buf[c][j] = "e"} = {reqs[c][i][2]}
    BY <2>1 DEF Exact
  <2>3. info[c] = "live" /\ ~Busy(c) => Unparsed(c, "e") = {}
    BY <2>1 DEF Busy
  <2> QED
    BY <2>1, <2>2, <2>3
<1> QED
  BY <1>1, WHolds, PTL

\* proxy_poller.c: as long as no event overlaps the work for an earlier one, no
\* proxy_info is used after it was freed or by two threads, for any number of them.
THEOREM ApartIsSafe == Spec => []SafeWithoutOverlap
<1>1. WInv => SafeWithoutOverlap
  BY DEF WInv
<1> QED
  BY <1>1, WHolds, PTL

=============================================================================
