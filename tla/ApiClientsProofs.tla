--------------------------- MODULE ApiClientsProofs --------------------------
(***************************************************************************)
(* Proofs about the client libraries and programs, for any threads, any    *)
(* sizes of the pools, any number of operations and any documents.         *)
(***************************************************************************)
EXTENDS MCApiClients, Integers, Sequences, FiniteSetTheorems, SequenceTheorems,
        NaturalsInduction, WellFoundedInduction, TLAPS

(***************************************************************************)
(* The pool of mongo clients.  Where a worker is says what it holds; every *)
(* client the pool made is in the pool or with one worker, so that after   *)
(* the join the pool has them all.                                         *)
(***************************************************************************)
Holding == {"get", "operate", "push"}

MongoTyped ==
    /\ main \in {"start", "working", "joined", "end"}
    /\ pc \in [Workers -> {"return", "pop", "get", "operate", "push", "destroy", "destroy_cursor"}]
    /\ made \in Nat /\ idle \subseteq 1..made
    /\ client \in [Workers -> Nat] /\ coll \in [Workers -> Nat] /\ cursor \in [Workers -> Nat]

MongoPlaces ==
    \A w \in Workers :
        /\ client[w] # 0 <=> pc[w] \in Holding
        /\ coll[w] # 0 => (pc[w] \in {"operate", "push"} /\ coll[w] = client[w]) \/ pc[w] = "destroy"
        /\ cursor[w] # 0 => \/ pc[w] = "push" /\ cursor[w] = client[w]
                            \/ pc[w] \in {"destroy", "destroy_cursor"}

MongoOwned ==
    /\ \A v, w \in Workers : client[v] = client[w] /\ client[v] # 0 => v = w
    /\ \A w \in Workers : client[w] \notin idle /\ client[w] \in 0..made
    /\ \A c \in 1..made : c \in idle \/ \E w \in Workers : client[w] = c

MongoMain ==
    /\ main # "working" => \A w \in Workers : pc[w] = "return"
    /\ live = IF main \in {"working", "joined"} THEN {"library", "pool", "context"} ELSE {}
    /\ main \in {"start", "end"} => made = 0

MongoInv == MongoTyped /\ MongoPlaces /\ MongoOwned /\ MongoMain

\* Nothing is allocated yet.
LEMMA MongoStarts == Mongo!Init => MongoInv
  BY DEF Mongo!Init, Mongo!NoClient, MongoInv, MongoTyped, MongoPlaces, MongoOwned, MongoMain, Holding

\* After the join the pool has every client it made, and destroys as many.
LEMMA AllIdle ==
    ASSUME MongoInv, main = "joined"
    PROVE  idle = 1..made /\ Cardinality(idle) = made
<1>1. \A w \in Workers : client[w] = 0
  BY DEF MongoInv, MongoTyped, MongoMain, MongoPlaces, Holding
<1>2. idle = 1..made
  <2>1. made \in Nat /\ idle \subseteq 1..made
    BY DEF MongoInv, MongoTyped
  <2>2. ASSUME NEW c \in 1..made PROVE c \in idle
    <3>1. c # 0
      BY <2>1
    <3> QED
      BY <1>1, <3>1 DEF MongoInv, MongoOwned
  <2> QED
    BY <2>1, <2>2
<1>3. Cardinality(1..made) = made
  <2>1. made \in Nat
    BY DEF MongoInv, MongoTyped
  <2> QED
    BY <2>1, FS_Interval
<1> QED
  BY <1>2, <1>3

\* No step of the main thread or of a worker breaks the invariant.
LEMMA MongoStep == MongoInv /\ Mongo!Next => MongoInv'
<1> SUFFICES ASSUME MongoInv, Mongo!Next PROVE MongoInv'
  OBVIOUS
<1> USE DEF MongoInv, MongoTyped, MongoPlaces, MongoOwned, MongoMain, Holding
<1> USE DEF Mongo!NoClient, Mongo!setup, Mongo!Goto, Mongo!Push
<1>1. ASSUME NEW min \in MinSizes, NEW max \in MaxSizes, Mongo!mongo_context_pool_init(min, max)
      PROVE  MongoInv'
  BY <1>1 DEF Mongo!mongo_context_pool_init
<1>2. ASSUME NEW w \in Workers, NEW name, Mongo!Call(w, name) PROVE MongoInv'
  BY <1>2 DEF Mongo!Call
<1>3. ASSUME NEW w \in Workers, Mongo!Pop(w) PROVE MongoInv'
  <2>1. MongoTyped'
    <3>0. idle' \subseteq idle /\ (made' = made \/ made' = made + 1)
      BY <1>3 DEF Mongo!Pop
    <3>1. made' \in Nat /\ idle' \subseteq 1..made'
      BY <3>0
    <3>2. client' \in [Workers -> Nat]
      BY <1>3 DEF Mongo!Pop
    <3> QED
      BY <1>3, <3>1, <3>2 DEF Mongo!Pop
  <2>2. MongoPlaces'
    BY <1>3 DEF Mongo!Pop
  <2>3. MongoOwned'
    BY <1>3 DEF Mongo!Pop
  <2>4. MongoMain'
    BY <1>3 DEF Mongo!Pop
  <2> QED
    BY <2>1, <2>2, <2>3, <2>4 DEF MongoInv
<1>4. ASSUME NEW w \in Workers, Mongo!PopFails(w) PROVE MongoInv'
  BY <1>4 DEF Mongo!PopFails
<1>5. ASSUME NEW w \in Workers, Mongo!GetCollection(w) PROVE MongoInv'
  <2>1. MongoTyped'
    <3>0. client[w] \in 1..made
      BY <1>5 DEF Mongo!GetCollection
    <3>1. made' \in Nat /\ idle' \subseteq 1..made'
      BY <1>5, <3>0 DEF Mongo!GetCollection
    <3>2. client' \in [Workers -> Nat]
      BY <1>5 DEF Mongo!GetCollection
    <3> QED
      BY <1>5, <3>1, <3>2 DEF Mongo!GetCollection
  <2>2. MongoPlaces'
    BY <1>5 DEF Mongo!GetCollection
  <2>3. MongoOwned'
    BY <1>5 DEF Mongo!GetCollection
  <2>4. MongoMain'
    BY <1>5 DEF Mongo!GetCollection
  <2> QED
    BY <2>1, <2>2, <2>3, <2>4 DEF MongoInv
<1>6. ASSUME NEW w \in Workers, Mongo!Operate(w) PROVE MongoInv'
  BY <1>6 DEF Mongo!Operate
<1>7. ASSUME NEW w \in Workers, Mongo!PushBack(w) PROVE MongoInv'
  <2>1. MongoTyped'
    <3>0. client[w] \in 1..made
      BY <1>7 DEF Mongo!PushBack
    <3>1. made' \in Nat /\ idle' \subseteq 1..made'
      BY <1>7, <3>0 DEF Mongo!PushBack
    <3>2. client' \in [Workers -> Nat]
      BY <1>7 DEF Mongo!PushBack
    <3> QED
      BY <1>7, <3>1, <3>2 DEF Mongo!PushBack
  <2>2. MongoPlaces'
    BY <1>7 DEF Mongo!PushBack
  <2>3. MongoOwned'
    BY <1>7 DEF Mongo!PushBack
  <2>4. MongoMain'
    BY <1>7 DEF Mongo!PushBack
  <2> QED
    BY <2>1, <2>2, <2>3, <2>4 DEF MongoInv
<1>8. ASSUME NEW w \in Workers, Mongo!DestroyCollection(w) PROVE MongoInv'
  BY <1>8 DEF Mongo!DestroyCollection
<1>9. ASSUME NEW w \in Workers, Mongo!DestroyCursor(w) PROVE MongoInv'
  BY <1>9 DEF Mongo!DestroyCursor
<1>10. CASE Mongo!Join
  BY <1>10 DEF Mongo!Join
<1>11. CASE Mongo!mongo_context_pool_destroy
  <2>a. made' = 0 /\ idle' = {} /\ main = "joined" /\ main' = "end"
    <3>1. Cardinality(idle) = made /\ made \in Nat
      BY <1>11, AllIdle DEF Mongo!mongo_context_pool_destroy
    <3>2. made' = made - Cardinality(idle)
      BY <1>11 DEF Mongo!mongo_context_pool_destroy, Mongo!Cardinality, Cardinality
    <3>3. idle' = {} /\ main = "joined" /\ main' = "end"
      BY <1>11 DEF Mongo!mongo_context_pool_destroy
    <3> QED
      BY <3>1, <3>2, <3>3
  <2>b. \A w \in Workers : client[w] = 0
    BY <2>a
  <2>1. MongoTyped'
    BY <1>11, <2>a, <2>b DEF Mongo!mongo_context_pool_destroy
  <2>2. MongoPlaces'
    BY <1>11, <2>a, <2>b DEF Mongo!mongo_context_pool_destroy
  <2>3. MongoOwned'
    BY <1>11, <2>a, <2>b DEF Mongo!mongo_context_pool_destroy
  <2>4. MongoMain'
    BY <1>11, <2>a, <2>b DEF Mongo!mongo_context_pool_destroy
  <2> QED
    BY <2>1, <2>2, <2>3, <2>4 DEF MongoInv
<1> QED
  BY <1>1, <1>2, <1>3, <1>4, <1>5, <1>6, <1>7, <1>8, <1>9, <1>10, <1>11, Zenon
  DEF Mongo!Next, Mongo!Step, Mongo!mongo_insert_doc, Mongo!mongo_doc_remove, Mongo!mongo_doc_update,
      Mongo!mongo_doc_exists, Mongo!mongo_coll_create_ttl_index

\* mongo_api.c: with any number of threads, any sizes of the pool and whatever
\* call fails, two threads have a hand on one client only while one of them
\* cleans up after its push, and at the end everything has been given back.
THEOREM MongoKeepsClients == Spec => []MongoClientsKept
<1>1. Init => MongoInv
  BY MongoStarts DEF Init
<1>2. MongoInv /\ [Next]_vars => MongoInv'
  <2> SUFFICES ASSUME MongoInv, [Next]_vars PROVE MongoInv'
    OBVIOUS
  <2>1. CASE InMongo /\ Mongo!Next
    BY <2>1, MongoStep
  <2>2. CASE UNCHANGED mongo_vars
    BY <2>2 DEF mongo_vars, MongoInv, MongoTyped, MongoPlaces, MongoOwned, MongoMain
  <2> QED
    BY <2>1, <2>2 DEF Next, vars, InBson, InIcap
<1>3. MongoInv => Mongo!SharedOnlyInCleanup
  BY DEF MongoInv, MongoTyped, MongoPlaces, MongoOwned, Holding, Mongo!SharedOnlyInCleanup,
         Mongo!Touches, Mongo!NoClient
<1>4. MongoInv => Mongo!AllGivenBack
  BY DEF MongoInv, MongoTyped, MongoPlaces, MongoMain, Holding, Mongo!AllGivenBack, Mongo!NoClient
<1> QED
  BY <1>1, <1>2, <1>3, <1>4, PTL DEF Spec, MongoClientsKept

-----------------------------------------------------------------------------
(***************************************************************************)
(* The ICAP programs.  Which call a program makes at each step is a fact   *)
(* about its script; from where it is in the script follow the pool, the   *)
(* open contexts and whether there is a receiver.                          *)
(***************************************************************************)
\* The calls between the connect and the join of a program with one context.
Talks == {"spawn", "chunked", "headers", "headers_body", "options", "preview", "chunk", "last"}
Call == [call : Talks \cup {"init", "connect", "join", "disconnect", "check_flag", "free"},
         i : Nat, must : BOOLEAN]

\* The script of a program with one context.
Simple(s) ==
    /\ Len(s) \in Nat /\ Len(s) >= 5
    /\ s[1].call = "init" /\ s[1].must
    /\ s[2].call = "connect" /\ s[2].must /\ s[2].i = 1
    /\ \A k \in 3..Len(s) - 3 : s[k].call \in Talks
    /\ s[Len(s) - 2].call = "join"
    /\ s[Len(s) - 1].call = "disconnect" /\ s[Len(s) - 1].i = 1
    /\ s[Len(s)].call = "free" /\ s[Len(s)].must

\* The script of connPool.c.
Pooled(s) ==
    /\ Len(s) = 2 * POOL_SIZE + 14
    /\ s[1].call = "init" /\ s[1].must
    /\ s[2].call = "connect" /\ s[2].must /\ s[2].i = 1
    /\ s[3].call = "options" /\ s[4].call = "spawn" /\ s[5].call = "join"
    /\ s[6].call = "disconnect" /\ s[6].must /\ s[6].i = 1
    /\ \A k \in 7..POOL_SIZE + 7 : s[k].call = "connect" /\ s[k].i = k - 6
    /\ s[POOL_SIZE + 8].call = "disconnect" /\ s[POOL_SIZE + 8].i = 1
    /\ s[POOL_SIZE + 9].call = "disconnect" /\ s[POOL_SIZE + 9].i = POOL_SIZE
    /\ s[POOL_SIZE + 10].call = "connect" /\ s[POOL_SIZE + 10].i = 1
    /\ s[POOL_SIZE + 11].call = "connect" /\ s[POOL_SIZE + 11].i = POOL_SIZE
    /\ \A k \in POOL_SIZE + 12..2 * POOL_SIZE + 12 :
          s[k].call = "disconnect" /\ s[k].i = k - (POOL_SIZE + 11)
    /\ s[2 * POOL_SIZE + 13].call = "check_flag" /\ s[2 * POOL_SIZE + 13].must
    /\ s[2 * POOL_SIZE + 14].call = "free" /\ s[2 * POOL_SIZE + 14].must

\* Where a running program is, and what it has there.
PoolAt(l) ==
    /\ step \in 1..l + 1
    /\ step = 1 => pool = "none"
    /\ step \in 2..l => pool = "ready"
    /\ step = l + 1 => open \subseteq kept /\ receiver = "none"
    /\ kept = {} => lost = 0

SimpleAt(l) ==
    /\ PoolAt(l)
    /\ step <= 2 => open = {}
    /\ step \in 3..l - 1 => open = {1}
    /\ step >= l => open \subseteq kept
    /\ receiver # "none" => step \in 4..l - 2

PooledAt ==
    /\ PoolAt(2 * POOL_SIZE + 14)
    /\ step <= 2 => open = {}
    /\ step \in 3..6 => open = {1}
    /\ open \subseteq 1..POOL_SIZE + 1
    /\ step \in 7..POOL_SIZE + 7 => \A c \in open : c < step - 6
    /\ step \in POOL_SIZE + 9..POOL_SIZE + 10 => (1 \in open => 1 \in kept)
    /\ step \in POOL_SIZE + 10..POOL_SIZE + 11 => (POOL_SIZE \in open => POOL_SIZE \in kept)
    /\ step \in POOL_SIZE + 12..2 * POOL_SIZE + 14 =>
          \A c \in open : c >= step - (POOL_SIZE + 11) \/ c \in kept
    /\ receiver # "none" => step = 5

IcapAt == IF program = "conn_pool" THEN PooledAt ELSE SimpleAt(Len(Icap!Script))

IcapInv ==
    /\ program \in Programs
    /\ exit = "running" => IcapAt
    /\ pool = "freed" => open \subseteq kept /\ (kept = {} => lost = 0) /\ receiver = "none"

\* Every script has its shape.
Scripted == IF program = "conn_pool" THEN Pooled(Icap!Script) ELSE Simple(Icap!Script)

\* A script up to its connect and after some of the talk.
Started(s) ==
    /\ s \in Seq(Call) /\ Len(s) >= 2
    /\ s[1].call = "init" /\ s[1].must
    /\ s[2].call = "connect" /\ s[2].must /\ s[2].i = 1
    /\ \A k \in 3..Len(s) : s[k].call \in Talks

Talk(m) == m \in Seq(Call) /\ \A k \in 1..Len(m) : m[k].call \in Talks

LEMMA Joined ==
    ASSUME NEW s \in Seq(Call), NEW m \in Seq(Call)
    PROVE  /\ s \o m \in Seq(Call) /\ Len(s \o m) = Len(s) + Len(m)
           /\ \A k \in 1..Len(s) : (s \o m)[k] = s[k]
           /\ \A k \in 1..Len(m) : (s \o m)[Len(s) + k] = m[k]
  OBVIOUS

LEMMA TalkOn == ASSUME NEW s, NEW m, Started(s), Talk(m) PROVE Started(s \o m)
<1> DEFINE a == Len(s)
           b == Len(m)
           t == s \o m
<1>1. /\ a \in Nat /\ b \in Nat /\ a >= 2 /\ t \in Seq(Call) /\ Len(t) = a + b
      /\ \A k \in 1..a : t[k] = s[k]
      /\ \A k \in 1..b : t[a + k] = m[k] /\ m[k].call \in Talks
      /\ \A k \in 3..a : s[k].call \in Talks
  BY Joined DEF Started, Talk
<1>2. 1 \in 1..a /\ 2 \in 1..a
  BY <1>1
<1> HIDE DEF a, b, t
<1>3. ASSUME NEW k \in 3..a + b PROVE t[k].call \in Talks
  <2>1. CASE k <= a
    BY <1>1, <2>1
  <2>2. CASE ~(k <= a)
    <3>1. k - a \in 1..b /\ a + (k - a) = k
      BY <1>1, <2>2
    <3> QED
      BY <1>1, <3>1
  <2> QED
    BY <2>1, <2>2
<1>4. t[1] = s[1] /\ t[2] = s[2] /\ Len(t) >= 2
  BY <1>1, <1>2
<1>5. Started(t)
  BY <1>1, <1>3, <1>4 DEF Started
<1> QED
  BY <1>5 DEF t

LEMMA Closed == ASSUME NEW s, Started(s) PROVE Simple(s \o Icap!Close)
<1> DEFINE a == Len(s)
           m == Icap!Close
           t == s \o m
<1>1. /\ m \in Seq(Call) /\ Len(m) = 3
      /\ m[1].call = "join" /\ m[2].call = "disconnect" /\ m[2].i = 1 /\ m[3].call = "free" /\ m[3].must
  BY DEF Icap!Close, Icap!Must, Icap!May, Call, Talks
<1> HIDE DEF m
<1>2. /\ a \in Nat /\ a >= 2 /\ Len(t) = a + 3
      /\ \A k \in 1..a : t[k] = s[k]
      /\ t[a + 1] = m[1] /\ t[a + 2] = m[2] /\ t[a + 3] = m[3]
      /\ \A k \in 3..a : s[k].call \in Talks
  <2>1. s \in Seq(Call) /\ a \in Nat /\ a >= 2 /\ \A k \in 3..a : s[k].call \in Talks
    BY DEF Started
  <2>2. /\ Len(t) = a + Len(m) /\ \A k \in 1..a : t[k] = s[k]
        /\ \A k \in 1..Len(m) : t[a + k] = m[k]
    BY <1>1, <2>1, Joined, Zenon
  <2>3. 1 \in 1..Len(m) /\ 2 \in 1..Len(m) /\ 3 \in 1..Len(m)
    BY <1>1
  <2> QED
    BY <1>1, <2>1, <2>2, <2>3, Zenon
<1>3. 1 \in 1..a /\ 2 \in 1..a
  BY <1>2
<1> HIDE DEF a, t
<1>4. t[1] = s[1] /\ t[2] = s[2] /\ Len(t) \in Nat /\ Len(t) >= 5
  BY <1>2, <1>3
<1>5. Len(t) - 2 = a + 1 /\ Len(t) - 1 = a + 2 /\ Len(t) = a + 3 /\ Len(t) - 3 = a
  BY <1>2
<1>6. \A k \in 3..a : t[k].call \in Talks
  BY <1>2
<1>7. Simple(t)
  BY <1>1, <1>2, <1>4, <1>5, <1>6 DEF Simple, Started
<1> QED
  BY <1>7 DEF t, m

LEMMA Opened == Started(Icap!Open)
  BY DEF Icap!Open, Icap!Must, Started, Call, Talks

LEMMA Bodied == Talk(Icap!Body)
  BY DEF Icap!Body, Icap!Must, Talk, Call, Talks

\* The scripts of the programs with one context, one by one.
LEMMA SimpleScripts ==
    /\ Simple(Icap!resp_mod) /\ Simple(Icap!preview) /\ Simple(Icap!my) /\ Simple(Icap!options_req)
    /\ Simple(Icap!get_req_mod) /\ Simple(Icap!resp_mod_null_body) /\ Simple(Icap!post_req_mod)
<1>1. /\ Talk(<<Icap!Must("spawn"), Icap!Must("headers_body")>>)
      /\ Talk(<<Icap!Must("spawn"), Icap!Must("headers")>>)
      /\ Talk(<<Icap!Must("options"), Icap!Must("spawn")>>)
      /\ Talk(<<Icap!Must("headers"), Icap!Must("spawn")>>)
  BY DEF Icap!Must, Talk, Call, Talks
<1>2. Talk(<<Icap!Must("headers_body"), Icap!Must("spawn"), Icap!Must("last")>>)
  BY DEF Icap!Must, Talk, Call, Talks
<1>3. Talk(<<Icap!Must("chunked"), Icap!Must("headers_body"), Icap!Must("preview"), Icap!Must("spawn")>>)
  BY DEF Icap!Must, Talk, Call, Talks
<1>4. Simple(Icap!resp_mod)
  <2>1. Started(Icap!Open \o <<Icap!Must("spawn"), Icap!Must("headers_body")>>)
    BY <1>1, Opened, TalkOn, Zenon
  <2>2. Started(Icap!Open \o <<Icap!Must("spawn"), Icap!Must("headers_body")>> \o Icap!Body)
    BY <2>1, Bodied, TalkOn, Zenon
  <2> QED
    BY <2>2, Closed, Zenon DEF Icap!resp_mod
<1>5. Simple(Icap!preview)
  <2>1. Started(Icap!Open \o <<Icap!Must("chunked"), Icap!Must("headers_body"), Icap!Must("preview"), Icap!Must("spawn")>>)
    BY <1>3, Opened, TalkOn, Zenon
  <2>2. Started(Icap!Open \o <<Icap!Must("chunked"), Icap!Must("headers_body"), Icap!Must("preview"), Icap!Must("spawn")>>
                  \o Icap!Body)
    BY <2>1, Bodied, TalkOn, Zenon
  <2> QED
    BY <2>2, Closed, Zenon DEF Icap!preview
<1>6. Simple(Icap!my)
  BY <1>1, Opened, TalkOn, Closed, Zenon DEF Icap!my
<1>7. Simple(Icap!options_req)
  BY <1>1, Opened, TalkOn, Closed, Zenon DEF Icap!options_req
<1>8. Simple(Icap!get_req_mod) /\ Simple(Icap!resp_mod_null_body)
  BY <1>1, Opened, TalkOn, Closed, Zenon DEF Icap!get_req_mod, Icap!resp_mod_null_body
<1>9. Simple(Icap!post_req_mod)
  BY <1>2, Opened, TalkOn, Closed, Zenon DEF Icap!post_req_mod
<1> QED
  BY <1>4, <1>5, <1>6, <1>7, <1>8, <1>9

\* What connPool.c calls in its second test.
LEMMA SecondTest ==
    /\ Icap!pool_test2 \in Seq(Call) /\ Len(Icap!pool_test2) = 2 * POOL_SIZE + 7
    /\ \A k \in 1..POOL_SIZE + 1 : Icap!pool_test2[k] = Icap!May("connect", k)
    /\ Icap!pool_test2[POOL_SIZE + 2] = Icap!May("disconnect", 1)
    /\ Icap!pool_test2[POOL_SIZE + 3] = Icap!May("disconnect", POOL_SIZE)
    /\ Icap!pool_test2[POOL_SIZE + 4] = Icap!May("connect", 1)
    /\ Icap!pool_test2[POOL_SIZE + 5] = Icap!May("connect", POOL_SIZE)
    /\ \A k \in 1..POOL_SIZE + 1 : Icap!pool_test2[POOL_SIZE + 5 + k] = Icap!May("disconnect", k)
    /\ Icap!pool_test2[2 * POOL_SIZE + 7] = Icap!Must("check_flag")
<1> DEFINE n == POOL_SIZE
           A == [k \in 1..n + 1 |-> Icap!May("connect", k)]
           B == <<Icap!May("disconnect", 1), Icap!May("disconnect", n),
                  Icap!May("connect", 1), Icap!May("connect", n)>>
           C == [k \in 1..n + 1 |-> Icap!May("disconnect", k)]
           E == <<Icap!Must("check_flag")>>
<1>1. Icap!pool_test2 = A \o B \o C \o E
  BY Zenon DEF Icap!pool_test2
<1>2. n \in Nat /\ n >= 1
  BY IcapConstants
<1>3. \A k \in Nat : Icap!May("connect", k) \in Call /\ Icap!May("disconnect", k) \in Call
  BY DEF Icap!May, Call, Talks
<1>4. A \in Seq(Call) /\ Len(A) = n + 1 /\ \A k \in 1..n + 1 : A[k] = Icap!May("connect", k)
  BY <1>2, <1>3
<1>5. C \in Seq(Call) /\ Len(C) = n + 1 /\ \A k \in 1..n + 1 : C[k] = Icap!May("disconnect", k)
  BY <1>2, <1>3
<1>6. /\ B \in Seq(Call) /\ Len(B) = 4
      /\ B[1] = Icap!May("disconnect", 1) /\ B[2] = Icap!May("disconnect", n)
      /\ B[3] = Icap!May("connect", 1) /\ B[4] = Icap!May("connect", n)
  BY <1>2, <1>3 DEF Icap!May
<1>7. E \in Seq(Call) /\ Len(E) = 1 /\ E[1] = Icap!Must("check_flag")
  BY DEF Icap!Must, Call
<1> HIDE DEF A, B, C, E, n
<1> DEFINE AB == A \o B
           ABC == AB \o C
           ABCE == ABC \o E
<1>8. /\ AB \in Seq(Call) /\ Len(AB) = Len(A) + Len(B)
      /\ \A k \in 1..Len(A) : AB[k] = A[k]
      /\ \A k \in 1..Len(B) : AB[Len(A) + k] = B[k]
  BY <1>4, <1>6, Joined, Zenon
<1> HIDE DEF AB
<1>9. /\ ABC \in Seq(Call) /\ Len(ABC) = Len(AB) + Len(C)
      /\ \A k \in 1..Len(AB) : ABC[k] = AB[k]
      /\ \A k \in 1..Len(C) : ABC[Len(AB) + k] = C[k]
  BY <1>5, <1>8, Joined, Zenon
<1> HIDE DEF ABC
<1>10. /\ ABCE \in Seq(Call) /\ Len(ABCE) = Len(ABC) + Len(E)
       /\ \A k \in 1..Len(ABC) : ABCE[k] = ABC[k]
       /\ \A k \in 1..Len(E) : ABCE[Len(ABC) + k] = E[k]
  BY <1>7, <1>9, Joined, Zenon
<1> HIDE DEF ABCE
<1>11. Len(AB) = n + 5 /\ Len(ABC) = 2 * n + 6 /\ Len(ABCE) = 2 * n + 7
  BY <1>2, <1>4, <1>5, <1>6, <1>7, <1>8, <1>9, <1>10
<1>12. \A k \in 1..n + 5 : ABCE[k] = AB[k]
  <2> TAKE k \in 1..n + 5
  <2>1. k \in 1..Len(AB) /\ k \in 1..Len(ABC)
    BY <1>2, <1>11
  <2> QED
    BY <1>9, <1>10, <2>1
<1>13. \A k \in 1..n + 1 : ABCE[k] = Icap!May("connect", k)
  <2> TAKE k \in 1..n + 1
  <2>1. k \in 1..n + 5 /\ k \in 1..Len(A)
    BY <1>2, <1>4
  <2> QED
    BY <1>4, <1>8, <1>12, <2>1
<1>14. \A k \in 1..4 : ABCE[n + 1 + k] = B[k]
  <2> TAKE k \in 1..4
  <2>1. n + 1 + k \in 1..n + 5 /\ k \in 1..Len(B) /\ Len(A) + k = n + 1 + k
    BY <1>2, <1>4, <1>6
  <2> QED
    BY <1>8, <1>12, <2>1
<1>15. /\ ABCE[n + 2] = B[1] /\ ABCE[n + 3] = B[2] /\ ABCE[n + 4] = B[3] /\ ABCE[n + 5] = B[4]
  <2>1. n + 1 + 1 = n + 2 /\ n + 1 + 2 = n + 3 /\ n + 1 + 3 = n + 4 /\ n + 1 + 4 = n + 5
    BY <1>2
  <2> QED
    BY <1>14, <2>1
<1>16. \A k \in 1..n + 1 : ABCE[n + 5 + k] = Icap!May("disconnect", k)
  <2> TAKE k \in 1..n + 1
  <2>1. n + 5 + k \in 1..Len(ABC) /\ k \in 1..Len(C) /\ Len(AB) + k = n + 5 + k
    BY <1>2, <1>5, <1>11
  <2> QED
    BY <1>5, <1>9, <1>10, <2>1
<1>17. ABCE[2 * n + 7] = Icap!Must("check_flag")
  <2>1. 1 \in 1..Len(E) /\ Len(ABC) + 1 = 2 * n + 7
    BY <1>2, <1>7, <1>11
  <2> QED
    BY <1>7, <1>10, <2>1
<1>18. Icap!pool_test2 = ABCE
  BY <1>1, Zenon DEF AB, ABC, ABCE
<1> QED
  BY <1>6, <1>10, <1>11, <1>13, <1>15, <1>16, <1>17, <1>18 DEF n

LEMMA PooledScript == Pooled(Icap!conn_pool)
<1> DEFINE n == POOL_SIZE
           A == <<Icap!Must("init")>>
           B == Icap!pool_test1
           C == Icap!pool_test2
           E == <<Icap!Must("free")>>
<1>1. Icap!conn_pool = A \o B \o C \o E
  BY Zenon DEF Icap!conn_pool
<1>2. n \in Nat /\ n >= 1
  BY IcapConstants
<1>3. A \in Seq(Call) /\ Len(A) = 1 /\ A[1].call = "init" /\ A[1].must
  BY DEF Icap!Must, Call, Talks
<1>4. /\ B \in Seq(Call) /\ Len(B) = 5
      /\ B[1].call = "connect" /\ B[1].must /\ B[1].i = 1
      /\ B[2].call = "options" /\ B[3].call = "spawn" /\ B[4].call = "join"
      /\ B[5].call = "disconnect" /\ B[5].must /\ B[5].i = 1
  BY DEF Icap!pool_test1, Icap!Must, Call, Talks
<1>5. E \in Seq(Call) /\ Len(E) = 1 /\ E[1].call = "free" /\ E[1].must
  BY DEF Icap!Must, Call, Talks
<1>6. C \in Seq(Call) /\ Len(C) = 2 * n + 7
  BY SecondTest
<1> HIDE DEF A, B, C, E, n
<1> DEFINE AB == A \o B
           ABC == AB \o C
           ABCE == ABC \o E
<1>8. /\ AB \in Seq(Call) /\ Len(AB) = Len(A) + Len(B)
      /\ \A k \in 1..Len(A) : AB[k] = A[k]
      /\ \A k \in 1..Len(B) : AB[Len(A) + k] = B[k]
  BY <1>3, <1>4, Joined, Zenon
<1> HIDE DEF AB
<1>9. /\ ABC \in Seq(Call) /\ Len(ABC) = Len(AB) + Len(C)
      /\ \A k \in 1..Len(AB) : ABC[k] = AB[k]
      /\ \A k \in 1..Len(C) : ABC[Len(AB) + k] = C[k]
  BY <1>6, <1>8, Joined, Zenon
<1> HIDE DEF ABC
<1>10. /\ ABCE \in Seq(Call) /\ Len(ABCE) = Len(ABC) + Len(E)
       /\ \A k \in 1..Len(ABC) : ABCE[k] = ABC[k]
       /\ \A k \in 1..Len(E) : ABCE[Len(ABC) + k] = E[k]
  BY <1>5, <1>9, Joined, Zenon
<1> HIDE DEF ABCE
<1>11. Len(AB) = 6 /\ Len(ABC) = 2 * n + 13 /\ Len(ABCE) = 2 * n + 14
  BY <1>2, <1>3, <1>4, <1>5, <1>6, <1>8, <1>9, <1>10
<1>12. \A k \in 1..6 : ABCE[k] = AB[k]
  <2> TAKE k \in 1..6
  <2>1. k \in 1..Len(AB) /\ k \in 1..Len(ABC)
    BY <1>2, <1>11
  <2> QED
    BY <1>9, <1>10, <2>1
<1>13. ABCE[1].call = "init" /\ ABCE[1].must
  <2>1. 1 \in 1..6 /\ 1 \in 1..Len(A)
    BY <1>3
  <2> QED
    BY <1>3, <1>8, <1>12, <2>1
<1>14. \A k \in 1..5 : ABCE[1 + k] = B[k]
  <2> TAKE k \in 1..5
  <2>1. 1 + k \in 1..6 /\ k \in 1..Len(B) /\ Len(A) = 1
    BY <1>3, <1>4
  <2> QED
    BY <1>8, <1>12, <2>1
<1>15. ABCE[2] = B[1] /\ ABCE[3] = B[2] /\ ABCE[4] = B[3] /\ ABCE[5] = B[4] /\ ABCE[6] = B[5]
  <2>1. 1 + 1 = 2 /\ 1 + 2 = 3 /\ 1 + 3 = 4 /\ 1 + 4 = 5 /\ 1 + 5 = 6
    OBVIOUS
  <2> QED
    BY <1>14, <2>1
<1>16. \A k \in 1..2 * n + 7 : ABCE[6 + k] = C[k]
  <2> TAKE k \in 1..2 * n + 7
  <2>1. 6 + k \in 1..Len(ABC) /\ k \in 1..Len(C) /\ Len(AB) = 6
    BY <1>2, <1>6, <1>11
  <2> QED
    BY <1>9, <1>10, <2>1
<1>17. ABCE[2 * n + 14].call = "free" /\ ABCE[2 * n + 14].must
  <2>1. 1 \in 1..Len(E) /\ Len(ABC) + 1 = 2 * n + 14
    BY <1>2, <1>5, <1>11
  <2> QED
    BY <1>5, <1>10, <2>1
<1>18. ASSUME NEW k \in 7..n + 7 PROVE ABCE[k].call = "connect" /\ ABCE[k].i = k - 6
  <2>1. k - 6 \in 1..n + 1 /\ k - 6 \in 1..2 * n + 7 /\ 6 + (k - 6) = k
    BY <1>2
  <2>2. ABCE[k] = Icap!May("connect", k - 6)
    BY <1>16, <2>1, SecondTest DEF n, C
  <2> QED
    BY <2>1, <2>2 DEF Icap!May
<1>19. /\ ABCE[n + 8].call = "disconnect" /\ ABCE[n + 8].i = 1
       /\ ABCE[n + 9].call = "disconnect" /\ ABCE[n + 9].i = n
  <2>1. n + 2 \in 1..2 * n + 7 /\ 6 + (n + 2) = n + 8 /\ n + 3 \in 1..2 * n + 7 /\ 6 + (n + 3) = n + 9
    BY <1>2
  <2>2. ABCE[n + 8] = Icap!May("disconnect", 1) /\ ABCE[n + 9] = Icap!May("disconnect", n)
    BY <1>16, <2>1, SecondTest DEF n, C
  <2> QED
    BY <2>2 DEF Icap!May
<1>20. /\ ABCE[n + 10].call = "connect" /\ ABCE[n + 10].i = 1
       /\ ABCE[n + 11].call = "connect" /\ ABCE[n + 11].i = n
  <2>1. n + 4 \in 1..2 * n + 7 /\ 6 + (n + 4) = n + 10 /\ n + 5 \in 1..2 * n + 7 /\ 6 + (n + 5) = n + 11
    BY <1>2
  <2>2. ABCE[n + 10] = Icap!May("connect", 1) /\ ABCE[n + 11] = Icap!May("connect", n)
    BY <1>16, <2>1, SecondTest DEF n, C
  <2> QED
    BY <2>2 DEF Icap!May
<1>21. ASSUME NEW k \in n + 12..2 * n + 12
       PROVE  ABCE[k].call = "disconnect" /\ ABCE[k].i = k - (n + 11)
  <2>1. /\ k - (n + 11) \in 1..n + 1 /\ n + 5 + (k - (n + 11)) \in 1..2 * n + 7
        /\ 6 + (n + 5 + (k - (n + 11))) = k
    BY <1>2
  <2>2. ABCE[k] = Icap!May("disconnect", k - (n + 11))
    BY <1>16, <2>1, SecondTest DEF n, C
  <2> QED
    BY <2>2 DEF Icap!May
<1>22. ABCE[2 * n + 13].call = "check_flag" /\ ABCE[2 * n + 13].must
  <2>1. 2 * n + 7 \in 1..2 * n + 7 /\ 6 + (2 * n + 7) = 2 * n + 13
    BY <1>2
  <2>2. ABCE[2 * n + 13] = Icap!Must("check_flag")
    BY <1>16, <2>1, SecondTest DEF n, C
  <2> QED
    BY <2>2 DEF Icap!Must
<1>23. Pooled(ABCE)
  BY <1>4, <1>11, <1>13, <1>15, <1>17, <1>18, <1>19, <1>20, <1>21, <1>22 DEF Pooled, n
<1> QED
  BY <1>1, <1>23, Zenon DEF AB, ABC, ABCE

\* Every program has a script of its shape.
LEMMA ScriptShape == program \in Programs => Scripted
<1> SUFFICES ASSUME program \in Programs PROVE Scripted
  OBVIOUS
<1>1. CASE program = "conn_pool"
  <2>1. Icap!Script = Icap!conn_pool
    BY <1>1 DEF Icap!Script
  <2> QED
    BY <1>1, <2>1, PooledScript DEF Scripted
<1>2. CASE program # "conn_pool"
  <2>1. Icap!Script \in {Icap!resp_mod, Icap!preview, Icap!my, Icap!options_req, Icap!get_req_mod,
                         Icap!resp_mod_null_body, Icap!post_req_mod}
    BY <1>2, IcapConstants DEF Icap!Script
  <2> QED
    BY <1>2, <2>1, SimpleScripts DEF Scripted
<1> QED
  BY <1>1, <1>2

Freed == pool = "freed" => open \subseteq kept /\ (kept = {} => lost = 0) /\ receiver = "none"

\* Which step a call of a program with one context is.
LEMMA SimpleCalls ==
    ASSUME Simple(Icap!Script), NEW l, l = Len(Icap!Script), step \in 1..l + 1, NEW c, Icap!Calls(c)
    PROVE  /\ l \in Nat /\ l >= 5 /\ step \in 1..l /\ exit = "running"
           /\ c = "init" => step = 1 /\ Icap!Script[step].must
           /\ c = "connect" => step = 2 /\ Icap!Script[step].must /\ Icap!i = 1
           /\ c \in Talks => step \in 3..l - 3
           /\ c = "join" => step = l - 2
           /\ c = "disconnect" => step = l - 1 /\ Icap!i = 1
           /\ c = "free" => step = l /\ Icap!Script[step].must
           /\ c # "check_flag"
<1>1. /\ l \in Nat /\ l >= 5 /\ step \in 1..l /\ exit = "running" /\ Icap!Script[step].call = c
      /\ Icap!i = Icap!Script[step].i
  BY DEF Simple, Icap!Calls, Icap!i
<1>2. \/ step = 1 \/ step = 2 \/ step \in 3..l - 3 \/ step = l - 2 \/ step = l - 1 \/ step = l
  BY <1>1
<1>3. CASE step \in 3..l - 3
  BY <1>1, <1>3 DEF Simple, Talks
<1>4. CASE step = 1 \/ step = 2
  BY <1>1, <1>4 DEF Simple, Talks
<1>5. CASE step = l - 2 \/ step = l - 1 \/ step = l
  BY <1>1, <1>5 DEF Simple, Talks
<1> QED
  BY <1>2, <1>3, <1>4, <1>5

LEMMA SimpleStep ==
    ASSUME Simple(Icap!Script), NEW l, l = Len(Icap!Script), exit = "running", SimpleAt(l), Freed, Icap!Next
    PROVE  (exit' = "running" => SimpleAt(l)') /\ Freed'
<1>1. l \in Nat /\ l >= 5 /\ step \in 1..l + 1
  BY DEF Simple, SimpleAt, PoolAt
<1> USE DEF SimpleAt, PoolAt, Freed, Icap!Returns, Icap!Fails, Icap!contexts
<1>2. CASE Icap!icapInitContextPool
  <2>1. step = 1 /\ Icap!Script[step].must
    BY <1>1, <1>2, SimpleCalls DEF Icap!icapInitContextPool
  <2> QED
    BY <1>1, <1>2, <2>1 DEF Icap!icapInitContextPool
<1>3. CASE Icap!icapConnect
  <2>1. step = 2 /\ Icap!Script[step].must /\ Icap!i = 1
    BY <1>1, <1>3, SimpleCalls DEF Icap!icapConnect
  <2> QED
    BY <1>1, <1>3, <2>1 DEF Icap!icapConnect
<1>4. CASE Icap!formChunkedData \/ Icap!Spawn
  <2>1. step \in 3..l - 3
    BY <1>1, <1>4, SimpleCalls DEF Icap!formChunkedData, Icap!Spawn, Talks
  <2> QED
    BY <1>1, <1>4, <2>1 DEF Icap!formChunkedData, Icap!Spawn
<1>5. CASE Icap!icapSend
  <2>1. step \in 3..l - 3
    BY <1>1, <1>5, SimpleCalls DEF Icap!icapSend, Talks
  <2> QED
    BY <1>1, <1>5, <2>1 DEF Icap!icapSend
<1>6. CASE Icap!icapSendPreview \/ Icap!PreviewAnswered
  <2>1. step \in 3..l - 3
    BY <1>1, <1>6, SimpleCalls DEF Icap!icapSendPreview, Icap!PreviewAnswered, Talks
  <2> QED
    BY <1>1, <1>6, <2>1 DEF Icap!icapSendPreview, Icap!PreviewAnswered
<1>7. CASE Icap!Join
  <2>1. step = l - 2
    BY <1>1, <1>7, SimpleCalls DEF Icap!Join
  <2> QED
    BY <1>1, <1>7, <2>1 DEF Icap!Join
<1>8. CASE Icap!icapDisconnect
  <2>1. step = l - 1 /\ Icap!i = 1
    BY <1>1, <1>8, SimpleCalls DEF Icap!icapDisconnect
  <2>2. open = {1} /\ pool = "ready" /\ receiver = "none"
    BY <1>1, <2>1
  <2>3. /\ exit' = "running" => step' = l
        /\ open' \subseteq kept' /\ (kept' = {} => kept = {}) /\ lost' = lost
        /\ UNCHANGED <<pool, receiver>>
    BY <1>1, <1>8, <2>1, <2>2 DEF Icap!icapDisconnect
  <2> QED
    BY <1>1, <2>2, <2>3
<1>9. ASSUME Icap!CheckFlag PROVE FALSE
  BY <1>1, <1>9, SimpleCalls DEF Icap!CheckFlag
<1>10. CASE Icap!icapFreeContextPool
  <2>1. step = l /\ Icap!Script[step].must
    BY <1>1, <1>10, SimpleCalls DEF Icap!icapFreeContextPool
  <2> QED
    BY <1>1, <1>10, <2>1 DEF Icap!icapFreeContextPool
<1>11. CASE Icap!End \/ Icap!Server
  BY <1>1, <1>11 DEF Icap!End, Icap!Server
<1>12. CASE Icap!receiver_returns
  BY <1>1, <1>12 DEF Icap!receiver_returns
<1> QED
  BY <1>2, <1>3, <1>4, <1>5, <1>6, <1>7, <1>8, <1>9, <1>10, <1>11, <1>12 DEF Icap!Next, Icap!Main

\* Which step a call of connPool.c is.
LEMMA PooledCalls ==
    ASSUME Pooled(Icap!Script), step \in 1..2 * POOL_SIZE + 15, NEW c, Icap!Calls(c)
    PROVE  /\ step \in 1..2 * POOL_SIZE + 14 /\ exit = "running"
           /\ c = "init" => step = 1 /\ Icap!Script[step].must
           /\ c = "connect" =>
                \/ step = 2 /\ Icap!i = 1 /\ Icap!Script[step].must
                \/ step \in 7..POOL_SIZE + 7 /\ Icap!i = step - 6
                \/ step = POOL_SIZE + 10 /\ Icap!i = 1
                \/ step = POOL_SIZE + 11 /\ Icap!i = POOL_SIZE
           /\ c \in Talks => step \in 3..4 /\ (c = "spawn" => step = 4)
           /\ c = "join" => step = 5
           /\ c = "disconnect" =>
                \/ step = 6 /\ Icap!i = 1 /\ Icap!Script[step].must
                \/ step = POOL_SIZE + 8 /\ Icap!i = 1
                \/ step = POOL_SIZE + 9 /\ Icap!i = POOL_SIZE
                \/ step \in POOL_SIZE + 12..2 * POOL_SIZE + 12 /\ Icap!i = step - (POOL_SIZE + 11)
           /\ c = "check_flag" => step = 2 * POOL_SIZE + 13 /\ Icap!Script[step].must
           /\ c = "free" => step = 2 * POOL_SIZE + 14 /\ Icap!Script[step].must
<1> DEFINE n == POOL_SIZE
<1>1. n \in Nat /\ n >= 1
  BY IcapConstants
<1>2. /\ step \in 1..2 * n + 14 /\ exit = "running" /\ Icap!Script[step].call = c
      /\ Icap!i = Icap!Script[step].i
  BY <1>1 DEF Pooled, Icap!Calls, Icap!i
<1>3. \/ step \in {1, 2} \/ step \in {3, 4, 5, 6} \/ step \in 7..n + 7 \/ step \in {n + 8, n + 9} \/ step \in {n + 10, n + 11}
      \/ step \in n + 12..2 * n + 12 \/ step = 2 * n + 13 \/ step = 2 * n + 14
  BY <1>1, <1>2
<1>4. 1 \in 1..n + 1
  BY <1>1
<1>5. CASE step \in {1, 2}
  <2>1. CASE step = 1
    <3>1. c = "init" /\ Icap!Script[step].must
      BY <1>2, <2>1 DEF Pooled
    <3> QED BY <1>2, <2>1, <3>1 DEF Talks
  <2>2. CASE step = 2
    <3>1. c = "connect" /\ Icap!Script[step].must /\ Icap!i = 1
      BY <1>2, <2>2 DEF Pooled
    <3> QED BY <1>2, <1>4, <2>2, <3>1 DEF Talks
  <2> QED BY <1>5, <2>1, <2>2
<1>6. CASE step \in {3, 4, 5, 6}
  BY <1>1, <1>2, <1>6 DEF Pooled, Talks
<1>7. CASE step \in 7..n + 7
  BY <1>1, <1>2, <1>7 DEF Pooled, Talks
<1>8. CASE step \in {n + 8, n + 9}
  BY <1>1, <1>2, <1>8 DEF Pooled, Talks
<1>9. CASE step \in {n + 10, n + 11}
  BY <1>1, <1>2, <1>9 DEF Pooled, Talks
<1>10. CASE step \in n + 12..2 * n + 12
  BY <1>1, <1>2, <1>10 DEF Pooled, Talks
<1>11. CASE step = 2 * n + 13 \/ step = 2 * n + 14
  BY <1>1, <1>2, <1>11 DEF Pooled, Talks
<1> QED
  BY <1>3, <1>5, <1>6, <1>7, <1>8, <1>9, <1>10, <1>11

LEMMA PooledStep ==
    ASSUME Pooled(Icap!Script), exit = "running", PooledAt, Freed, Icap!Next
    PROVE  (exit' = "running" => PooledAt') /\ Freed'
<1>1. POOL_SIZE \in Nat /\ POOL_SIZE >= 2 /\ step \in 1..2 * POOL_SIZE + 15
  BY IcapConstants DEF PooledAt, PoolAt
<1> USE DEF PooledAt, PoolAt, Freed, Icap!Returns, Icap!Fails, Icap!contexts
<1>2. CASE Icap!icapInitContextPool
  <2>1. step = 1 /\ Icap!Script[step].must
    BY <1>1, <1>2, PooledCalls DEF Icap!icapInitContextPool
  <2> QED
    BY <1>1, <1>2, <2>1 DEF Icap!icapInitContextPool
<1>3. CASE Icap!icapConnect
  <2>1. \/ step = 2 /\ Icap!i = 1 /\ Icap!Script[step].must
        \/ step \in 7..POOL_SIZE + 7 /\ Icap!i = step - 6
        \/ step = POOL_SIZE + 10 /\ Icap!i = 1
        \/ step = POOL_SIZE + 11 /\ Icap!i = POOL_SIZE
    BY <1>1, <1>3, PooledCalls DEF Icap!icapConnect
  <2>2. /\ open' = open \cup {Icap!i} \/ open' = open
        /\ Icap!Script[step].must => exit' # "running" \/ open' = open \cup {Icap!i}
        /\ Icap!i \notin open => lost' = lost
        /\ lost' = lost \/ Icap!i \in open
        /\ exit' = "running" => step' = step + 1
        /\ UNCHANGED <<pool, kept, receiver>>
    BY <1>3 DEF Icap!icapConnect
  <2>3. Icap!i \in 1..POOL_SIZE + 1 /\ step \in 2..2 * POOL_SIZE + 13 /\ step # 5
    BY <1>1, <2>1
  <2>4. /\ open' \subseteq 1..POOL_SIZE + 1 /\ pool = "ready" /\ receiver = "none"
        /\ open \subseteq 1..POOL_SIZE + 1
    <3>1. open \subseteq 1..POOL_SIZE + 1 /\ receiver = "none"
      BY <2>3
    <3>2. pool = "ready"
      BY <1>1, <2>3
    <3> QED
      BY <2>2, <2>3, <3>1, <3>2
  <2>5. Icap!i \in open => Icap!i \in kept
    BY <1>1, <2>1, <2>4
  <2>6. kept' = {} => lost' = 0
    BY <2>2, <2>5
  <2>7. CASE step = 2 /\ Icap!i = 1 /\ Icap!Script[step].must
    <3>1. open = {}
      BY <2>7
    <3>2. exit' = "running" => open' = {1} /\ step' = 3
      BY <2>2, <2>7, <3>1
    <3> QED
      BY <1>1, <2>2, <2>4, <2>6, <2>7, <3>2
  <2>8. CASE step \in 7..POOL_SIZE + 7 /\ Icap!i = step - 6
    <3>1. \A c \in open' : c \in Int /\ c < step - 5
      BY <1>1, <2>2, <2>4, <2>8
    <3> QED
      BY <1>1, <2>2, <2>4, <2>6, <2>8, <3>1
  <2>9. CASE step = POOL_SIZE + 10 /\ Icap!i = 1
    <3>1. POOL_SIZE \in open' => POOL_SIZE \in kept'
      BY <1>1, <2>2, <2>9
    <3> QED
      BY <1>1, <2>2, <2>4, <2>6, <2>9, <3>1
  <2>10. CASE step = POOL_SIZE + 11 /\ Icap!i = POOL_SIZE
    <3>1. \A c \in open' : c \in Int /\ c >= 1
      BY <1>1, <2>4
    <3> QED
      BY <1>1, <2>2, <2>4, <2>6, <2>10, <3>1
  <2> QED
    BY <2>1, <2>7, <2>8, <2>9, <2>10
<1>4. CASE Icap!formChunkedData \/ Icap!Spawn
  <2>1. step \in 3..4 /\ (Icap!Spawn => step = 4)
    BY <1>1, <1>4, PooledCalls DEF Icap!formChunkedData, Icap!Spawn, Talks
  <2> QED
    BY <1>1, <1>4, <2>1 DEF Icap!formChunkedData, Icap!Spawn
<1>5. CASE Icap!icapSend
  <2>1. step \in 3..4
    BY <1>1, <1>5, PooledCalls DEF Icap!icapSend, Talks
  <2> QED
    BY <1>1, <1>5, <2>1 DEF Icap!icapSend
<1>6. CASE Icap!icapSendPreview \/ Icap!PreviewAnswered
  <2>1. step \in 3..4
    BY <1>1, <1>6, PooledCalls DEF Icap!icapSendPreview, Icap!PreviewAnswered, Talks
  <2> QED
    BY <1>1, <1>6, <2>1 DEF Icap!icapSendPreview, Icap!PreviewAnswered
<1>7. CASE Icap!Join
  <2>1. step = 5
    BY <1>1, <1>7, PooledCalls DEF Icap!Join
  <2> QED
    BY <1>1, <1>7, <2>1 DEF Icap!Join
<1>8. CASE Icap!icapDisconnect
  <2>1. \/ step = 6 /\ Icap!i = 1 /\ Icap!Script[step].must
        \/ step = POOL_SIZE + 8 /\ Icap!i = 1
        \/ step = POOL_SIZE + 9 /\ Icap!i = POOL_SIZE
        \/ step \in POOL_SIZE + 12..2 * POOL_SIZE + 12 /\ Icap!i = step - (POOL_SIZE + 11)
    BY <1>1, <1>8, PooledCalls DEF Icap!icapDisconnect
  <2>2. /\ open' \subseteq open /\ kept \subseteq kept' /\ UNCHANGED <<pool, lost, receiver>>
        /\ Icap!i \in open' => Icap!i \in kept'
        /\ exit' = "running" => step' = step + 1
        /\ Icap!Script[step].must => exit' # "running" \/ open' = open \ {Icap!i}
    BY <1>8 DEF Icap!icapDisconnect
  <2>3. /\ pool = "ready" /\ receiver = "none" /\ open' \subseteq 1..POOL_SIZE + 1
        /\ kept' = {} => lost' = 0
    <3>1. step \in 6..2 * POOL_SIZE + 12
      BY <1>1, <2>1
    <3>2. pool = "ready" /\ receiver = "none"
      BY <1>1, <3>1
    <3>3. open \subseteq 1..POOL_SIZE + 1 /\ (kept = {} => lost = 0)
      OBVIOUS
    <3> QED
      BY <2>2, <3>2, <3>3
  <2>4. CASE step = 6 /\ Icap!i = 1 /\ Icap!Script[step].must
    <3>1. exit' = "running" => open' = {}
      BY <1>1, <2>2, <2>4
    <3> QED
      BY <1>1, <2>2, <2>3, <2>4, <3>1
  <2>5. CASE step = POOL_SIZE + 8 /\ Icap!i = 1
    BY <1>1, <2>2, <2>3, <2>5
  <2>6. CASE step = POOL_SIZE + 9 /\ Icap!i = POOL_SIZE
    <3>1. 1 \in open' => 1 \in kept'
      BY <1>1, <2>2, <2>6
    <3> QED
      BY <1>1, <2>2, <2>3, <2>6, <3>1
  <2>7. CASE step \in POOL_SIZE + 12..2 * POOL_SIZE + 12 /\ Icap!i = step - (POOL_SIZE + 11)
    <3>1. \A c \in open' : c \in Int /\ (c >= step + 1 - (POOL_SIZE + 11) \/ c \in kept')
      BY <1>1, <2>2, <2>3, <2>7
    <3> QED
      BY <1>1, <2>2, <2>3, <2>7, <3>1
  <2> QED
    BY <2>1, <2>4, <2>5, <2>6, <2>7
<1>9. CASE Icap!CheckFlag
  <2>1. step = 2 * POOL_SIZE + 13
    BY <1>1, <1>9, PooledCalls DEF Icap!CheckFlag
  <2>2. open \subseteq kept
    BY <1>1, <2>1
  <2> QED
    BY <1>1, <1>9, <2>1, <2>2 DEF Icap!CheckFlag
<1>10. CASE Icap!icapFreeContextPool
  <2>1. step = 2 * POOL_SIZE + 14 /\ Icap!Script[step].must
    BY <1>1, <1>10, PooledCalls DEF Icap!icapFreeContextPool
  <2>2. open \subseteq kept
    BY <1>1, <2>1
  <2> QED
    BY <1>1, <1>10, <2>1, <2>2 DEF Icap!icapFreeContextPool
<1>11. CASE Icap!End
  BY <1>1, <1>11, SMTT(30) DEF Icap!End
<1>13. CASE Icap!Server
  BY <1>1, <1>13, SMTT(30) DEF Icap!Server
<1>12. CASE Icap!receiver_returns
  BY <1>1, <1>12 DEF Icap!receiver_returns
<1> QED
  BY <1>2, <1>3, <1>4, <1>5, <1>6, <1>7, <1>8, <1>9, <1>10, <1>11, <1>12, <1>13 DEF Icap!Next, Icap!Main

LEMMA IcapStep == IcapInv /\ Icap!Next => IcapInv'
<1> SUFFICES ASSUME IcapInv, Icap!Next PROVE IcapInv'
  OBVIOUS
<1>1. exit = "running" /\ program' = program /\ Icap!Script' = Icap!Script
  <2>1. exit = "running"
    BY DEF Icap!Next, Icap!Main, Icap!icapInitContextPool, Icap!icapConnect, Icap!formChunkedData,
           Icap!icapSend, Icap!icapSendPreview, Icap!PreviewAnswered, Icap!Spawn, Icap!Join,
           Icap!icapDisconnect, Icap!CheckFlag, Icap!icapFreeContextPool, Icap!End,
           Icap!receiver_returns, Icap!Server, Icap!Calls
  <2>2. program' = program
    BY DEF Icap!Next, Icap!Main, Icap!icapInitContextPool, Icap!icapConnect, Icap!formChunkedData,
           Icap!icapSend, Icap!icapSendPreview, Icap!PreviewAnswered, Icap!Spawn, Icap!Join,
           Icap!icapDisconnect, Icap!CheckFlag, Icap!icapFreeContextPool, Icap!End,
           Icap!receiver_returns, Icap!Server
  <2>3. Icap!Script' = Icap!Script
    BY <2>2, Zenon DEF Icap!Script
  <2> QED
    BY <2>1, <2>2, <2>3
<1>2. Scripted /\ IcapAt /\ Freed
  BY <1>1, ScriptShape DEF IcapInv, Freed
<1>3. CASE program = "conn_pool"
  <2>1. (exit' = "running" => PooledAt') /\ Freed'
    BY <1>1, <1>2, <1>3, PooledStep DEF Scripted, IcapAt
  <2> QED
    BY <1>1, <1>3, <2>1 DEF IcapInv, IcapAt, Freed
<1>4. CASE program # "conn_pool"
  <2>1. PICK l : l = Len(Icap!Script)
    OBVIOUS
  <2>2. (exit' = "running" => SimpleAt(l)') /\ Freed'
    BY <1>1, <1>2, <1>4, <2>1, SimpleStep DEF Scripted, IcapAt
  <2>3. Len(Icap!Script)' = l
    BY <1>1, <2>1
  <2>4. exit' = "running" => IcapAt'
    BY <1>1, <1>4, <2>2, <2>3 DEF IcapAt, SimpleAt, PoolAt
  <2> QED
    BY <1>1, <2>2, <2>4 DEF IcapInv, Freed
<1> QED
  BY <1>3, <1>4

\* The programs of icap-client-testing, for any pool of two contexts or more:
\* whichever call fails, a disconnect and the creation of the receiver included, and
\* whenever the server closes, no receiver outlives its context, and the pool is
\* freed with a context out only if a disconnect of that context failed.
THEOREM IcapKeepsContext == Spec => []IcapContextOutlivesReceiver
<1>1. Init => IcapInv
  <2> SUFFICES ASSUME Init PROVE IcapInv
    OBVIOUS
  <2>1. /\ program \in Programs /\ step = 1 /\ pool = "none" /\ receiver = "none"
        /\ open = {} /\ kept = {} /\ lost = 0
    BY DEF Init, Icap!Init
  <2>2. POOL_SIZE \in Nat /\ POOL_SIZE >= 1 /\ Scripted
    BY <2>1, IcapConstants, ScriptShape
  <2>3. CASE program = "conn_pool"
    BY <2>1, <2>2, <2>3 DEF IcapInv, IcapAt, PooledAt, PoolAt
  <2>4. CASE program # "conn_pool"
    <3>1. PICK l : l = Len(Icap!Script)
      OBVIOUS
    <3>2. l \in Nat /\ l >= 5
      BY <2>2, <2>4, <3>1 DEF Scripted, Simple
    <3>3. SimpleAt(l)
      BY <2>1, <3>2 DEF SimpleAt, PoolAt
    <3> QED
      BY <2>1, <2>4, <3>1, <3>3 DEF IcapInv, IcapAt
  <2> QED
    BY <2>3, <2>4
<1>2. IcapInv /\ [Next]_vars => IcapInv'
  <2> SUFFICES ASSUME IcapInv, [Next]_vars PROVE IcapInv'
    OBVIOUS
  <2>1. CASE InIcap /\ Icap!Next
    BY <2>1, IcapStep
  <2>2. CASE UNCHANGED icap_vars
    <3>1. UNCHANGED <<program, step, exit, pool, open, kept, lost, receiver>>
      BY <2>2 DEF icap_vars
    <3>2. Icap!Script' = Icap!Script
      BY <3>1, Zenon DEF Icap!Script
    <3> QED
      BY <3>1, <3>2 DEF IcapInv, IcapAt, SimpleAt, PooledAt, PoolAt
  <2> QED
    BY <2>1, <2>2 DEF Next, vars, InBson, InMongo
<1>3. IcapInv => Icap!ContextOutlivesReceiver
  <2> SUFFICES ASSUME IcapInv PROVE Icap!ContextOutlivesReceiver
    OBVIOUS
  <2>1. ASSUME receiver = "receiving", exit = "running" PROVE 1 \in open /\ pool = "ready"
    <3>1. POOL_SIZE \in Nat /\ POOL_SIZE >= 1 /\ Scripted /\ IcapAt
      BY <2>1, IcapConstants, ScriptShape DEF IcapInv
    <3>2. CASE program = "conn_pool"
      BY <2>1, <3>1, <3>2 DEF IcapAt, PooledAt, PoolAt
    <3>3. CASE program # "conn_pool"
      <4>1. PICK l : l = Len(Icap!Script)
        OBVIOUS
      <4>2. l \in Nat /\ SimpleAt(l)
        BY <3>1, <3>3, <4>1 DEF Scripted, Simple, IcapAt
      <4> QED
        BY <2>1, <4>2 DEF SimpleAt, PoolAt
    <3> QED
      BY <3>2, <3>3
  <2> QED
    BY <2>1 DEF IcapInv, Icap!ContextOutlivesReceiver
<1> QED
  BY <1>1, <1>2, <1>3, PTL DEF Spec, IcapContextOutlivesReceiver

-----------------------------------------------------------------------------
(***************************************************************************)
(* BsonApi, for any values, any number of elements and documents, and      *)
(* failures and cuts of the buffer anywhere.  The invariant says that a    *)
(* nested value and a buffer hold what was encoded, and that a read has    *)
(* read a beginning of the documents written and stands behind its bytes.  *)
(* What the bytes of several documents are is an induction over their      *)
(* number, which the proofs make by the least place where it would fail.   *)
(***************************************************************************)

\* A set of numbers that is not empty has a least one.
LEMMA Least == ASSUME NEW T \in SUBSET Nat, T # {} PROVE \E x \in T : \A y \in T : x <= y
<1> DEFINE R == OpToRel(<, Nat)
<1>1. IsWellFoundedOn(R, Nat)
  BY NatLessThanWellFounded
<1>2. \A y, x \in Nat : y < x => <<y, x>> \in R
  BY DEF OpToRel
<1> HIDE DEF R
<1>3. PICK x \in T : \A y \in T : ~(<<y, x>> \in R)
  BY WFMin, <1>1
<1>4. ASSUME NEW y \in T PROVE x <= y
  <2>1. x \in Nat /\ y \in Nat
    OBVIOUS
  <2>2. ~(y < x)
    BY <1>2, <1>3, <2>1
  <2> QED
    BY <2>1, <2>2
<1> QED
  BY <1>3, <1>4

\* A sequence, of whatever.
ASeq(s) == \E S : s \in Seq(S)

\* What the provers know of a sequence once its set is named.
LEMMA SeqLen == ASSUME NEW s, ASeq(s) PROVE Len(s) \in Nat /\ (s = <<>> <=> Len(s) = 0)
  BY DEF ASeq

\* A function on 1..n is a sequence.
LEMMA SeqFun ==
    ASSUME NEW n \in Nat, NEW f, f = [i \in 1..n |-> f[i]]
    PROVE  ASeq(f) /\ Len(f) = n
<1> DEFINE S == {f[i] : i \in 1..n}
<1>1. f \in [1..n -> S]
  OBVIOUS
<1> HIDE DEF S
<1>2. f \in Seq(S) /\ Len(f) = n
  BY <1>1
<1> QED BY <1>2 DEF ASeq

\* One sequence after another.
LEMMA SeqCat ==
    ASSUME NEW s, NEW t, ASeq(s), ASeq(t)
    PROVE  /\ ASeq(s \o t) /\ Len(s \o t) = Len(s) + Len(t)
           /\ \A i \in 1..Len(s) : (s \o t)[i] = s[i]
           /\ \A i \in 1..Len(t) : (s \o t)[Len(s) + i] = t[i]
<1>1. PICK S : s \in Seq(S)
  BY DEF ASeq
<1>2. PICK T : t \in Seq(T)
  BY DEF ASeq
<1> DEFINE U == S \cup T
<1>3. s \in Seq(U) /\ t \in Seq(U)
  BY <1>1, <1>2
<1> HIDE DEF U
<1>4. s \o t \in Seq(U) /\ Len(s \o t) = Len(s) + Len(t)
  BY <1>3
<1>5. \A i \in 1..Len(s) : (s \o t)[i] = s[i]
  BY <1>3
<1>6. \A i \in 1..Len(t) : (s \o t)[Len(s) + i] = t[i]
  BY <1>3
<1> QED BY <1>4, <1>5, <1>6 DEF ASeq

\* One element more.
LEMMA SeqApp ==
    ASSUME NEW s, ASeq(s), NEW x
    PROVE  /\ ASeq(Append(s, x)) /\ Len(Append(s, x)) = Len(s) + 1
           /\ \A i \in 1..Len(s) : Append(s, x)[i] = s[i]
           /\ Append(s, x)[Len(s) + 1] = x
<1>1. PICK S : s \in Seq(S)
  BY DEF ASeq
<1> DEFINE U == S \cup {x}
<1>2. s \in Seq(U) /\ x \in U
  BY <1>1
<1> HIDE DEF U
<1>3. Append(s, x) \in Seq(U)
  BY <1>2
<1> QED BY <1>2, <1>3 DEF ASeq

\* Sequences of the same elements are the same.
LEMMA SeqSame ==
    ASSUME NEW s, NEW t, ASeq(s), ASeq(t), Len(s) = Len(t), \A i \in 1..Len(s) : s[i] = t[i]
    PROVE  s = t
<1>1. PICK S : s \in Seq(S)
  BY DEF ASeq
<1>2. PICK T : t \in Seq(T)
  BY DEF ASeq
<1> DEFINE U == S \cup T
<1>3. s \in Seq(U) /\ t \in Seq(U)
  BY <1>1, <1>2
<1> HIDE DEF U
<1> QED BY <1>3, SeqEqual

\* What libbson lays out, and what is read from it.
LEMMA EncodeShape ==
    ASSUME NEW d, ASeq(d)
    PROVE  /\ ASeq(Bson!Encode(d)) /\ Len(Bson!Encode(d)) = Len(d) + 2
           /\ Bson!Encode(d)[1].n = Len(d) + 2
           /\ \A i \in 1..Len(d) : Bson!Encode(d)[i + 1].e = d[i]
<1> DEFINE a == Bson!Token("length", Len(d) + 2, Bson!NoElement)
           b == [i \in 1..Len(d) |-> Bson!Token("element", 0, d[i])]
           z == Bson!Token("end", 0, Bson!NoElement)
<1>1. Len(d) \in Nat
  BY SeqLen
<1>2. Bson!Encode(d) = (<<a>> \o b) \o <<z>>
  BY DEF Bson!Encode
<1>3. a.n = Len(d) + 2
  BY DEF Bson!Token
<1>4. ASeq(b) /\ Len(b) = Len(d)
  BY <1>1, SeqFun
<1>5. \A i \in 1..Len(d) : b[i].e = d[i]
  BY DEF Bson!Token
<1> HIDE DEF a, b, z
<1>6. ASeq(<<a>>) /\ Len(<<a>>) = 1 /\ <<a>>[1] = a /\ ASeq(<<z>>) /\ Len(<<z>>) = 1
  <2>1. <<a>> \in Seq({a}) /\ <<z>> \in Seq({z})
    OBVIOUS
  <2> QED BY <2>1 DEF ASeq
<1> DEFINE p == <<a>> \o b
           q == p \o <<z>>
<1>7. /\ ASeq(p) /\ Len(p) = 1 + Len(d) /\ p[1] = a /\ \A i \in 1..Len(d) : p[1 + i] = b[i]
  <2>1. 1 \in 1..1
    OBVIOUS
  <2> QED BY <1>4, <1>6, <2>1, SeqCat
<1> HIDE DEF p
<1>8. /\ ASeq(q) /\ Len(q) = Len(p) + 1 /\ \A i \in 1..Len(p) : q[i] = p[i]
  BY <1>6, <1>7, SeqCat
<1> HIDE DEF q
<1>9. q[1] = a /\ \A i \in 1..Len(d) : q[i + 1] = b[i]
  <2>1. 1 \in 1..Len(p) /\ \A i \in 1..Len(d) : i + 1 \in 1..Len(p) /\ i + 1 = 1 + i
    BY <1>1, <1>7
  <2> QED BY <1>7, <1>8, <2>1
<1>10. Bson!Encode(d) = q
  BY <1>2 DEF p, q
<1> QED BY <1>1, <1>3, <1>5, <1>7, <1>8, <1>9, <1>10

\* What follows is read by its length.
LEMMA DecodeShape ==
    ASSUME NEW d, ASeq(d), NEW b, b[1].n = Len(d) + 2, \A i \in 1..Len(d) : b[i + 1].e = d[i]
    PROVE  Bson!Decode(b) = d
<1>1. Len(d) \in Nat
  BY SeqLen
<1> DEFINE f == [i \in 1..Len(d) |-> b[i + 1].e]
<1>2. Bson!Decode(b) = f
  <2>1. b[1].n - 2 = Len(d)
    BY <1>1
  <2> QED BY <2>1 DEF Bson!Decode
<1>3. ASeq(f) /\ Len(f) = Len(d) /\ \A i \in 1..Len(d) : f[i] = d[i]
  <2>1. f = [i \in 1..Len(d) |-> f[i]]
    OBVIOUS
  <2> QED BY <1>1, <2>1, SeqFun
<1> HIDE DEF f
<1> QED BY <1>2, <1>3, SeqSame

\* Decoding undoes encoding.
LEMMA DecodesEncoded == ASSUME NEW d, ASeq(d) PROVE Bson!Decode(Bson!Encode(d)) = d
  BY EncodeShape, DecodeShape

\* f puts the sequences of q one after the other.
Joins(f, n, q) == f = [i \in 1..n |-> IF i = 1 THEN q[i] ELSE f[i - 1] \o q[i]]

\* One sequence after those before it.
LEMMA JoinsStep ==
    ASSUME NEW n \in Nat, NEW q, NEW f, Joins(f, n, q)
    PROVE  \A i \in 1..n : f[i] = IF i = 1 THEN q[i] ELSE f[i - 1] \o q[i]
  BY DEF Joins

\* Sequences that begin alike are joined alike.
LEMMA JoinsAlike ==
    ASSUME NEW n \in Nat, NEW q, NEW f, Joins(f, n, q), NEW m \in Nat, NEW r, NEW g, Joins(g, m, r),
           NEW k \in Nat, k <= n, k <= m, \A i \in 1..k : q[i] = r[i]
    PROVE  \A i \in 1..k : f[i] = g[i]
<1> DEFINE B == {i \in 1..k : f[i] # g[i]}
<1>1. \A i \in 1..k : /\ f[i] = IF i = 1 THEN q[i] ELSE f[i - 1] \o q[i]
                      /\ g[i] = IF i = 1 THEN q[i] ELSE g[i - 1] \o q[i]
  BY JoinsStep
<1>2. B = {}
  <2> SUFFICES ASSUME B # {} PROVE FALSE
    OBVIOUS
  <2>1. B \in SUBSET Nat
    OBVIOUS
  <2>2. PICK x \in B : \A y \in B : x <= y
    BY <2>1, Least
  <2>3. x \in 1..k /\ f[x] # g[x]
    BY <2>2
  <2>4. x # 1
    BY <1>1, <2>3
  <2>5. x - 1 \in 1..k /\ ~(x <= x - 1)
    BY <2>3, <2>4
  <2>6. f[x - 1] = g[x - 1]
    BY <2>2, <2>5
  <2> QED
    BY <1>1, <2>3, <2>4, <2>6
<1> QED BY <1>2

\* They can always be joined.
LEMMA JoinsExist == ASSUME NEW n \in Nat, NEW q PROVE \E f : Joins(f, n, q)
<1> DEFINE B == {m \in 0..n : ~\E f : Joins(f, m, q)}
<1>1. B = {}
  <2> SUFFICES ASSUME B # {} PROVE FALSE
    OBVIOUS
  <2>1. B \in SUBSET Nat
    OBVIOUS
  <2>2. PICK x \in B : \A y \in B : x <= y
    BY <2>1, Least
  <2>3. x \in 0..n /\ ~\E f : Joins(f, x, q)
    BY <2>2
  <2>4. x # 0
    <3> DEFINE f == [i \in 1..0 |-> q[i]]
    <3>1. Joins(f, 0, q)
      <4>1. 1..0 = {}
        OBVIOUS
      <4> QED BY <4>1 DEF Joins
    <3> HIDE DEF f
    <3> QED BY <2>3, <3>1
  <2>5. x - 1 \in 0..n /\ ~(x <= x - 1)
    BY <2>3, <2>4
  <2>6. PICK g : Joins(g, x - 1, q)
    BY <2>2, <2>5
  <2>7. x - 1 \in Nat /\ \A i \in 1..x - 1 : g[i] = IF i = 1 THEN q[i] ELSE g[i - 1] \o q[i]
    BY <2>5, <2>6, JoinsStep
  <2> DEFINE f == [i \in 1..x |-> IF i < x THEN g[i] ELSE IF x = 1 THEN q[x] ELSE g[x - 1] \o q[x]]
             h == [i \in 1..x |-> IF i = 1 THEN q[i] ELSE f[i - 1] \o q[i]]
  <2>8. ASSUME NEW i \in 1..x PROVE f[i] = h[i]
    <3>1. h[i] = IF i = 1 THEN q[i] ELSE f[i - 1] \o q[i]
      OBVIOUS
    <3>2. i # 1 => i - 1 \in 1..x /\ i - 1 < x
      BY <2>3
    <3>3. i # 1 => f[i - 1] = g[i - 1]
      BY <3>2
    <3>4. CASE i < x
      <4>1. i \in 1..x - 1
        BY <2>3, <3>4
      <4>2. f[i] = g[i]
        BY <3>4
      <4> HIDE DEF f, h
      <4> QED BY <2>7, <3>1, <3>3, <4>1, <4>2
    <3>5. CASE i = x
      <4>1. f[i] = IF x = 1 THEN q[x] ELSE g[x - 1] \o q[x]
        BY <3>5
      <4> HIDE DEF f, h
      <4> QED BY <3>1, <3>3, <3>5, <4>1
    <3> QED BY <2>3, <3>4, <3>5
  <2>9. f = h
    <3>1. f = [i \in 1..x |-> f[i]] /\ h = [i \in 1..x |-> h[i]]
      OBVIOUS
    <3> HIDE DEF f, h
    <3> QED BY <2>8, <3>1
  <2>10. Joins(f, x, q)
    <3>1. f = [i \in 1..x |-> IF i = 1 THEN q[i] ELSE f[i - 1] \o q[i]]
      BY <2>9, Zenon
    <3> HIDE DEF f
    <3> QED BY <3>1 DEF Joins
  <2> HIDE DEF f
  <2> QED BY <2>3, <2>10
<1>2. n \in 0..n
  OBVIOUS
<1> QED BY <1>1, <1>2

\* What is joined of sequences is a sequence.
LEMMA JoinsSeqs ==
    ASSUME NEW n \in Nat, NEW q, NEW f, Joins(f, n, q), \A i \in 1..n : ASeq(q[i])
    PROVE  \A i \in 1..n : ASeq(f[i])
<1> DEFINE B == {i \in 1..n : ~ASeq(f[i])}
<1>1. \A i \in 1..n : f[i] = IF i = 1 THEN q[i] ELSE f[i - 1] \o q[i]
  BY JoinsStep
<1>2. B = {}
  <2> SUFFICES ASSUME B # {} PROVE FALSE
    OBVIOUS
  <2>1. B \in SUBSET Nat
    OBVIOUS
  <2>2. PICK x \in B : \A y \in B : x <= y
    BY <2>1, Least
  <2>3. x \in 1..n /\ ~ASeq(f[x])
    BY <2>2
  <2>4. x # 1
    BY <1>1, <2>3
  <2>5. x - 1 \in 1..n /\ ~(x <= x - 1)
    BY <2>3, <2>4
  <2>6. ASeq(f[x - 1])
    BY <2>2, <2>5
  <2>7. f[x] = f[x - 1] \o q[x]
    BY <1>1, <2>3, <2>4
  <2> QED
    BY <2>3, <2>6, <2>7, SeqCat
<1> QED BY <1>2

\* What is joined first stays at the beginning.
LEMMA JoinsBegin ==
    ASSUME NEW n \in Nat, NEW q, NEW f, Joins(f, n, q), \A i \in 1..n : ASeq(q[i]), NEW k \in 1..n
    PROVE  \A m \in k..n : /\ Len(f[k]) <= Len(f[m])
                           /\ \A j \in 1..Len(f[k]) : f[m][j] = f[k][j]
<1> DEFINE Good(m) == Len(f[k]) <= Len(f[m]) /\ \A j \in 1..Len(f[k]) : f[m][j] = f[k][j]
           B == {m \in k..n : ~Good(m)}
<1>1. \A i \in 1..n : f[i] = IF i = 1 THEN q[i] ELSE f[i - 1] \o q[i]
  BY JoinsStep
<1>2. \A i \in 1..n : ASeq(f[i]) /\ Len(f[i]) \in Nat
  BY JoinsSeqs, SeqLen
<1>3. B = {}
  <2> SUFFICES ASSUME B # {} PROVE FALSE
    OBVIOUS
  <2>1. B \in SUBSET Nat
    OBVIOUS
  <2>2. PICK x \in B : \A y \in B : x <= y
    BY <2>1, Least
  <2>3. x \in k..n /\ ~Good(x)
    BY <2>2
  <2>4. x # k
    BY <1>2, <2>3
  <2>5. x - 1 \in k..n /\ ~(x <= x - 1) /\ x \in 1..n /\ x # 1 /\ x - 1 \in 1..n
    BY <2>3, <2>4
  <2>6. Good(x - 1)
    BY <2>2, <2>5
  <2>7. f[x] = f[x - 1] \o q[x]
    BY <1>1, <2>5
  <2>8. /\ Len(f[x]) = Len(f[x - 1]) + Len(q[x]) /\ Len(q[x]) \in Nat
        /\ \A j \in 1..Len(f[x - 1]) : f[x][j] = f[x - 1][j]
    <3> DEFINE u == f[x - 1]
               v == q[x]
    <3>1. ASeq(u) /\ ASeq(v) /\ f[x] = u \o v
      BY <1>2, <2>5, <2>7
    <3> HIDE DEF u, v
    <3>2. Len(v) \in Nat /\ Len(u \o v) = Len(u) + Len(v) /\ \A j \in 1..Len(u) : (u \o v)[j] = u[j]
      BY <3>1, SeqCat, SeqLen
    <3> QED BY <3>1, <3>2 DEF u, v
  <2>9. Good(x)
    <3>1. Len(f[k]) \in Nat /\ Len(f[x - 1]) \in Nat
      BY <1>2, <2>5
    <3>2. Len(f[k]) <= Len(f[x - 1]) /\ \A j \in 1..Len(f[k]) : f[x - 1][j] = f[k][j]
      BY <2>6
    <3>3. \A j \in 1..Len(f[k]) : j \in 1..Len(f[x - 1])
      BY <3>1, <3>2
    <3>4. Len(f[k]) <= Len(f[x])
      <4> DEFINE a == Len(f[k])
                 b == Len(f[x - 1])
                 c == Len(q[x])
      <4>1. a \in Nat /\ b \in Nat /\ c \in Nat /\ a <= b /\ Len(f[x]) = b + c
        BY <2>8, <3>1, <3>2
      <4> HIDE DEF a, b, c
      <4>2. a <= b + c
        BY <4>1
      <4> QED BY <4>1, <4>2 DEF a
    <3> QED BY <2>8, <3>2, <3>3, <3>4
  <2> QED
    BY <2>3, <2>9
<1> QED BY <1>3

\* FlattenSeq joins the sequences.
LEMMA Flattens ==
    ASSUME NEW q, Len(q) \in Nat
    PROVE  /\ Len(q) = 0 => Bson!FlattenSeq(q) = q
           /\ Len(q) # 0 => \E f : Joins(f, Len(q), q) /\ Bson!FlattenSeq(q) = f[Len(q)]
<1>1. ASSUME Len(q) = 0 PROVE Bson!FlattenSeq(q) = q
  BY <1>1 DEF Bson!FlattenSeq
<1>2. ASSUME Len(q) # 0 PROVE \E f : Joins(f, Len(q), q) /\ Bson!FlattenSeq(q) = f[Len(q)]
  <2> DEFINE f == CHOOSE g : Joins(g, Len(q), q)
  <2>1. Bson!FlattenSeq(q) = f[Len(q)]
    BY <1>2, Zenon DEF Bson!FlattenSeq, Joins
  <2>2. Joins(f, Len(q), q)
    BY JoinsExist
  <2> HIDE DEF f
  <2> QED BY <2>1, <2>2
<1> QED BY <1>1, <1>2

\* Several documents.
Docs(ds) == ASeq(ds) /\ \A i \in 1..Len(ds) : ASeq(ds[i])

\* The bytes of n documents are those of each, joined.
Encoding(ds, n) ==
    \E q, f : /\ \A i \in 1..n : q[i] = Bson!Encode(ds[i]) /\ ASeq(q[i])
              /\ Joins(f, n, q) /\ Bson!EncodeAll(ds) = f[n]

\* That is so when there are some; else there are none.
LEMMA EncodedAll ==
    ASSUME NEW ds, Docs(ds), NEW n, n = Len(ds)
    PROVE  /\ n \in Nat
           /\ n = 0 => Len(Bson!EncodeAll(ds)) = 0
           /\ n # 0 => Encoding(ds, n)
<1> DEFINE q == [i \in 1..n |-> Bson!Encode(ds[i])]
<1>1. n \in Nat
  BY SeqLen DEF Docs
<1>2. ASeq(q) /\ Len(q) = n
  <2>1. q = [i \in 1..n |-> q[i]]
    OBVIOUS
  <2> HIDE DEF q
  <2> QED BY <1>1, <2>1, SeqFun
<1>3. Bson!EncodeAll(ds) = Bson!FlattenSeq(q)
  BY DEF Bson!EncodeAll
<1>4. \A i \in 1..n : q[i] = Bson!Encode(ds[i])
  OBVIOUS
<1>5. \A i \in 1..n : ASeq(q[i])
  BY <1>4, EncodeShape DEF Docs
<1> HIDE DEF q
<1>6. /\ Len(q) = 0 => Bson!FlattenSeq(q) = q
      /\ Len(q) # 0 => \E f : Joins(f, Len(q), q) /\ Bson!FlattenSeq(q) = f[Len(q)]
  BY <1>1, <1>2, Flattens
<1>7. n = 0 => Len(Bson!EncodeAll(ds)) = 0
  BY <1>2, <1>3, <1>6
<1>8. ASSUME n # 0
      PROVE  Encoding(ds, n)
  <2>1. PICK f : Joins(f, n, q) /\ Bson!EncodeAll(ds) = f[n]
    BY <1>2, <1>3, <1>6, <1>8
  <2> QED BY <1>4, <1>5, <2>1 DEF Encoding
<1> QED BY <1>1, <1>7, <1>8

\* The bytes of ws after those of ds, with which ws begins, are those of its next
\* document.
Follows(ws, ds) ==
    LET d == ws[Len(ds) + 1]
        e == Bson!Encode(d)
        p == Len(Bson!EncodeAll(ds))
        b == Bson!EncodeAll(ws)
    IN  /\ ASeq(d) /\ p \in Nat /\ Len(e) \in Nat
        /\ Docs(Append(ds, d)) /\ Len(Bson!EncodeAll(Append(ds, d))) = p + Len(e)
        /\ Len(b) \in Nat /\ p + Len(e) <= Len(b) /\ \A j \in 1..Len(e) : b[p + j] = e[j]

\* Documents that begin those written are followed by the next one.
LEMMA NextEncoded ==
    ASSUME NEW ws, Docs(ws), NEW ds, Docs(ds), Len(ds) < Len(ws),
           \A i \in 1..Len(ds) : ds[i] = ws[i]
    PROVE  Follows(ws, ds)
<1> DEFINE d == ws[Len(ds) + 1]
           e == Bson!Encode(d)
           p == Len(Bson!EncodeAll(ds))
           b == Bson!EncodeAll(ws)
<1> DEFINE k == Len(ds)
           n == Len(ws)
           as == Append(ds, d)
<1>1. k \in Nat /\ n \in Nat /\ k < n /\ k + 1 \in 1..n
  <2>1. k \in Nat /\ n \in Nat
    BY SeqLen DEF Docs
  <2> QED BY <2>1
<1>2. ASeq(d) /\ ASeq(e) /\ Len(e) \in Nat
  BY <1>1, EncodeShape, SeqLen DEF Docs
<1>3. Docs(as) /\ Len(as) = k + 1 /\ as[k + 1] = d /\ \A i \in 1..k : as[i] = ws[i]
  <2>1. /\ ASeq(as) /\ Len(as) = k + 1 /\ as[k + 1] = d /\ \A i \in 1..k : as[i] = ds[i]
    BY SeqApp DEF Docs
  <2> HIDE DEF as
  <2>2. \A i \in 1..k + 1 : ASeq(as[i])
    <3> SUFFICES ASSUME NEW i \in 1..k + 1 PROVE ASeq(as[i])
      OBVIOUS
    <3>1. i \in 1..k \/ i = k + 1
      BY <1>1
    <3> QED BY <1>2, <2>1, <3>1 DEF Docs
  <2> QED BY <2>1, <2>2 DEF Docs
<1>3a. n = Len(ws) /\ k = Len(ds) /\ d = ws[k + 1] /\ \A i \in 1..k : ds[i] = ws[i]
  OBVIOUS
<1>3b. e = Bson!Encode(d) /\ p = Len(Bson!EncodeAll(ds)) /\ b = Bson!EncodeAll(ws)
  OBVIOUS
<1> HIDE DEF as, k, n, d, e, p, b
<1>4. PICK q, f : /\ \A i \in 1..n : q[i] = Bson!Encode(ws[i]) /\ ASeq(q[i])
                  /\ Joins(f, n, q) /\ b = f[n]
  <2>1. n # 0
    BY <1>1
  <2>2. Encoding(ws, n)
    BY <1>3a, <2>1, EncodedAll
  <2> QED BY <1>3b, <2>2 DEF Encoding
<1>5. PICK r, g : /\ \A i \in 1..k + 1 : r[i] = Bson!Encode(as[i]) /\ ASeq(r[i])
                  /\ Joins(g, k + 1, r) /\ Bson!EncodeAll(as) = g[k + 1]
  <2>1. k + 1 # 0 /\ k + 1 = Len(as) /\ Docs(as)
    BY <1>1, <1>3
  <2>2. Encoding(as, k + 1)
    BY <2>1, EncodedAll
  <2> QED BY <2>2 DEF Encoding
<1>6. \A i \in 1..k + 1 : as[i] = ws[i] /\ i \in 1..n
  <2> SUFFICES ASSUME NEW i \in 1..k + 1 PROVE as[i] = ws[i] /\ i \in 1..n
    OBVIOUS
  <2>1. i \in 1..k \/ i = k + 1
    BY <1>1
  <2>2. i \in 1..n
    BY <1>1
  <2>3. CASE i \in 1..k
    BY <1>3, <2>2, <2>3
  <2>4. CASE i = k + 1
    BY <1>3, <1>3a, <1>3b, <2>2, <2>4
  <2> QED BY <2>1, <2>3, <2>4
<1>7. f[k + 1] = g[k + 1]
  <2>1. \A i \in 1..k + 1 : q[i] = r[i]
    BY <1>4, <1>5, <1>6
  <2>2. k + 1 \in Nat /\ k + 1 <= n /\ k + 1 <= k + 1 /\ k + 1 \in 1..k + 1
    BY <1>1
  <2>3. \A i \in 1..k + 1 : f[i] = g[i]
    <3>1. k + 1 \in Nat /\ n \in Nat /\ k + 1 <= n /\ k + 1 <= k + 1
      BY <1>1, <2>2
    <3>2. Joins(f, n, q)
      BY <1>4
    <3>3. Joins(g, k + 1, r)
      BY <1>5
    <3> QED BY <2>1, <3>1, <3>2, <3>3, JoinsAlike
  <2> QED BY <2>2, <2>3
<1>8. q[k + 1] = e
  BY <1>1, <1>3a, <1>3b, <1>4
<1>9. /\ p \in Nat /\ Len(f[k + 1]) = p + Len(e)
      /\ \A j \in 1..Len(e) : f[k + 1][p + j] = e[j]
  <2>1. f[k + 1] = IF k + 1 = 1 THEN e ELSE f[(k + 1) - 1] \o e
    BY <1>1, <1>4, <1>8, JoinsStep
  <2>2. CASE k = 0
    <3>1. p = 0
      BY <1>3a, <1>3b, <2>2, EncodedAll
    <3>2. f[k + 1] = e
      BY <2>1, <2>2
    <3> QED BY <1>2, <3>1, <3>2
  <2>3. CASE k # 0
    <3>1. PICK o, h : /\ \A i \in 1..k : o[i] = Bson!Encode(ds[i]) /\ ASeq(o[i])
                      /\ Joins(h, k, o) /\ Bson!EncodeAll(ds) = h[k]
      <4>1. Encoding(ds, k)
        BY <1>3a, <2>3, EncodedAll
      <4> QED BY <4>1 DEF Encoding
    <3>2. k \in 1..k /\ k <= n /\ k <= k /\ k + 1 # 1 /\ (k + 1) - 1 = k /\ k \in 1..n
      BY <1>1, <2>3
    <3>3. \A i \in 1..k : q[i] = o[i]
      <4>1. \A i \in 1..k : i \in 1..n
        BY <1>1
      <4> QED BY <1>3a, <1>3b, <1>4, <3>1, <4>1
    <3>4. \A i \in 1..k : f[i] = h[i]
      <4>1. k \in Nat /\ n \in Nat /\ k <= n /\ k <= k
        BY <1>1, <3>2
      <4>2. Joins(f, n, q)
        BY <1>4
      <4>3. Joins(h, k, o)
        BY <3>1
      <4> QED BY <3>3, <4>1, <4>2, <4>3, JoinsAlike
    <3> DEFINE u == f[k]
    <3>5. f[k + 1] = u \o e /\ p = Len(u)
      <4>1. f[k] = h[k]
        BY <3>2, <3>4
      <4>2. p = Len(f[k])
        BY <1>3b, <3>1, <4>1
      <4> QED BY <2>1, <3>2, <4>2
    <3>6. ASeq(u)
      BY <1>1, <1>4, <3>2, JoinsSeqs
    <3> HIDE DEF u
    <3>7. Len(u) \in Nat /\ Len(u \o e) = Len(u) + Len(e) /\ \A j \in 1..Len(e) : (u \o e)[Len(u) + j] = e[j]
      BY <1>2, <3>6, SeqCat, SeqLen
    <3> QED BY <3>5, <3>7
  <2> QED BY <2>2, <2>3
<1>10. /\ Len(f[k + 1]) <= Len(f[n])
       /\ \A j \in 1..Len(f[k + 1]) : f[n][j] = f[k + 1][j]
  <2>1. n \in k + 1..n
    BY <1>1
  <2> QED BY <1>1, <1>4, <2>1, JoinsBegin
<1>11. Len(b) \in Nat
  <2>1. n \in 1..n
    BY <1>1
  <2>2. ASeq(f[n])
    BY <1>1, <1>4, <2>1, JoinsSeqs
  <2> QED BY <1>4, <2>2, SeqLen
<1>12. p + Len(e) <= Len(b)
  BY <1>4, <1>9, <1>10
<1>13. \A j \in 1..Len(e) : b[p + j] = e[j]
  <2> SUFFICES ASSUME NEW j \in 1..Len(e) PROVE b[p + j] = e[j]
    OBVIOUS
  <2>1. p + j \in 1..p + Len(e)
    BY <1>2, <1>9
  <2> QED BY <1>4, <1>9, <1>10, <2>1
<1>14. Len(Bson!EncodeAll(as)) = p + Len(e)
  BY <1>5, <1>7, <1>9
<1> QED BY <1>2, <1>3, <1>3a, <1>3b, <1>9, <1>11, <1>12, <1>13, <1>14, Zenon DEF as, d, e, p, b, Follows

\* Where a read is: it has read a beginning of the documents written, and it
\* stands behind their bytes.
ReadAt ==
    /\ buf.is = "live"
    /\ Len(docs) <= Len(written) /\ \A i \in 1..Len(docs) : docs[i] = written[i]
    /\ reading.pos = Len(Bson!EncodeAll(docs))
    /\ reading.limit \in 0..Len(buf.of)

\* The values of the state of a read.
ReadState ==
    [at : {"idle", "reading", "crashed"}, pos : Nat, size : Nat, limit : Nat, ret : {0, -1}]

\* The invariant.
BsonInv ==
    /\ heap \in Int
    /\ Bson!Nested(val) => \E d : ASeq(d) /\ val.data = Bson!Encode(d)
    /\ ASeq(vals) /\ ASeq(elems) /\ ASeq(bdoc.of)
    /\ Docs(docs) /\ Docs(written)
    /\ buf.is = "live" => buf.of = Bson!EncodeAll(written)
    /\ reading \in ReadState
    /\ reading.at = "reading" => ReadAt

\* No elements, no documents.
LEMMA NoneIsSeq == ASSUME NEW s, s = <<>> PROVE ASeq(s) /\ Docs(s)
<1>1. s \in Seq({}) /\ Len(s) = 0
  OBVIOUS
<1>2. ASeq(s)
  BY <1>1 DEF ASeq
<1>3. Docs(s)
  BY <1>1, <1>2 DEF Docs
<1> QED BY <1>2, <1>3

\* No documents are no bytes.
LEMMA EmptyEncoded == ASSUME NEW s, s = <<>> PROVE Len(Bson!EncodeAll(s)) = 0
<1>1. Docs(s) /\ Len(s) = 0
  BY NoneIsSeq
<1> QED
  BY <1>1, EncodedAll

\* The bytes of documents are some number of them.
LEMMA EncodedLen == ASSUME NEW ds, Docs(ds) PROVE Len(Bson!EncodeAll(ds)) \in Nat
<1> DEFINE n == Len(ds)
<1>1. n \in Nat
  BY SeqLen DEF Docs
<1>2. CASE n = 0
  BY <1>2, EncodedAll
<1>3. CASE n # 0
  <2>1. PICK q, f : /\ \A i \in 1..n : q[i] = Bson!Encode(ds[i]) /\ ASeq(q[i])
                    /\ Joins(f, n, q) /\ Bson!EncodeAll(ds) = f[n]
    BY <1>3, EncodedAll DEF Encoding
  <2> HIDE DEF n
  <2>2. n \in 1..n
    BY <1>1, <1>3
  <2>3. \A i \in 1..n : ASeq(f[i])
    BY <1>1, <2>1, JoinsSeqs
  <2> QED BY <2>1, <2>2, <2>3, SeqLen
<1> QED BY <1>2, <1>3

\* Nothing is held yet.
LEMMA BsonStarts == Bson!Init => BsonInv
<1> SUFFICES ASSUME Bson!Init PROVE BsonInv
  OBVIOUS
<1>1. /\ val = Bson!Unset /\ vals = <<>> /\ elems = <<>> /\ bdoc.of = <<>> /\ docs = <<>> /\ written = <<>>
      /\ buf.is = "NULL" /\ heap = 0
      /\ reading = [at |-> "idle", pos |-> 0, size |-> 0, limit |-> 0, ret |-> 0]
  BY DEF Bson!Init, Bson!Pointer, Bson!NotReading, Bson!NULL
<1>2. ~Bson!Nested(val)
  BY <1>1 DEF Bson!Nested, Bson!Unset, Bson!Value
<1>3. /\ reading \in ReadState /\ reading.at = "idle"
  BY <1>1 DEF ReadState
<1>4. ASeq(vals) /\ ASeq(elems) /\ ASeq(bdoc.of) /\ Docs(docs) /\ Docs(written)
  BY <1>1, NoneIsSeq
<1> QED BY <1>1, <1>2, <1>3, <1>4 DEF BsonInv

\* The API counts as everyone does.
LEMMA SameCount == ASSUME NEW S PROVE Bson!Cardinality(S) = Cardinality(S)
  BY Zenon DEF Bson!Cardinality, Cardinality

\* The blocks of an array are a number.
LEMMA BlocksCounted ==
    ASSUME NEW s, ASeq(s)
    PROVE  Bson!ValueBlocks(s) \in Nat /\ Bson!ElementBlocks(s) \in Nat
<1>1. Len(s) \in Nat
  BY SeqLen
<1>2. IsFiniteSet(1..Len(s))
  BY <1>1, FS_Interval
<1> DEFINE A == {i \in 1..Len(s) : Bson!Owns(s[i])}
           B == {i \in 1..Len(s) : Bson!Owns(s[i].val)}
<1>3. A \in SUBSET (1..Len(s)) /\ B \in SUBSET (1..Len(s))
  OBVIOUS
<1>4. Cardinality(A) \in Nat /\ Cardinality(B) \in Nat
  BY <1>2, <1>3, FS_Subset, FS_CardinalityType
<1>5. Bson!Cardinality(A) \in Nat /\ Bson!Cardinality(B) \in Nat
  BY <1>4, SameCount
<1> QED BY <1>1, <1>5 DEF Bson!ValueBlocks, Bson!ElementBlocks

\* One more value adds its own block.
LEMMA BlocksAppended ==
    ASSUME NEW s, ASeq(s), NEW v
    PROVE  Bson!ValueBlocks(Append(s, v)) = Bson!ValueBlocks(s) + Bson!Blocks(v)
<1> DEFINE n == Len(s)
           t == Append(s, v)
           A == {i \in 1..n : Bson!Owns(s[i])}
           B == {i \in 1..Len(t) : Bson!Owns(t[i])}
<1>1. n \in Nat /\ Len(t) = n + 1 /\ t[n + 1] = v /\ \A i \in 1..n : t[i] = s[i]
  BY SeqLen, SeqApp
<1>2. IsFiniteSet(A) /\ n + 1 \notin A
  <2>1. A \in SUBSET (1..n) /\ IsFiniteSet(1..n)
    BY <1>1, FS_Interval
  <2> QED BY <1>1, <2>1, FS_Subset
<1>3. B = IF Bson!Owns(v) THEN A \cup {n + 1} ELSE A
  <2>1. 1..n + 1 = (1..n) \cup {n + 1}
    BY <1>1
  <2> HIDE DEF n, t
  <2> QED BY <1>1, <2>1
<1>4. Bson!ValueBlocks(s) = Cardinality(A) /\ Bson!ValueBlocks(t) = Cardinality(B)
  BY SameCount DEF Bson!ValueBlocks
<1> HIDE DEF A, B, t
<1>5. Cardinality(A) \in Nat /\ Cardinality(A \cup {n + 1}) = Cardinality(A) + 1
  BY <1>2, FS_CardinalityType, FS_AddElement
<1>6. Cardinality(B) = Cardinality(A) + Bson!Blocks(v)
  BY <1>3, <1>5 DEF Bson!Blocks
<1> QED BY <1>4, <1>6 DEF t

\* The actions change few of these at a time.
LEMMA BsonKeepsRest ==
    ASSUME BsonInv, heap' \in Int,
           Bson!Nested(val)' => \E d : ASeq(d) /\ val'.data = Bson!Encode(d),
           ASeq(vals'), ASeq(elems'), ASeq(bdoc'.of), Docs(docs'),
           UNCHANGED <<buf, written, reading>>, reading.at # "reading"
    PROVE  BsonInv'
  BY DEF BsonInv, ASeq, Docs, Bson!Nested, ReadAt

\* What changes nothing keeps the invariant.
LEMMA BsonStays == ASSUME BsonInv, UNCHANGED bson_vars PROVE BsonInv'
  BY DEF BsonInv, bson_vars, ReadAt, ASeq, Docs, Bson!Nested

\* A value holds what it was set to.
LEMMA SetsNested ==
    ASSUME BsonInv, NEW type, NEW d, ASeq(d), Bson!SetNested(type, d)
    PROVE  BsonInv'
<1>1. /\ reading.at = "idle" /\ val' = Bson!Value(type, Bson!NULL, Bson!Encode(d)) /\ heap' = heap + 1
      /\ UNCHANGED <<vals, elems, bdoc, docs, buf, written, reading>>
  BY DEF Bson!SetNested, Bson!SetVal, Bson!Idle, Bson!buffer
<1>2. val'.data = Bson!Encode(d)
  BY <1>1 DEF Bson!Value
<1>3. heap' \in Int /\ ASeq(vals') /\ ASeq(elems') /\ ASeq(bdoc'.of) /\ Docs(docs')
  BY <1>1 DEF BsonInv
<1> QED BY <1>1, <1>2, <1>3, BsonKeepsRest

\* A call that fails and frees what it allocated changes nothing.
LEMMA FailsAlone ==
    ASSUME BsonInv, NEW n \in Int, Bson!Fails(n, n)
    PROVE  UNCHANGED bson_vars
  BY DEF BsonInv, Bson!Fails, Bson!values, Bson!buffer, bson_vars

\* An array makes a document.
LEMMA ArraySeq == ASSUME NEW vs, ASeq(vs) PROVE ASeq(Bson!AsDoc(vs))
<1>1. Len(vs) \in Nat
  BY SeqLen
<1> DEFINE f == [i \in 1..Len(vs) |-> Bson!Element(Bson!ToString(i - 1), vs[i])]
<1>2. f = [i \in 1..Len(vs) |-> f[i]]
  OBVIOUS
<1>3. Bson!AsDoc(vs) = f
  BY DEF Bson!AsDoc
<1> HIDE DEF f
<1> QED BY <1>1, <1>2, <1>3, SeqFun

\* A document makes an array.
LEMMA ValuesSeq == ASSUME NEW d, ASeq(d) PROVE ASeq(Bson!ValuesOf(d))
<1>1. Len(d) \in Nat
  BY SeqLen
<1> DEFINE f == [i \in 1..Len(d) |-> d[i].val]
<1>2. f = [i \in 1..Len(d) |-> f[i]]
  OBVIOUS
<1>3. Bson!ValuesOf(d) = f
  BY DEF Bson!ValuesOf
<1> HIDE DEF f
<1> QED BY <1>1, <1>2, <1>3, SeqFun

\* One turn of the loop that reads gives the next document written.
LEMMA ReadsNext ==
    ASSUME BsonInv, Bson!ReadDoc
    PROVE  BsonInv'
<1> DEFINE k == Len(docs)
           d == written[k + 1]
           e == Bson!Encode(d)
           p == reading.pos
           l == reading.limit
           b == buf.of
<1>1. /\ reading.at = "reading" /\ p < l /\ p + b[p + 1].n <= l
      /\ docs' = Append(docs, Bson!Decode(SubSeq(b, p + 1, l)))
      /\ reading' = [reading EXCEPT !.pos = @ + b[p + 1].n,
                                    !.size = IF Bson!Grows(Len(docs'), @) THEN 2 * @ ELSE @]
      /\ heap' = heap + 2 /\ UNCHANGED <<val, vals, elems, bdoc, buf, written, json>>
  BY DEF Bson!ReadDoc, Bson!Reading, Bson!HasNext, Bson!NextLength, Bson!values, Bson!buffer
<1>2. /\ Docs(docs) /\ Docs(written) /\ b = Bson!EncodeAll(written)
      /\ Len(docs) <= Len(written) /\ \A i \in 1..Len(docs) : docs[i] = written[i]
      /\ p = Len(Bson!EncodeAll(docs)) /\ l \in 0..Len(b)
  BY <1>1 DEF BsonInv, ReadAt
<1>3. k \in Nat /\ Len(written) \in Nat /\ p \in Nat /\ Len(b) \in Nat
  BY <1>2, SeqLen, EncodedLen DEF Docs
<1>4. k # Len(written)
  <2> SUFFICES ASSUME k = Len(written) PROVE FALSE
    OBVIOUS
  <2>1. docs = written
    BY <1>2, SeqSame DEF Docs
  <2>2. p = Len(b)
    BY <1>2, <2>1
  <2> QED BY <1>1, <1>2, <1>3, <2>2
<1>5. k < Len(written)
  BY <1>2, <1>3, <1>4
<1>6. /\ ASeq(d) /\ Len(e) \in Nat
      /\ Docs(Append(docs, d)) /\ Len(Bson!EncodeAll(Append(docs, d))) = p + Len(e)
      /\ p + Len(e) <= Len(b) /\ \A j \in 1..Len(e) : b[p + j] = e[j]
  <2> DEFINE p1 == Len(Bson!EncodeAll(docs))
             b1 == Bson!EncodeAll(written)
  <2>1. Docs(written) /\ Docs(docs) /\ Len(docs) < Len(written)
    BY <1>2, <1>5
  <2>2. \A i \in 1..Len(docs) : docs[i] = written[i]
    BY <1>2
  <2>3. /\ ASeq(d) /\ Len(e) \in Nat
        /\ Docs(Append(docs, d)) /\ Len(Bson!EncodeAll(Append(docs, d))) = p1 + Len(e)
        /\ p1 + Len(e) <= Len(b1) /\ \A j \in 1..Len(e) : b1[p1 + j] = e[j]
    <3>1. Follows(written, docs)
      BY <2>1, <2>2, NextEncoded
    <3> QED BY <3>1, Zenon DEF Follows
  <2>4. p = p1 /\ b = b1
    BY <1>2
  <2> HIDE DEF k, d, e, b, p, l, p1, b1
  <2> QED BY <2>3, <2>4
<1>7. /\ Len(d) \in Nat /\ Len(e) = Len(d) + 2 /\ e[1].n = Len(d) + 2
      /\ \A i \in 1..Len(d) : e[i + 1].e = d[i]
  BY <1>6, EncodeShape, SeqLen
<1> HIDE DEF k, d, e, b, p, l
<1>8. b[p + 1] = e[1] /\ b[p + 1].n = Len(e)
  <2>1. 1 \in 1..Len(e)
    BY <1>7
  <2> QED BY <1>6, <1>7, <2>1
<1>9. p + Len(e) <= l /\ l \in Nat
  BY <1>1, <1>2, <1>3, <1>8
<1>10. Bson!Decode(SubSeq(b, p + 1, l)) = d
  <2> DEFINE s == SubSeq(b, p + 1, l)
  <2>1. \A j \in 1..Len(e) : s[j] = e[j]
    <3> SUFFICES ASSUME NEW j \in 1..Len(e) PROVE s[j] = e[j]
      OBVIOUS
    <3>1. s = [i \in 1..(l - (p + 1) + 1) |-> b[i + (p + 1) - 1]]
      BY <1>3, <1>9
    <3>2. j \in 1..(l - (p + 1) + 1) /\ j + (p + 1) - 1 = p + j
      BY <1>3, <1>6, <1>9
    <3> QED BY <1>6, <3>1, <3>2
  <2> HIDE DEF s
  <2>2. s[1].n = Len(d) + 2
    <3>1. 1 \in 1..Len(e)
      BY <1>7
    <3> QED BY <1>7, <2>1, <3>1
  <2>3. \A i \in 1..Len(d) : s[i + 1].e = d[i]
    <3>1. \A i \in 1..Len(d) : i + 1 \in 1..Len(e)
      BY <1>7
    <3> QED BY <1>7, <2>1, <3>1
  <2>4. Bson!Decode(s) = d
    BY <1>6, <2>2, <2>3, DecodeShape
  <2> QED BY <2>4 DEF s
<1>11. docs' = Append(docs, d)
  BY <1>1, <1>10
<1>12. /\ Docs(docs') /\ Len(docs') = k + 1 /\ Len(Bson!EncodeAll(docs')) = p + Len(e)
       /\ \A i \in 1..k + 1 : docs'[i] = written[i]
  <2>1. /\ Len(docs') = k + 1 /\ docs'[k + 1] = d /\ \A i \in 1..k : docs'[i] = docs[i]
    BY <1>2, <1>11, SeqApp DEF Docs, k
  <2>2. \A i \in 1..k : docs'[i] = written[i]
    BY <1>2, <2>1 DEF k
  <2>3. docs'[k + 1] = written[k + 1]
    BY <2>1 DEF d
  <2>4. \A i \in 1..k + 1 : i \in 1..k \/ i = k + 1
    BY <1>3
  <2>5. \A i \in 1..k + 1 : docs'[i] = written[i]
    BY <2>2, <2>3, <2>4
  <2> QED BY <1>6, <1>11, <2>1, <2>5
<1>13. /\ reading' \in ReadState
       /\ reading'.at = "reading" /\ reading'.pos = p + Len(e) /\ reading'.limit = l
  <2>1. reading' = [reading EXCEPT !.pos = p + Len(e),
                                   !.size = IF Bson!Grows(Len(docs'), reading.size) THEN 2 * reading.size ELSE reading.size]
    BY <1>1, <1>8 DEF p
  <2>2. /\ reading \in ReadState
        /\ p + Len(e) \in Nat
    BY <1>3, <1>6 DEF BsonInv
  <2> DEFINE z == IF Bson!Grows(Len(docs'), reading.size) THEN 2 * reading.size ELSE reading.size
             r == [reading EXCEPT !.pos = p + Len(e), !.size = z]
  <2>3. z \in Nat
    BY <2>2 DEF ReadState
  <2>4. reading' = r
    BY <2>1
  <2> HIDE DEF z
  <2>5. r \in ReadState /\ r.at = reading.at /\ r.pos = p + Len(e) /\ r.limit = reading.limit
    BY <2>2, <2>3 DEF ReadState
  <2> QED BY <1>1, <2>4, <2>5 DEF l
<1>14. ReadAt'
  <2>1. Len(docs') <= Len(written') /\ \A i \in 1..Len(docs') : docs'[i] = written'[i]
    BY <1>1, <1>3, <1>5, <1>12
  <2>2. buf' = buf /\ buf.is = "live"
    BY <1>1 DEF BsonInv, ReadAt
  <2>3. reading'.pos = Len(Bson!EncodeAll(docs')) /\ reading'.limit \in 0..Len(buf'.of)
    BY <1>2, <1>12, <1>13, <2>2 DEF b
  <2>4. Bson!EncodeAll(docs)' = Bson!EncodeAll(docs')
    OBVIOUS
  <2> QED BY <2>1, <2>2, <2>3, <2>4 DEF ReadAt
<1> QED
  <2>1. heap' \in Int /\ ASeq(vals)' /\ ASeq(elems)' /\ ASeq(bdoc.of)' /\ Docs(written)'
    BY <1>1 DEF BsonInv, ASeq, Docs
  <2>2. (Bson!Nested(val) => \E x : ASeq(x) /\ val.data = Bson!Encode(x))'
    BY <1>1 DEF BsonInv, Bson!Nested, ASeq
  <2>3. (buf.is = "live" => buf.of = Bson!EncodeAll(written))'
    BY <1>1 DEF BsonInv
  <2>4. Docs(docs)' /\ (reading \in ReadState)'
    BY <1>12, <1>13 DEF ReadState, Docs, ASeq
  <2> QED BY <1>14, <2>1, <2>2, <2>3, <2>4 DEF BsonInv

\* Every call preserves the invariant.
LEMMA BsonValueStep == ASSUME BsonInv, Bson!ValueOps PROVE BsonInv'
<1>0. /\ heap \in Int /\ ASeq(vals) /\ ASeq(elems) /\ ASeq(bdoc.of) /\ Docs(docs)
      /\ Bson!Nested(val) => \E d : ASeq(d) /\ val.data = Bson!Encode(d)
  BY DEF BsonInv
<1>1. ASSUME NEW v, NEW n \in Int, ~Bson!Nested(v), Bson!SetVal(v, n) PROVE BsonInv'
  <2>1. /\ reading.at # "reading" /\ val' = v /\ heap' = heap + n
        /\ UNCHANGED <<vals, elems, bdoc, docs, buf, written, reading>>
    BY <1>1 DEF Bson!SetVal, Bson!Idle, Bson!buffer
  <2>2. ~Bson!Nested(val)'
    BY <1>1, <2>1 DEF Bson!Nested
  <2>3. heap' \in Int /\ ASeq(vals') /\ ASeq(elems') /\ ASeq(bdoc'.of) /\ Docs(docs')
    BY <1>0, <2>1
  <2> QED BY <2>1, <2>2, <2>3, BsonKeepsRest
<1>2. ASSUME NEW x, NEW type \in NumberTypes, Bson!bson_value_set_number(type, x) PROVE BsonInv'
  <2>1. ~Bson!Nested(Bson!Value(type, x, <<>>))
    BY BsonConstants DEF Bson!Nested, Bson!Value
  <2> QED BY <1>1, <1>2, <2>1 DEF Bson!bson_value_set_number
<1>3. ASSUME NEW x, Bson!bson_value_set_str(x) PROVE BsonInv'
  <2>1. ~Bson!Nested(Bson!Value("utf8", x, <<>>))
    BY DEF Bson!Nested, Bson!Value
  <2> QED BY <1>1, <1>3, <2>1 DEF Bson!bson_value_set_str
<1>4. CASE Bson!bson_value_set_array
  <2>1. ASeq(Bson!AsDoc(vals))
    BY <1>0, ArraySeq
  <2>2. Bson!SetNested("array", Bson!AsDoc(vals)) \/ Bson!Fails(2, 2) \/ Bson!Fails(3, 3)
    BY <1>4 DEF Bson!bson_value_set_array
  <2> QED BY <2>1, <2>2, SetsNested, FailsAlone, BsonStays
<1>5. CASE Bson!bson_value_set_doc
  <2>1. Bson!SetNested("document", bdoc.of) \/ Bson!Fails(1, 1)
    BY <1>5 DEF Bson!bson_value_set_doc
  <2> QED BY <1>0, <2>1, SetsNested, FailsAlone, BsonStays
<1>6. ASSUME Bson!Nested(val) PROVE ASeq(Bson!Decode(val.data))
  <2>1. PICK d : ASeq(d) /\ val.data = Bson!Encode(d)
    BY <1>0, <1>6
  <2> QED BY <2>1, DecodesEncoded
<1>7. CASE Bson!bson_value_get_array
  <2> DEFINE got == Bson!ValuesOf(Bson!Decode(val.data))
             n == IF got = <<>> THEN 0 ELSE 1 + Bson!ValueBlocks(got)
  <2>0. ASeq(got)
    BY <1>6, <1>7, ValuesSeq DEF Bson!bson_value_get_array, Bson!Nested
  <2>1. CASE Bson!Fails(0, 0)
    BY <2>1, FailsAlone, BsonStays
  <2>2. ASSUME /\ reading.at # "reading" /\ vals' = got /\ heap' = heap + n
               /\ UNCHANGED <<val, elems, bdoc, docs, buf, written, reading>>
        PROVE  BsonInv'
    <3>1. n \in Int
      BY <2>0, BlocksCounted
    <3> HIDE DEF n, got
    <3>2. heap' \in Int /\ ASeq(vals') /\ ASeq(elems') /\ ASeq(bdoc'.of) /\ Docs(docs')
      BY <1>0, <2>0, <2>2, <3>1
    <3>3. Bson!Nested(val)' => \E d : ASeq(d) /\ val'.data = Bson!Encode(d)
      BY <1>0, <2>2 DEF Bson!Nested
    <3> QED BY <2>2, <3>2, <3>3, BsonKeepsRest
  <2> QED BY <1>7, <2>1, <2>2 DEF Bson!bson_value_get_array, Bson!Idle, Bson!buffer
<1>8. CASE Bson!bson_value_get_doc
  <2>1. /\ reading.at # "reading" /\ Bson!Nested(val) /\ bdoc'.of = Bson!Decode(val.data) /\ heap' = heap + 2
        /\ UNCHANGED <<val, vals, elems, docs, buf, written, reading>>
    BY <1>8 DEF Bson!bson_value_get_doc, Bson!Idle, Bson!Pointer, Bson!values, Bson!buffer
  <2>2. heap' \in Int /\ ASeq(vals') /\ ASeq(elems') /\ ASeq(bdoc'.of) /\ Docs(docs')
    BY <1>0, <1>6, <2>1
  <2>3. Bson!Nested(val)' => \E d : ASeq(d) /\ val'.data = Bson!Encode(d)
    BY <1>0, <2>1 DEF Bson!Nested
  <2> QED BY <2>1, <2>2, <2>3, BsonKeepsRest
<1>9. CASE Bson!bson_value_free \/ Bson!PutValue
  <2>1. /\ reading.at # "reading" /\ val' = Bson!Unset
        /\ heap' \in {heap, heap + 1, heap - 1} /\ vals' \in {vals, Append(vals, val)}
        /\ UNCHANGED <<elems, bdoc, docs, buf, written, reading>>
    BY <1>0, <1>9 DEF Bson!bson_value_free, Bson!PutValue, Bson!Idle, Bson!Blocks, Bson!buffer
  <2>2. heap' \in Int /\ ASeq(vals') /\ ASeq(elems') /\ ASeq(bdoc'.of) /\ Docs(docs')
    <3>1. ASeq(Append(vals, val))
      BY <1>0, SeqApp
    <3>2. heap' \in Int
      BY <1>0, <2>1
    <3> QED BY <1>0, <2>1, <3>1, <3>2
  <2>3. ~Bson!Nested(val)'
    BY <2>1 DEF Bson!Nested, Bson!Unset, Bson!Value
  <2> QED BY <2>1, <2>2, <2>3, BsonKeepsRest
<1>10. CASE Bson!FreeValues
  <2>1. /\ reading.at # "reading" /\ vals' = <<>> /\ heap' = heap - 1 - Bson!ValueBlocks(vals)
        /\ UNCHANGED <<val, elems, bdoc, docs, buf, written, reading>>
    BY <1>10 DEF Bson!FreeValues, Bson!Idle, Bson!buffer
  <2>2. Bson!ValueBlocks(vals) \in Nat /\ ASeq(<<>>)
    BY <1>0, BlocksCounted, NoneIsSeq
  <2>3. heap' \in Int /\ ASeq(vals') /\ ASeq(elems') /\ ASeq(bdoc'.of) /\ Docs(docs')
    BY <1>0, <2>1, <2>2
  <2>4. Bson!Nested(val)' => \E d : ASeq(d) /\ val'.data = Bson!Encode(d)
    BY <1>0, <2>1 DEF Bson!Nested
  <2> QED BY <2>1, <2>3, <2>4, BsonKeepsRest
<1> QED
  BY <1>2, <1>3, <1>4, <1>5, <1>7, <1>8, <1>9, <1>10 DEF Bson!ValueOps

\* So do the calls on a document.
LEMMA BsonDocStep == ASSUME BsonInv, Bson!DocOps PROVE BsonInv'
<1>0. /\ heap \in Int /\ ASeq(vals) /\ ASeq(elems) /\ ASeq(bdoc.of) /\ Docs(docs)
      /\ Bson!Nested(val) => \E d : ASeq(d) /\ val.data = Bson!Encode(d)
  BY DEF BsonInv
<1>1. ASeq(<<>>) /\ Docs(<<>>)
  BY NoneIsSeq
\* All of them leave the value alone.
<1>2. ASSUME UNCHANGED <<val, buf, written, reading>>, reading.at # "reading", heap' \in Int,
             ASeq(vals'), ASeq(elems'), ASeq(bdoc'.of), Docs(docs')
      PROVE  BsonInv'
  <2>1. Bson!Nested(val)' => \E d : ASeq(d) /\ val'.data = Bson!Encode(d)
    BY <1>0, <1>2 DEF Bson!Nested
  <2> QED BY <1>2, <2>1, BsonKeepsRest
<1>3. ASSUME NEW n \in 0..MaxElements, Bson!bson_doc_create(n) PROVE BsonInv'
  <2> DEFINE f == [i \in 1..n |-> Bson!Element(Bson!ToString(i), val)]
  <2>1. ASeq(f)
    <3>1. f = [i \in 1..n |-> f[i]] /\ n \in Nat
      BY BsonConstants
    <3> HIDE DEF f
    <3> QED BY <3>1, SeqFun
  <2>2. /\ reading.at # "reading" /\ heap' \in {heap, heap + 2} /\ bdoc'.of \in {f, <<>>}
        /\ UNCHANGED <<val, vals, elems, docs, buf, written, reading>>
    BY <1>3 DEF Bson!bson_doc_create, Bson!Idle, Bson!Pointer, Bson!values, Bson!buffer
  <2> HIDE DEF f
  <2>3. heap' \in Int /\ ASeq(bdoc'.of)
    BY <1>0, <1>1, <2>1, <2>2
  <2> QED BY <1>0, <1>2, <2>2, <2>3
<1>4. CASE Bson!bson_doc_get_elements
  <2> DEFINE n == IF bdoc.of = <<>> THEN 0 ELSE 1 + Bson!ElementBlocks(bdoc.of)
  <2>0. n \in Int
    BY <1>0, BlocksCounted
  <2>1. CASE Bson!Fails(0, 0)
    BY <2>1, FailsAlone, BsonStays
  <2>2. ASSUME /\ reading.at # "reading" /\ elems' = bdoc.of /\ heap' = heap + n
               /\ UNCHANGED <<val, vals, bdoc, docs, buf, written, reading>>
        PROVE  BsonInv'
    <3> HIDE DEF n
    <3>1. heap' \in Int /\ ASeq(elems')
      BY <1>0, <2>0, <2>2
    <3> QED BY <1>0, <1>2, <2>2, <3>1
  <2> QED BY <1>4, <2>1, <2>2 DEF Bson!bson_doc_get_elements, Bson!Idle, Bson!buffer
<1>5. CASE Bson!FreeElements
  <2>1. /\ reading.at # "reading" /\ elems' = <<>> /\ heap' = heap - 1 - Bson!ElementBlocks(elems)
        /\ UNCHANGED <<val, vals, bdoc, docs, buf, written, reading>>
    BY <1>5 DEF Bson!FreeElements, Bson!Idle, Bson!buffer
  <2>2. Bson!ElementBlocks(elems) \in Nat
    BY <1>0, BlocksCounted
  <2>3. heap' \in Int /\ ASeq(elems')
    BY <1>0, <1>1, <2>1, <2>2
  <2> QED BY <1>0, <1>2, <2>1, <2>3
<1>6. CASE Bson!bson_doc_destroy
  <2>1. /\ reading.at # "reading" /\ bdoc'.of = <<>> /\ heap' = heap - 2
        /\ UNCHANGED <<val, vals, elems, docs, buf, written, reading>>
    BY <1>6 DEF Bson!bson_doc_destroy, Bson!Idle, Bson!Pointer, Bson!values, Bson!buffer
  <2> QED BY <1>0, <1>1, <1>2, <2>1
<1>7. CASE Bson!bson_to_json \/ Bson!FreeJson
  <2>1. CASE Bson!Fails(0, 0)
    BY <2>1, FailsAlone, BsonStays
  <2>2. CASE /\ reading.at # "reading" /\ heap' \in {heap + 1, heap - 1}
             /\ UNCHANGED <<val, vals, elems, bdoc, docs, buf, written, reading>>
    BY <1>0, <1>2, <2>2
  <2> QED BY <1>7, <2>1, <2>2 DEF Bson!bson_to_json, Bson!FreeJson, Bson!Idle, Bson!values, Bson!buffer
<1>8. CASE Bson!PutDoc
  <2>1. /\ reading.at # "reading" /\ docs' = Append(docs, bdoc.of) /\ bdoc'.of = <<>>
        /\ heap' \in {heap, heap + 1}
        /\ UNCHANGED <<val, vals, elems, buf, written, reading>>
    BY <1>8 DEF Bson!PutDoc, Bson!Idle, Bson!Pointer, Bson!values, Bson!buffer
  <2>2. Docs(docs')
    <3> DEFINE n == Len(docs)
               as == Append(docs, bdoc.of)
    <3>1. /\ ASeq(as) /\ Len(as) = n + 1 /\ as[n + 1] = bdoc.of /\ \A i \in 1..n : as[i] = docs[i]
          /\ n \in Nat
      BY <1>0, SeqApp, SeqLen DEF Docs
    <3> HIDE DEF as
    <3>2. \A i \in 1..n + 1 : i \in 1..n \/ i = n + 1
      BY <3>1
    <3>3. \A i \in 1..n + 1 : ASeq(as[i])
      BY <1>0, <3>1, <3>2 DEF Docs
    <3>4. Docs(as)
      BY <3>1, <3>3 DEF Docs
    <3> QED BY <2>1, <3>4 DEF as
  <2> QED BY <1>0, <1>1, <1>2, <2>1, <2>2
<1>9. CASE Bson!DestroyDocs
  <2>1. /\ reading.at # "reading" /\ docs' = <<>> /\ heap' = heap - 1 - 2 * Len(docs)
        /\ UNCHANGED <<val, vals, elems, bdoc, buf, written, reading>>
    BY <1>9 DEF Bson!DestroyDocs, Bson!Idle, Bson!values, Bson!buffer
  <2>2. Len(docs) \in Nat
    BY <1>0, SeqLen DEF Docs
  <2>3. heap' \in Int /\ Docs(docs')
    BY <1>0, <1>1, <2>1, <2>2
  <2> QED BY <1>0, <1>2, <2>1, <2>3
<1> QED
  BY <1>3, <1>4, <1>5, <1>6, <1>7, <1>8, <1>9 DEF Bson!DocOps

\* While no document is read, or after the last one.
LEMMA BsonBufferRest ==
    ASSUME BsonInv, heap' \in Int, UNCHANGED <<val, vals, elems, bdoc>>, Docs(docs'), Docs(written'),
           buf'.is = "live" => buf'.of = Bson!EncodeAll(written'),
           reading' \in ReadState, reading'.at # "reading"
    PROVE  BsonInv'
<1>1. (Bson!Nested(val) => \E d : ASeq(d) /\ val.data = Bson!Encode(d))'
  BY DEF BsonInv, Bson!Nested, ASeq
<1>2. ASeq(vals)' /\ ASeq(elems)' /\ ASeq(bdoc.of)' /\ Docs(docs)' /\ Docs(written)'
  BY DEF BsonInv, ASeq, Docs
<1>3. (reading \in ReadState)' /\ (reading.at # "reading")'
  BY DEF ReadState
<1>4. (buf.is = "live" => buf.of = Bson!EncodeAll(written))'
  OBVIOUS
<1> QED BY <1>1, <1>2, <1>3, <1>4 DEF BsonInv

\* So do the calls on a buffer.
LEMMA BsonBufferStep == ASSUME BsonInv, Bson!BufferOps PROVE BsonInv'
<1>0. /\ heap \in Int /\ Docs(docs) /\ Docs(written) /\ reading \in ReadState
      /\ buf.is = "live" => buf.of = Bson!EncodeAll(written)
  BY DEF BsonInv
<1>1. Docs(<<>>)
  BY NoneIsSeq
<1>2. CASE Bson!bson_write_to_buffer
  <2>1. CASE Bson!Fails(1, 1)
    BY <2>1, FailsAlone, BsonStays
  <2>2. ASSUME /\ reading.at = "idle" /\ buf' = Bson!Pointer("live", Bson!EncodeAll(docs)) /\ written' = docs
               /\ heap' = heap + 1 /\ UNCHANGED <<val, vals, elems, bdoc, docs, reading>>
        PROVE  BsonInv'
    <3>1. buf'.of = Bson!EncodeAll(written')
      BY <2>2 DEF Bson!Pointer
    <3> QED BY <1>0, <2>2, <3>1, BsonBufferRest
  <2> QED BY <1>2, <2>1, <2>2 DEF Bson!bson_write_to_buffer, Bson!bson_buffer_write, Bson!Idle, Bson!values
<1>3. CASE Bson!FreeBuf
  <2>1. /\ reading.at = "idle" /\ buf' = Bson!Pointer("NULL", <<>>) /\ written' = <<>>
        /\ heap' = heap - 1 /\ UNCHANGED <<val, vals, elems, bdoc, docs, reading>>
    BY <1>3 DEF Bson!FreeBuf, Bson!Idle, Bson!values, Bson!NULL
  <2>2. buf'.is # "live"
    BY <2>1 DEF Bson!Pointer
  <2> QED BY <1>0, <1>1, <2>1, <2>2, BsonBufferRest
<1>4. ASSUME NEW limit \in 0..Len(buf.of), Bson!ReadBegin(limit) PROVE BsonInv'
  <2>1. CASE Bson!Fails(0, 0)
    BY <2>1, FailsAlone, BsonStays
  <2>2. ASSUME /\ buf.is = "live" /\ docs = <<>> /\ heap' = heap + 1
               /\ reading' = [at |-> "reading", pos |-> 0, size |-> BSON_ARRAY_SIZE, limit |-> limit, ret |-> 0]
               /\ UNCHANGED <<val, vals, elems, bdoc, docs, buf, written>>
        PROVE  BsonInv'
    <3>1. Len(buf.of) \in Nat /\ Len(written) \in Nat
      BY <1>0, <2>2, EncodedLen, SeqLen DEF Docs
    <3>2. reading' \in ReadState /\ reading'.pos = 0 /\ reading'.limit = limit
      BY <2>2, <3>1, BsonConstants DEF ReadState
    <3>3. Len(Bson!EncodeAll(docs)) = 0 /\ Len(docs) = 0
      BY <2>2, EmptyEncoded
    <3>4. ReadAt'
      BY <2>2, <3>1, <3>2, <3>3 DEF ReadAt
    <3>5. (Bson!Nested(val) => \E d : ASeq(d) /\ val.data = Bson!Encode(d))'
      BY <2>2 DEF BsonInv, Bson!Nested, ASeq
    <3>6. ASeq(vals)' /\ ASeq(elems)' /\ ASeq(bdoc.of)' /\ Docs(docs)' /\ Docs(written)'
      BY <2>2 DEF BsonInv, ASeq, Docs
    <3>7. (reading \in ReadState)'
      BY <3>2 DEF ReadState
    <3>8. (buf.is = "live" => buf.of = Bson!EncodeAll(written))' /\ heap' \in Int
      BY <1>0, <2>2
    <3> QED BY <3>4, <3>5, <3>6, <3>7, <3>8 DEF BsonInv
  <2> QED BY <1>4, <2>1, <2>2 DEF Bson!ReadBegin, Bson!values, Bson!buffer
<1>5. CASE Bson!ReadDoc
  BY <1>5, ReadsNext
<1>6. CASE Bson!ReadGrowFails
  <2>1. /\ reading' = [reading EXCEPT !.at = "crashed"]
        /\ UNCHANGED <<val, vals, elems, bdoc, docs, buf, written, heap>>
    BY <1>6 DEF Bson!ReadGrowFails, Bson!values, Bson!buffer
  <2>2. reading' \in ReadState /\ reading'.at = "crashed"
    BY <1>0, <2>1 DEF ReadState
  <2> QED BY <1>0, <2>1, <2>2, BsonBufferRest
<1>7. CASE Bson!ReadEnd
  <2>0. Len(docs) \in Nat
    BY <1>0, SeqLen DEF Docs
  <2>1. /\ reading' \in {Bson!NotReading(0), Bson!NotReading(-1)} /\ docs' \in {docs, <<>>}
        /\ heap' \in {heap, heap - 1, heap - 1 - Len(docs)}
        /\ UNCHANGED <<val, vals, elems, bdoc, buf, written>>
    BY <1>7 DEF Bson!ReadEnd, Bson!values, Bson!buffer
  <2>2. reading' \in ReadState /\ reading'.at = "idle"
    BY <2>1 DEF ReadState, Bson!NotReading
  <2>3. heap' \in Int /\ Docs(docs')
    BY <1>0, <1>1, <2>0, <2>1
  <2> QED BY <1>0, <2>1, <2>2, <2>3, BsonBufferRest
<1> QED
  BY <1>2, <1>3, <1>4, <1>5, <1>6, <1>7 DEF Bson!BufferOps

\* All of them.
LEMMA BsonStep == ASSUME BsonInv, Bson!Next PROVE BsonInv'
  BY BsonValueStep, BsonDocStep, BsonBufferStep DEF Bson!Next

\* A read ends well only behind the last byte.
LEMMA BsonReads == ASSUME BsonInv, Bson!Next PROVE Bson!ReadsBack
<1> SUFFICES ASSUME reading.at = "reading", reading'.at = "idle", reading'.ret = 0
             PROVE  /\ Bson!IsPrefix(docs', written)
                    /\ Len(Bson!EncodeAll(docs')) = reading.limit
  BY DEF Bson!ReadsBack, Bson!Reading, Bson!Idle
<1>1. reading.at # "idle"
  OBVIOUS
<1>2. ~Bson!ValueOps /\ ~Bson!DocOps
  BY <1>1 DEF Bson!ValueOps, Bson!DocOps, Bson!Idle, Bson!bson_value_set_number, Bson!bson_value_set_str,
     Bson!bson_value_set_array, Bson!bson_value_set_doc, Bson!bson_value_get_array, Bson!bson_value_get_doc,
     Bson!bson_value_free, Bson!PutValue, Bson!FreeValues, Bson!SetVal, Bson!SetNested, Bson!Fails,
     Bson!bson_doc_create, Bson!bson_doc_get_elements, Bson!FreeElements, Bson!bson_doc_destroy,
     Bson!bson_to_json, Bson!FreeJson, Bson!PutDoc, Bson!DestroyDocs
<1>3. ~Bson!bson_write_to_buffer /\ ~Bson!FreeBuf /\ ~\E limit \in 0..Len(buf.of) : Bson!ReadBegin(limit)
  BY <1>1 DEF Bson!bson_write_to_buffer, Bson!FreeBuf, Bson!ReadBegin, Bson!Idle
<1>4. ~Bson!ReadDoc /\ ~Bson!ReadGrowFails
  <2>1. reading \in ReadState
    BY DEF BsonInv
  <2>2. ASSUME Bson!ReadDoc \/ Bson!ReadGrowFails PROVE reading'.at \in {reading.at, "crashed"}
    BY <2>1, <2>2 DEF ReadState, Bson!ReadDoc, Bson!ReadGrowFails
  <2> QED BY <2>2
<1>5. Bson!ReadEnd
  BY <1>2, <1>3, <1>4 DEF Bson!Next, Bson!BufferOps
<1>6. docs' = docs /\ reading.pos = reading.limit
  BY <1>5 DEF Bson!ReadEnd, Bson!AtEof, Bson!NotReading
<1>7. /\ Docs(docs) /\ Docs(written) /\ Len(docs) <= Len(written)
      /\ \A i \in 1..Len(docs) : docs[i] = written[i]
  BY DEF BsonInv, ReadAt
<1>8. Len(Bson!EncodeAll(docs')) = reading.limit
  BY <1>6 DEF BsonInv, ReadAt
<1>9. Bson!IsPrefix(docs', written)
  <2> DEFINE k == Len(docs)
  <2>1. k \in Nat /\ Len(written) \in Nat
    BY <1>7, SeqLen DEF Docs
  <2>2. /\ SubSeq(docs, 1, k) = [i \in 1..(k - 1 + 1) |-> docs[i + 1 - 1]]
        /\ SubSeq(written, 1, k) = [i \in 1..(k - 1 + 1) |-> written[i + 1 - 1]]
    BY <2>1
  <2> HIDE DEF k
  <2>3. \A i \in 1..(k - 1 + 1) : i + 1 - 1 \in 1..k
    BY <2>1
  <2>4. SubSeq(docs, 1, k) = SubSeq(written, 1, k)
    BY <1>7, <2>2, <2>3 DEF k
  <2> QED BY <1>6, <1>7, <2>4 DEF Bson!IsPrefix, k
<1> QED BY <1>8, <1>9

\* The blocks of each variable of the caller.
OfValues(s) == IF s = <<>> THEN 0 ELSE 1 + Bson!ValueBlocks(s)
OfElements(s) == IF s = <<>> THEN 0 ELSE 1 + Bson!ElementBlocks(s)
OfPointer(b, n) == IF b.is = "live" THEN n ELSE 0
OfDocs(s, at) == IF s = <<>> /\ at = "idle" THEN 0 ELSE 1 + 2 * Len(s)
OfJson(j) == IF j THEN 1 ELSE 0

\* They are what Reachable adds up.
LEMMA ReachableIs ==
    /\ Bson!Reachable = Bson!Blocks(val) + OfValues(vals) + OfElements(elems) + OfPointer(bdoc, 2)
                          + OfDocs(docs, reading.at) + OfPointer(buf, 1) + OfJson(json)
    /\ Bson!Reachable' = Bson!Blocks(val') + OfValues(vals') + OfElements(elems') + OfPointer(bdoc', 2)
                          + OfDocs(docs', reading'.at) + OfPointer(buf', 1) + OfJson(json')
  BY DEF Bson!Reachable, Bson!Idle, OfValues, OfElements, OfPointer, OfDocs, OfJson

\* Each is a number.
LEMMA OfNumbers ==
    /\ \A v : Bson!Blocks(v) \in Int
    /\ \A s : ASeq(s) => OfValues(s) \in Int /\ OfElements(s) \in Int
    /\ \A b : OfPointer(b, 2) \in Int /\ OfPointer(b, 1) \in Int
    /\ \A s, at : Docs(s) => OfDocs(s, at) \in Int
    /\ \A j : OfJson(j) \in Int
<1>1. \A s : ASeq(s) => OfValues(s) \in Int /\ OfElements(s) \in Int
  BY BlocksCounted DEF OfValues, OfElements
<1>2. \A s, at : Docs(s) => OfDocs(s, at) \in Int
  <2> SUFFICES ASSUME NEW s, NEW at, Docs(s) PROVE OfDocs(s, at) \in Int
    OBVIOUS
  <2>1. Len(s) \in Nat
    BY SeqLen DEF Docs
  <2> QED BY <2>1 DEF OfDocs
<1> QED BY <1>1, <1>2 DEF Bson!Blocks, OfPointer, OfJson

\* A step after which no more and no fewer blocks are out of reach.
Balanced == heap' - Bson!Reachable' = heap - Bson!Reachable

\* The blocks that a call allocates or frees are those by which its variables grow.
LEMMA Balance ==
    ASSUME heap \in Int, ASeq(vals), ASeq(elems), Docs(docs),
           ASeq(vals'), ASeq(elems'), Docs(docs'),
           heap' - heap = (Bson!Blocks(val') - Bson!Blocks(val)) + (OfValues(vals') - OfValues(vals))
                        + (OfElements(elems') - OfElements(elems)) + (OfPointer(bdoc', 2) - OfPointer(bdoc, 2))
                        + (OfDocs(docs', reading'.at) - OfDocs(docs, reading.at))
                        + (OfPointer(buf', 1) - OfPointer(buf, 1)) + (OfJson(json') - OfJson(json)),
           heap' \in Int
    PROVE  Balanced
<1> DEFINE a == Bson!Blocks(val)
           b == OfValues(vals)
           c == OfElements(elems)
           d == OfPointer(bdoc, 2)
           e == OfDocs(docs, reading.at)
           f == OfPointer(buf, 1)
           g == OfJson(json)
           a1 == Bson!Blocks(val')
           b1 == OfValues(vals')
           c1 == OfElements(elems')
           d1 == OfPointer(bdoc', 2)
           e1 == OfDocs(docs', reading'.at)
           f1 == OfPointer(buf', 1)
           g1 == OfJson(json')
<1>1. /\ a \in Int /\ b \in Int /\ c \in Int /\ d \in Int /\ e \in Int /\ f \in Int /\ g \in Int
      /\ a1 \in Int /\ b1 \in Int /\ c1 \in Int /\ d1 \in Int /\ e1 \in Int /\ f1 \in Int /\ g1 \in Int
  BY OfNumbers
<1>2. Bson!Reachable = a + b + c + d + e + f + g /\ Bson!Reachable' = a1 + b1 + c1 + d1 + e1 + f1 + g1
  BY ReachableIs
<1>3. heap' - heap = (a1 - a) + (b1 - b) + (c1 - c) + (d1 - d) + (e1 - e) + (f1 - f) + (g1 - g)
  OBVIOUS
<1> HIDE DEF a, b, c, d, e, f, g, a1, b1, c1, d1, e1, f1, g1
<1>4. heap' - (a1 + b1 + c1 + d1 + e1 + f1 + g1) = heap - (a + b + c + d + e + f + g)
  <2>1. heap \in Int /\ heap' \in Int
    OBVIOUS
  <2>2. PICK h, h1 \in Int : h = heap /\ h1 = heap'
    BY <2>1
  <2>3. h1 - h = (a1 - a) + (b1 - b) + (c1 - c) + (d1 - d) + (e1 - e) + (f1 - f) + (g1 - g)
    BY <1>3, <2>2
  <2>4. h1 - (a1 + b1 + c1 + d1 + e1 + f1 + g1) = h - (a + b + c + d + e + f + g)
    BY <1>1, <2>3
  <2> QED BY <2>2, <2>4
<1> QED BY <1>2, <1>4 DEF Balanced

\* The variables that stay account for nothing.
LEMMA ValueBalance ==
    ASSUME BsonInv, BsonInv', UNCHANGED <<elems, bdoc, docs, buf, json, reading>>,
           NEW n \in Int, heap' = heap + n,
           n = (Bson!Blocks(val') - Bson!Blocks(val)) + (OfValues(vals') - OfValues(vals))
    PROVE  Balanced
<1>1. /\ heap \in Int /\ heap' \in Int /\ ASeq(vals) /\ ASeq(elems) /\ Docs(docs)
      /\ ASeq(vals') /\ ASeq(elems') /\ Docs(docs')
  BY DEF BsonInv, ASeq, Docs
<1>2. heap' - heap = n
  BY <1>1
<1>3. /\ OfElements(elems') - OfElements(elems) = 0 /\ OfPointer(bdoc', 2) - OfPointer(bdoc, 2) = 0
      /\ OfDocs(docs', reading'.at) - OfDocs(docs, reading.at) = 0
      /\ OfPointer(buf', 1) - OfPointer(buf, 1) = 0 /\ OfJson(json') - OfJson(json) = 0
  BY <1>1, OfNumbers
<1>4. (Bson!Blocks(val') - Bson!Blocks(val)) + (OfValues(vals') - OfValues(vals)) \in Int
  BY <1>1, OfNumbers
<1> QED BY <1>1, <1>2, <1>3, <1>4, Balance

\* The same for the document, the documents, the buffer and the json string.
LEMMA OthersBalance ==
    ASSUME BsonInv, BsonInv', UNCHANGED <<val, vals, elems>>,
           NEW n \in Int, heap' = heap + n,
           n = (OfPointer(bdoc', 2) - OfPointer(bdoc, 2))
                 + (OfDocs(docs', reading'.at) - OfDocs(docs, reading.at))
                 + (OfPointer(buf', 1) - OfPointer(buf, 1)) + (OfJson(json') - OfJson(json))
    PROVE  Balanced
<1>1. /\ heap \in Int /\ heap' \in Int /\ ASeq(vals) /\ ASeq(elems) /\ Docs(docs)
      /\ ASeq(vals') /\ ASeq(elems') /\ Docs(docs')
  BY DEF BsonInv, ASeq, Docs
<1>2. heap' - heap = n
  BY <1>1
<1>3. /\ OfElements(elems') - OfElements(elems) = 0 /\ OfValues(vals') - OfValues(vals) = 0
      /\ Bson!Blocks(val') - Bson!Blocks(val) = 0
  BY <1>1, OfNumbers
<1>4. /\ OfPointer(bdoc', 2) - OfPointer(bdoc, 2) \in Int
      /\ OfDocs(docs', reading'.at) - OfDocs(docs, reading.at) \in Int
      /\ OfPointer(buf', 1) - OfPointer(buf, 1) \in Int /\ OfJson(json') - OfJson(json) \in Int
  BY <1>1, OfNumbers
<1> QED BY <1>1, <1>2, <1>3, <1>4, Balance

\* The same for the elements.
LEMMA ElementsBalance ==
    ASSUME BsonInv, BsonInv', UNCHANGED <<val, vals, bdoc, docs, buf, json, reading>>,
           NEW n \in Int, heap' = heap + n, n = OfElements(elems') - OfElements(elems)
    PROVE  Balanced
<1>1. /\ heap \in Int /\ heap' \in Int /\ ASeq(vals) /\ ASeq(elems) /\ Docs(docs)
      /\ ASeq(vals') /\ ASeq(elems') /\ Docs(docs')
  BY DEF BsonInv, ASeq, Docs
<1>2. heap' - heap = n
  BY <1>1
<1>3. /\ OfValues(vals') - OfValues(vals) = 0 /\ OfPointer(bdoc', 2) - OfPointer(bdoc, 2) = 0
      /\ OfDocs(docs', reading'.at) - OfDocs(docs, reading.at) = 0
      /\ OfPointer(buf', 1) - OfPointer(buf, 1) = 0 /\ OfJson(json') - OfJson(json) = 0
      /\ Bson!Blocks(val') - Bson!Blocks(val) = 0
  BY <1>1, OfNumbers
<1>4. OfElements(elems') - OfElements(elems) \in Int
  BY <1>1, OfNumbers
<1> QED BY <1>1, <1>2, <1>3, <1>4, Balance

\* What changes nothing is balanced.
LEMMA StaysBalanced == ASSUME UNCHANGED bson_vars PROVE Balanced
<1>1. Bson!Reachable' = Bson!Reachable
  BY DEF bson_vars, Bson!Reachable, Bson!Idle
<1> QED BY <1>1 DEF Balanced, bson_vars

\* So is a call that fails and frees what it allocated.
LEMMA FailsBalanced == ASSUME BsonInv, NEW n \in Int, Bson!Fails(n, n) PROVE Balanced
  BY FailsAlone, StaysBalanced

\* An empty array has no block.
LEMMA NoBlocks == ASSUME NEW s, s = <<>> PROVE Bson!ValueBlocks(s) = 0
<1> DEFINE A == {i \in 1..Len(s) : Bson!Owns(s[i])}
<1>1. A = {}
  <2>1. Len(s) = 0
    OBVIOUS
  <2>2. 1..Len(s) = {}
    BY <2>1
  <2> QED BY <2>2
<1> HIDE DEF A
<1>2. Cardinality(A) = 0
  BY <1>1, FS_EmptySet
<1> QED BY <1>2, SameCount DEF Bson!ValueBlocks, A

\* A value that is set owns what was allocated for it.
LEMMA SetsBalanced ==
    ASSUME BsonInv, BsonInv', NEW v, Bson!SetVal(v, Bson!Blocks(v))
    PROVE  Balanced
<1> DEFINE n == Bson!Blocks(v)
<1>1. /\ Bson!Blocks(val) = 0 /\ val' = v /\ heap' = heap + n
      /\ UNCHANGED <<vals, elems, bdoc, docs, buf, json, reading>>
  BY DEF Bson!SetVal, Bson!buffer
<1>2. n \in Int /\ OfValues(vals) \in Int /\ n = Bson!Blocks(val') - Bson!Blocks(val)
  BY <1>1, OfNumbers DEF BsonInv
<1>3. n = (Bson!Blocks(val') - Bson!Blocks(val)) + (OfValues(vals') - OfValues(vals))
  BY <1>1, <1>2
<1> HIDE DEF n
<1> QED BY <1>1, <1>2, <1>3, ValueBalance

\* The calls on a value.
LEMMA ValuesBalanced == ASSUME BsonInv, BsonInv', Bson!ValueOps PROVE Balanced
<1>0. /\ heap \in Int /\ ASeq(vals) /\ ASeq(elems) /\ ASeq(bdoc.of) /\ Docs(docs) /\ ASeq(vals')
  BY DEF BsonInv, ASeq
<1>1. OfValues(vals) \in Int /\ OfValues(vals') \in Int /\ Bson!Blocks(val) \in Int /\ Bson!Blocks(val') \in Int
  BY <1>0, OfNumbers
<1>2. ASSUME NEW x, NEW type \in NumberTypes, Bson!bson_value_set_number(type, x) PROVE Balanced
  <2>1. Bson!Blocks(Bson!Value(type, x, <<>>)) = 0
    BY BsonConstants DEF Bson!Blocks, Bson!Owns, Bson!Value
  <2> QED BY <1>2, <2>1, SetsBalanced DEF Bson!bson_value_set_number
<1>3. ASSUME NEW x, Bson!bson_value_set_str(x) PROVE Balanced
  <2>1. Bson!Blocks(Bson!Value("utf8", x, <<>>)) = 1
    BY DEF Bson!Blocks, Bson!Owns, Bson!Value
  <2> QED BY <1>3, <2>1, SetsBalanced DEF Bson!bson_value_set_str
<1>4. ASSUME NEW type \in {"array", "document"}, NEW d, Bson!SetNested(type, d) PROVE Balanced
  <2>1. Bson!Blocks(Bson!Value(type, Bson!NULL, Bson!Encode(d))) = 1
    BY DEF Bson!Blocks, Bson!Owns, Bson!Value
  <2> QED BY <1>4, <2>1, SetsBalanced DEF Bson!SetNested
<1>5. CASE Bson!bson_value_set_array \/ Bson!bson_value_set_doc
  <2>1. \/ Bson!SetNested("array", Bson!AsDoc(vals)) \/ Bson!SetNested("document", bdoc.of)
        \/ Bson!Fails(1, 1) \/ Bson!Fails(2, 2) \/ Bson!Fails(3, 3)
    BY <1>5 DEF Bson!bson_value_set_array, Bson!bson_value_set_doc
  <2> QED BY <1>4, <2>1, FailsBalanced
<1>6. CASE Bson!bson_value_get_array
  <2> DEFINE got == Bson!ValuesOf(Bson!Decode(val.data))
             n == IF got = <<>> THEN 0 ELSE 1 + Bson!ValueBlocks(got)
  <2>1. CASE Bson!Fails(0, 0)
    BY <2>1, FailsBalanced
  <2>2. ASSUME /\ vals = <<>> /\ vals' = got /\ heap' = heap + n
               /\ UNCHANGED <<val, elems, bdoc, docs, buf, json, reading>>
        PROVE  Balanced
    <3>1. n = OfValues(vals') /\ OfValues(vals) = 0
      BY <2>2 DEF OfValues
    <3> HIDE DEF n
    <3>2. n \in Int /\ n = (Bson!Blocks(val') - Bson!Blocks(val)) + (OfValues(vals') - OfValues(vals))
      BY <1>1, <2>2, <3>1
    <3> QED BY <2>2, <3>2, ValueBalance
  <2> QED BY <1>6, <2>1, <2>2 DEF Bson!bson_value_get_array, Bson!buffer
<1>7. CASE Bson!bson_value_get_doc
  <2>1. /\ bdoc.is # "live" /\ bdoc'.is = "live" /\ heap' = heap + 2
        /\ UNCHANGED <<val, vals, elems, docs, buf, json, reading>>
    BY <1>7 DEF Bson!bson_value_get_doc, Bson!Pointer, Bson!values, Bson!buffer
  <2>2. OfPointer(bdoc', 2) = 2 /\ OfPointer(bdoc, 2) = 0
    BY <2>1 DEF OfPointer
  <2>3. OfDocs(docs, reading.at) \in Int /\ OfPointer(buf, 1) \in Int /\ OfJson(json) \in Int
    BY <1>0, OfNumbers
  <2>4. 2 = (OfPointer(bdoc', 2) - OfPointer(bdoc, 2))
              + (OfDocs(docs', reading'.at) - OfDocs(docs, reading.at))
              + (OfPointer(buf', 1) - OfPointer(buf, 1)) + (OfJson(json') - OfJson(json))
    BY <2>1, <2>2, <2>3
  <2> QED BY <2>1, <2>4, OthersBalance
<1>8. CASE Bson!bson_value_free
  <2> DEFINE n == 0 - Bson!Blocks(val)
  <2>1. /\ val' = Bson!Unset /\ heap' = heap - Bson!Blocks(val)
        /\ UNCHANGED <<vals, elems, bdoc, docs, buf, json, reading>>
    BY <1>8 DEF Bson!bson_value_free, Bson!buffer
  <2>2. Bson!Blocks(val') = 0
    BY <2>1 DEF Bson!Blocks, Bson!Owns, Bson!Unset, Bson!Value
  <2>3. n \in Int /\ heap' = heap + n
    BY <1>0, <1>1, <2>1
  <2>4. n = (Bson!Blocks(val') - Bson!Blocks(val)) + (OfValues(vals') - OfValues(vals))
    BY <1>1, <2>1, <2>2
  <2> HIDE DEF n
  <2> QED BY <2>1, <2>3, <2>4, ValueBalance
<1>9. CASE Bson!PutValue
  <2> DEFINE n == IF vals = <<>> THEN 1 ELSE 0
  <2>1. /\ vals' = Append(vals, val) /\ val' = Bson!Unset /\ heap' = (IF vals = <<>> THEN heap + 1 ELSE heap)
        /\ UNCHANGED <<elems, bdoc, docs, buf, json, reading>>
    BY <1>9 DEF Bson!PutValue, Bson!buffer
  <2>2. Bson!Blocks(val') = 0
    BY <2>1 DEF Bson!Blocks, Bson!Owns, Bson!Unset, Bson!Value
  <2>3. n \in Int /\ heap' = heap + n
    BY <1>0, <2>1
  <2>4. vals' # <<>>
    <3>1. Len(vals') = Len(vals) + 1 /\ Len(vals) \in Nat
      BY <1>0, <2>1, SeqApp, SeqLen
    <3>2. Len(<<>>) = 0
      OBVIOUS
    <3> QED BY <3>1, <3>2
  <2>5. /\ Bson!ValueBlocks(vals') = Bson!ValueBlocks(vals) + Bson!Blocks(val)
        /\ Bson!ValueBlocks(vals) \in Nat
    BY <1>0, <2>1, BlocksAppended, BlocksCounted
  <2>6. OfValues(vals') = 1 + Bson!ValueBlocks(vals) + Bson!Blocks(val)
    BY <1>1, <2>4, <2>5 DEF OfValues
  <2>7. OfValues(vals) = 1 + Bson!ValueBlocks(vals) - n
    <3>1. CASE vals = <<>>
      <4>1. Bson!ValueBlocks(vals) = 0
        BY <3>1, NoBlocks
      <4> QED BY <3>1, <4>1 DEF OfValues
    <3>2. CASE vals # <<>>
      BY <2>5, <3>2 DEF OfValues
    <3> QED BY <3>1, <3>2
  <2> HIDE DEF n
  <2>8. n = (Bson!Blocks(val') - Bson!Blocks(val)) + (OfValues(vals') - OfValues(vals))
    BY <1>1, <2>2, <2>3, <2>5, <2>6, <2>7
  <2> QED BY <2>1, <2>3, <2>8, ValueBalance
<1>10. CASE Bson!FreeValues
  <2> DEFINE n == 0 - (1 + Bson!ValueBlocks(vals))
  <2>1. /\ vals # <<>> /\ vals' = <<>> /\ heap' = heap - 1 - Bson!ValueBlocks(vals)
        /\ UNCHANGED <<val, elems, bdoc, docs, buf, json, reading>>
    BY <1>10 DEF Bson!FreeValues, Bson!buffer
  <2>2. Bson!ValueBlocks(vals) \in Nat
    BY <1>0, BlocksCounted
  <2>3. n \in Int /\ heap' = heap + n
    BY <1>0, <2>1, <2>2
  <2>4. OfValues(vals') = 0 /\ OfValues(vals) = 1 + Bson!ValueBlocks(vals)
    BY <2>1 DEF OfValues
  <2>5. n = (Bson!Blocks(val') - Bson!Blocks(val)) + (OfValues(vals') - OfValues(vals))
    BY <1>1, <2>1, <2>2, <2>4
  <2> HIDE DEF n
  <2> QED BY <2>1, <2>3, <2>5, ValueBalance
<1> QED
  BY <1>2, <1>3, <1>5, <1>6, <1>7, <1>8, <1>9, <1>10 DEF Bson!ValueOps

\* The calls on a document, and the caller on its arrays.
LEMMA DocsBalanced == ASSUME BsonInv, BsonInv', Bson!DocOps PROVE Balanced
<1>0. /\ heap \in Int /\ ASeq(vals) /\ ASeq(elems) /\ ASeq(bdoc.of) /\ Docs(docs) /\ ASeq(elems')
  BY DEF BsonInv, ASeq
<1>1. /\ OfDocs(docs, reading.at) \in Int /\ OfPointer(buf, 1) \in Int /\ OfJson(json) \in Int
      /\ OfPointer(bdoc, 2) \in Int
  BY <1>0, OfNumbers
<1>2. ASSUME NEW n, Bson!bson_doc_create(n) PROVE Balanced
  <2> DEFINE m == IF bdoc'.is = "live" THEN 2 ELSE 0
  <2>1. /\ bdoc.is # "live" /\ heap' = heap + m
        /\ UNCHANGED <<val, vals, elems, docs, buf, json, reading>>
    BY <1>0, <1>2 DEF Bson!bson_doc_create, Bson!Pointer, Bson!values, Bson!buffer
  <2>2. m = OfPointer(bdoc', 2) /\ OfPointer(bdoc, 2) = 0
    BY <2>1 DEF OfPointer
  <2>3. m \in Int
    OBVIOUS
  <2> HIDE DEF m
  <2>4. m = (OfPointer(bdoc', 2) - OfPointer(bdoc, 2))
              + (OfDocs(docs', reading'.at) - OfDocs(docs, reading.at))
              + (OfPointer(buf', 1) - OfPointer(buf, 1)) + (OfJson(json') - OfJson(json))
    BY <1>1, <2>1, <2>2, <2>3
  <2> QED BY <2>1, <2>3, <2>4, OthersBalance
<1>3. CASE Bson!bson_doc_get_elements
  <2> DEFINE n == IF bdoc.of = <<>> THEN 0 ELSE 1 + Bson!ElementBlocks(bdoc.of)
  <2>1. CASE Bson!Fails(0, 0)
    BY <2>1, FailsBalanced
  <2>2. ASSUME /\ elems = <<>> /\ elems' = bdoc.of /\ heap' = heap + n
               /\ UNCHANGED <<val, vals, bdoc, docs, buf, json, reading>>
        PROVE  Balanced
    <3>1. n = OfElements(elems') /\ OfElements(elems) = 0
      BY <2>2 DEF OfElements
    <3>2. OfElements(elems') \in Int
      BY <1>0, OfNumbers
    <3> HIDE DEF n
    <3>3. n \in Int /\ n = OfElements(elems') - OfElements(elems)
      BY <3>1, <3>2
    <3> QED BY <2>2, <3>3, ElementsBalance
  <2> QED BY <1>3, <2>1, <2>2 DEF Bson!bson_doc_get_elements, Bson!buffer
<1>4. CASE Bson!FreeElements
  <2> DEFINE n == 0 - (1 + Bson!ElementBlocks(elems))
  <2>1. /\ elems # <<>> /\ elems' = <<>> /\ heap' = heap - 1 - Bson!ElementBlocks(elems)
        /\ UNCHANGED <<val, vals, bdoc, docs, buf, json, reading>>
    BY <1>4 DEF Bson!FreeElements, Bson!buffer
  <2>2. Bson!ElementBlocks(elems) \in Nat
    BY <1>0, BlocksCounted
  <2>3. n \in Int /\ heap' = heap + n
    BY <1>0, <2>1, <2>2
  <2>4. OfElements(elems') = 0 /\ OfElements(elems) = 1 + Bson!ElementBlocks(elems)
    BY <2>1 DEF OfElements
  <2>5. n = OfElements(elems') - OfElements(elems)
    BY <2>2, <2>4
  <2> HIDE DEF n
  <2> QED BY <2>1, <2>3, <2>5, ElementsBalance
<1>5. CASE Bson!bson_doc_destroy
  <2>1. /\ bdoc.is = "live" /\ bdoc'.is # "live" /\ heap' = heap - 2
        /\ UNCHANGED <<val, vals, elems, docs, buf, json, reading>>
    BY <1>5 DEF Bson!bson_doc_destroy, Bson!Pointer, Bson!NULL, Bson!values, Bson!buffer
  <2>2. OfPointer(bdoc, 2) = 2 /\ OfPointer(bdoc', 2) = 0
    BY <2>1 DEF OfPointer
  <2>3. -2 = (OfPointer(bdoc', 2) - OfPointer(bdoc, 2))
              + (OfDocs(docs', reading'.at) - OfDocs(docs, reading.at))
              + (OfPointer(buf', 1) - OfPointer(buf, 1)) + (OfJson(json') - OfJson(json))
    BY <1>1, <2>1, <2>2
  <2>4. heap' = heap + (-2)
    BY <1>0, <2>1
  <2> QED BY <2>1, <2>3, <2>4, OthersBalance
<1>6. CASE Bson!bson_to_json \/ Bson!FreeJson
  <2>1. CASE Bson!Fails(0, 0)
    BY <2>1, FailsBalanced
  <2>2. ASSUME NEW n \in Int, heap' = heap + n, n = OfJson(json') - OfJson(json),
               UNCHANGED <<val, vals, elems, bdoc, docs, buf, reading>>
        PROVE  Balanced
    <3>1. n = (OfPointer(bdoc', 2) - OfPointer(bdoc, 2))
                + (OfDocs(docs', reading'.at) - OfDocs(docs, reading.at))
                + (OfPointer(buf', 1) - OfPointer(buf, 1)) + (OfJson(json') - OfJson(json))
      BY <1>1, <2>2
    <3> QED BY <2>2, <3>1, OthersBalance
  <2>3. ASSUME OfJson(json) = 1, OfJson(json') = 0, heap' = heap - 1,
               UNCHANGED <<val, vals, elems, bdoc, docs, buf, reading>>
        PROVE  Balanced
    <3>1. heap' = heap + (-1) /\ -1 = OfJson(json') - OfJson(json)
      BY <1>0, <2>3
    <3> QED BY <2>2, <2>3, <3>1
  <2>4. ASSUME OfJson(json) = 0, OfJson(json') = 1, heap' = heap + 1,
               UNCHANGED <<val, vals, elems, bdoc, docs, buf, reading>>
        PROVE  Balanced
    <3>1. 1 = OfJson(json') - OfJson(json)
      BY <2>4
    <3> QED BY <2>2, <2>4, <3>1
  <2>5. CASE Bson!FreeJson
    <3>1. OfJson(json) = 1 /\ OfJson(json') = 0
      BY <2>5, Zenon DEF Bson!FreeJson, OfJson
    <3> QED BY <2>3, <2>5, <3>1 DEF Bson!FreeJson, Bson!values, Bson!buffer
  <2>6. CASE Bson!bson_to_json /\ ~Bson!Fails(0, 0)
    <3>1. OfJson(json) = 0 /\ OfJson(json') = 1
      BY <2>6, Zenon DEF Bson!bson_to_json, OfJson
    <3> QED BY <2>4, <2>6, <3>1 DEF Bson!bson_to_json, Bson!values, Bson!buffer
  <2> QED BY <1>6, <2>1, <2>5, <2>6
<1>7. CASE Bson!PutDoc
  <2> DEFINE n == IF docs = <<>> THEN 1 ELSE 0
  <2>1. /\ reading.at = "idle" /\ bdoc.is = "live" /\ bdoc'.is # "live" /\ docs' = Append(docs, bdoc.of)
        /\ heap' = (IF docs = <<>> THEN heap + 1 ELSE heap)
        /\ UNCHANGED <<val, vals, elems, buf, json, reading>>
    BY <1>7 DEF Bson!PutDoc, Bson!Idle, Bson!Pointer, Bson!NULL, Bson!values, Bson!buffer
  <2>2. n \in Int /\ heap' = heap + n
    BY <1>0, <2>1
  <2>3. Len(docs') = Len(docs) + 1 /\ Len(docs) \in Nat
    BY <1>0, <2>1, SeqApp, SeqLen DEF Docs
  <2>4. docs = <<>> => Len(docs) = 0
    OBVIOUS
  <2>5. docs' # <<>>
    <3>1. Len(<<>>) = 0
      OBVIOUS
    <3> QED BY <2>3, <3>1
  <2>6. OfDocs(docs', reading'.at) = 1 + 2 * (Len(docs) + 1) /\ OfDocs(docs, reading.at) = 1 + 2 * Len(docs) - n
    BY <2>1, <2>3, <2>4, <2>5 DEF OfDocs
  <2>7. OfPointer(bdoc, 2) = 2 /\ OfPointer(bdoc', 2) = 0
    BY <2>1 DEF OfPointer
  <2> HIDE DEF n
  <2>8. n = (OfPointer(bdoc', 2) - OfPointer(bdoc, 2))
              + (OfDocs(docs', reading'.at) - OfDocs(docs, reading.at))
              + (OfPointer(buf', 1) - OfPointer(buf, 1)) + (OfJson(json') - OfJson(json))
    BY <1>1, <2>1, <2>2, <2>3, <2>6, <2>7
  <2> QED BY <2>1, <2>2, <2>8, OthersBalance
<1>8. CASE Bson!DestroyDocs
  <2> DEFINE n == 0 - (1 + 2 * Len(docs))
  <2>1. /\ reading.at = "idle" /\ docs # <<>> /\ docs' = <<>> /\ heap' = heap - 1 - 2 * Len(docs)
        /\ UNCHANGED <<val, vals, elems, bdoc, buf, json, reading>>
    BY <1>8 DEF Bson!DestroyDocs, Bson!Idle, Bson!values, Bson!buffer
  <2>2. Len(docs) \in Nat
    BY <1>0, SeqLen DEF Docs
  <2>3. n \in Int /\ heap' = heap + n
    BY <1>0, <2>1, <2>2
  <2>4. OfDocs(docs', reading'.at) = 0 /\ OfDocs(docs, reading.at) = 1 + 2 * Len(docs)
    BY <2>1 DEF OfDocs
  <2>5. n = (OfPointer(bdoc', 2) - OfPointer(bdoc, 2))
              + (OfDocs(docs', reading'.at) - OfDocs(docs, reading.at))
              + (OfPointer(buf', 1) - OfPointer(buf, 1)) + (OfJson(json') - OfJson(json))
    BY <1>1, <2>1, <2>2, <2>4
  <2> HIDE DEF n
  <2> QED BY <2>1, <2>3, <2>5, OthersBalance
<1> QED
  BY <1>2, <1>3, <1>4, <1>5, <1>6, <1>7, <1>8 DEF Bson!DocOps

\* The buffer's, and each step of a read but the end of one that fails with
\* documents read.
LEMMA BufferBalanced ==
    ASSUME BsonInv, BsonInv', Bson!BufferOps, ~(Bson!Reading /\ reading'.ret < 0 /\ docs # <<>>)
    PROVE  Balanced
<1>0. /\ heap \in Int /\ Docs(docs) /\ Docs(docs') /\ reading \in ReadState /\ reading' \in ReadState
  BY DEF BsonInv, Docs, ASeq, ReadState
<1>1. /\ OfDocs(docs, reading.at) \in Int /\ OfPointer(buf, 1) \in Int /\ OfJson(json) \in Int
      /\ OfPointer(bdoc, 2) \in Int
  BY <1>0, OfNumbers
<1>2. Len(docs) \in Nat /\ (docs = <<>> => Len(docs) = 0)
  BY <1>0, SeqLen DEF Docs
<1>3. CASE Bson!bson_write_to_buffer
  <2>1. CASE Bson!Fails(1, 1)
    BY <2>1, FailsBalanced
  <2>2. ASSUME buf.is # "live", buf'.is = "live", heap' = heap + 1,
               UNCHANGED <<val, vals, elems, bdoc, docs, json, reading>>
        PROVE  Balanced
    <3>1. OfPointer(buf, 1) = 0 /\ OfPointer(buf', 1) = 1
      BY <2>2 DEF OfPointer
    <3>2. 1 = (OfPointer(bdoc', 2) - OfPointer(bdoc, 2))
                + (OfDocs(docs', reading'.at) - OfDocs(docs, reading.at))
                + (OfPointer(buf', 1) - OfPointer(buf, 1)) + (OfJson(json') - OfJson(json))
      BY <1>1, <2>2, <3>1
    <3> QED BY <2>2, <3>2, OthersBalance
  <2> QED BY <1>3, <2>1, <2>2 DEF Bson!bson_write_to_buffer, Bson!Pointer, Bson!NULL, Bson!values
<1>4. CASE Bson!FreeBuf
  <2>1. /\ buf.is = "live" /\ buf'.is # "live" /\ heap' = heap - 1
        /\ UNCHANGED <<val, vals, elems, bdoc, docs, json, reading>>
    BY <1>4 DEF Bson!FreeBuf, Bson!Pointer, Bson!NULL, Bson!values
  <2>2. OfPointer(buf, 1) = 1 /\ OfPointer(buf', 1) = 0
    BY <2>1 DEF OfPointer
  <2>3. -1 = (OfPointer(bdoc', 2) - OfPointer(bdoc, 2))
              + (OfDocs(docs', reading'.at) - OfDocs(docs, reading.at))
              + (OfPointer(buf', 1) - OfPointer(buf, 1)) + (OfJson(json') - OfJson(json))
    BY <1>1, <2>1, <2>2
  <2>4. heap' = heap + (-1)
    BY <1>0, <2>1
  <2> QED BY <2>1, <2>3, <2>4, OthersBalance
\* The rest change the documents and the read alone.
<1>5. ASSUME NEW n \in Int, heap' = heap + n, UNCHANGED <<val, vals, elems, bdoc, buf, json>>,
             n = OfDocs(docs', reading'.at) - OfDocs(docs, reading.at)
      PROVE  Balanced
  <2>1. n = (OfPointer(bdoc', 2) - OfPointer(bdoc, 2))
              + (OfDocs(docs', reading'.at) - OfDocs(docs, reading.at))
              + (OfPointer(buf', 1) - OfPointer(buf, 1)) + (OfJson(json') - OfJson(json))
    BY <1>1, <1>5
  <2> QED BY <1>5, <2>1, OthersBalance
<1>6. ASSUME NEW limit, Bson!ReadBegin(limit) PROVE Balanced
  <2>1. CASE Bson!Fails(0, 0)
    BY <2>1, FailsBalanced
  <2>2. ASSUME reading.at = "idle", docs = <<>>, reading'.at = "reading", heap' = heap + 1,
               UNCHANGED <<val, vals, elems, bdoc, docs, buf, json>>
        PROVE  Balanced
    <3>1. OfDocs(docs, reading.at) = 0 /\ OfDocs(docs', reading'.at) = 1
      BY <1>2, <2>2 DEF OfDocs
    <3> QED BY <1>5, <2>2, <3>1
  <2> QED BY <1>6, <2>1, <2>2 DEF Bson!ReadBegin, Bson!Idle, Bson!values, Bson!buffer
<1>7. CASE Bson!ReadDoc
  <2> DEFINE d == Bson!Decode(SubSeq(buf.of, reading.pos + 1, reading.limit))
  <2>1. /\ reading.at = "reading" /\ reading'.at = "reading" /\ docs' = Append(docs, d) /\ heap' = heap + 2
        /\ UNCHANGED <<val, vals, elems, bdoc, buf, json>>
    BY <1>0, <1>7 DEF Bson!ReadDoc, Bson!Reading, Bson!values, Bson!buffer, ReadState
  <2>2. Len(docs') = Len(docs) + 1
    BY <1>0, <2>1, SeqApp DEF Docs
  <2>3. OfDocs(docs, reading.at) = 1 + 2 * Len(docs) /\ OfDocs(docs', reading'.at) = 1 + 2 * (Len(docs) + 1)
    BY <2>1, <2>2 DEF OfDocs
  <2>4. 2 = OfDocs(docs', reading'.at) - OfDocs(docs, reading.at)
    BY <1>2, <2>3
  <2> QED BY <1>5, <2>1, <2>4
<1>8. CASE Bson!ReadGrowFails
  <2>1. /\ reading.at = "reading" /\ reading'.at = "crashed"
        /\ UNCHANGED <<val, vals, elems, bdoc, docs, buf, json, heap>>
    BY <1>0, <1>8 DEF Bson!ReadGrowFails, Bson!Reading, Bson!values, Bson!buffer, ReadState
  <2>2. OfDocs(docs', reading'.at) = OfDocs(docs, reading.at)
    BY <2>1 DEF OfDocs
  <2>3. 0 = OfDocs(docs', reading'.at) - OfDocs(docs, reading.at) /\ heap' = heap + 0
    BY <1>0, <1>1, <2>1, <2>2
  <2> QED BY <1>5, <2>1, <2>3
<1>9. CASE Bson!ReadEnd
  <2>1. /\ reading.at = "reading" /\ reading'.at = "idle" /\ UNCHANGED <<val, vals, elems, bdoc, buf, json>>
    BY <1>9 DEF Bson!ReadEnd, Bson!Reading, Bson!NotReading, Bson!values, Bson!buffer
  <2>2. OfDocs(docs, reading.at) = 1 + 2 * Len(docs)
    BY <2>1 DEF OfDocs
  <2>3. CASE docs = <<>>
    <3>1. docs' = <<>> /\ heap' = heap + (-1)
      BY <1>0, <1>2, <1>9, <2>3 DEF Bson!ReadEnd
    <3>2. OfDocs(docs', reading'.at) = 0
      BY <2>1, <3>1 DEF OfDocs
    <3>3. -1 = OfDocs(docs', reading'.at) - OfDocs(docs, reading.at)
      BY <1>2, <2>2, <2>3, <3>2
    <3> QED BY <1>5, <2>1, <3>1, <3>3
  <2>4. CASE docs # <<>>
    <3>1. ~(reading'.ret < 0)
      BY <2>1, <2>4 DEF Bson!Reading
    <3>2. docs' = docs /\ heap' = heap + 0
      BY <1>0, <1>9, <2>4, <3>1 DEF Bson!ReadEnd, Bson!NotReading
    <3>3. OfDocs(docs', reading'.at) = OfDocs(docs, reading.at)
      BY <2>4, <3>2 DEF OfDocs
    <3>4. 0 = OfDocs(docs', reading'.at) - OfDocs(docs, reading.at)
      BY <1>1, <3>3
    <3> QED BY <1>5, <2>1, <3>2, <3>4
  <2> QED BY <2>3, <2>4
<1> QED
  BY <1>3, <1>4, <1>6, <1>7, <1>8, <1>9 DEF Bson!BufferOps

\* Hence no step loses a block, but for the one read.
LEMMA BsonKeeps == ASSUME BsonInv, Bson!Next PROVE Bson!NothingLost
<1>1. BsonInv'
  BY BsonStep
<1>2. Balanced \/ (Bson!Reading /\ reading'.ret < 0 /\ docs # <<>>)
  BY <1>1, ValuesBalanced, DocsBalanced, BufferBalanced DEF Bson!Next
<1> QED BY <1>2 DEF Balanced, Bson!NothingLost

\* Only the program that uses the library moves its variables.
LEMMA BsonAlone == ASSUME [Next]_vars PROVE Bson!Next \/ UNCHANGED bson_vars
  BY DEF Next, InBson, InMongo, InIcap, vars

\* The invariant holds throughout.
LEMMA BsonAlways == Spec => []BsonInv
<1>1. Init => BsonInv
  BY BsonStarts DEF Init
<1>2. BsonInv /\ [Next]_vars => BsonInv'
  BY BsonAlone, BsonStep, BsonStays
<1> QED BY <1>1, <1>2, PTL DEF Spec

\* bson_read_from_buffer: a read that succeeds gives back the documents that
\* bson_write_to_buffer wrote, as many as make up exactly the bytes offered,
\* for any documents and a buffer cut anywhere.
THEOREM BsonReadsWritten == Spec => BsonReadsBack
<1>1. BsonInv /\ [Next]_vars => [Bson!ReadsBack]_bson_vars
  BY BsonAlone, BsonReads
<1> QED BY <1>1, BsonAlways, PTL DEF Spec, BsonReadsBack

\* bson_api.c: whatever succeeds and whatever fails, no call loses a block or
\* frees one twice, but for a read that fails with documents already read.
THEOREM BsonLosesNothing == Spec => BsonNothingLost
<1>1. BsonInv /\ [Next]_vars => [Bson!NothingLost]_bson_vars
  BY BsonAlone, BsonKeeps
<1> QED BY <1>1, BsonAlways, PTL DEF Spec, BsonNothingLost

==============================================================================
