-------------------------- MODULE ConnMgrPartsProofs -------------------------
(***************************************************************************)
(* Proofs about the two parts of conn_mgr below the pool.  For any heap    *)
(* and any data, after any sequence of pushes at either end and pops, the  *)
(* items of the queue form one list from head to tail, and the list        *)
(* implements the sequence of Deque (ConnMgrQueue); for any callers and    *)
(* any timeout, conn_mgr_conn_new keeps its socket in step with what it    *)
(* returns (ConnMgrConn).                                                  *)
(***************************************************************************)
EXTENDS MCConnMgrParts, Integers, FiniteSetTheorems, FunctionTheorems, SequenceTheorems,
        NaturalsInduction, WellFoundedInduction, TLAPS

\* The invariant, without the bound TLC needs.
Shape == \E s \in Seq(Items) : Lists(s)

\* Every step writes items and data where items and data belong.
LEMMA StepTyped == TypeOK /\ [Next]_vars => TypeOK'
<1> SUFFICES ASSUME TypeOK, [Next]_vars PROVE TypeOK'
  OBVIOUS
<1> USE DEF TypeOK
<1>1. CASE PushNoMemory
  BY <1>1 DEF PushNoMemory
<1>2. ASSUME NEW d \in Data, PushHead(d) PROVE TypeOK'
  BY <1>2 DEF PushHead
<1>3. ASSUME NEW d \in Data, PushTail(d) PROVE TypeOK'
  BY <1>3 DEF PushTail
<1>4. CASE PopHead
  BY <1>4 DEF PopHead
<1>5. CASE UNCHANGED vars
  BY <1>5 DEF vars
<1> QED
  BY <1>1, <1>2, <1>3, <1>4, <1>5 DEF Next

\* Lists, for a list of n items, without DOMAIN and Len.
Chain(n, s) ==
    /\ \A k \in 1..n : s[k] \in live
    /\ \A x \in live : \E k \in 1..n : s[k] = x
    /\ \A j, k \in 1..n : s[j] = s[k] => j = k
    /\ \A k \in 1..n : k < n => next[s[k]] = s[k + 1]
    /\ n = 0 => head = NULL /\ tail = NULL
    /\ n > 0 => head = s[1] /\ tail = s[n] /\ next[tail] = NULL

LEMMA ListsChain == \A s \in Seq(Items) : Lists(s) <=> Chain(Len(s), s)
<1> TAKE s \in Seq(Items)
<1>1. Len(s) \in Nat /\ DOMAIN s = 1..Len(s)
  OBVIOUS
<1>2. ({s[k] : k \in DOMAIN s} = live) <=>
        (\A k \in 1..Len(s) : s[k] \in live) /\ (\A x \in live : \E k \in 1..Len(s) : s[k] = x)
  BY <1>1
<1>3. (\A k \in 1..Len(s) - 1 : next[s[k]] = s[k + 1]) <=>
        (\A k \in 1..Len(s) : k < Len(s) => next[s[k]] = s[k + 1])
  BY <1>1
<1> QED
  BY <1>1, <1>2, <1>3 DEF Lists, Chain

LEMMA ListsChainNext == \A s \in Seq(Items) : Lists(s)' <=> Chain(Len(s), s)'
<1>1. (\A s \in Seq(Items) : Lists(s) <=> Chain(Len(s), s))'
  BY ListsChain, PTL
<1> QED
  BY <1>1

\* A list of n items is a sequence of length n.
LEMMA ChainShape ==
    ASSUME NEW r \in Seq(Items), Chain(Len(r), r)' PROVE Shape'
<1>2. Lists(r)'
  BY ListsChainNext
<1> QED
  BY <1>2 DEF Shape

\* A new item in front of the list.
LEMMA PushHeadChain ==
    ASSUME TypeOK, NEW d \in Data, PushHead(d),
           NEW s \in Seq(Items), Chain(Len(s), s)
    PROVE  \E item \in Items \ live : \E r \in Seq(Items) :
               /\ r = <<item>> \o s /\ Chain(Len(r), r)'
               /\ data' = [data EXCEPT ![item] = d] /\ popped' = NULL
<1>1. PICK item \in Items \ live :
        /\ live' = live \cup {item}
        /\ next' = [next EXCEPT ![item] = head]
        /\ head' = item
        /\ tail' = IF tail = NULL THEN item ELSE tail
        /\ data' = [data EXCEPT ![item] = d] /\ popped' = NULL
  BY DEF PushHead
<1> DEFINE n == Len(s)
<1> DEFINE r == <<item>> \o s
<1>2. /\ n \in Nat /\ r \in Seq(Items) /\ Len(r) = n + 1 /\ r[1] = item
      /\ \A k \in 1..n : r[k + 1] = s[k] /\ s[k] \in Items
  OBVIOUS
<1>3. Chain(n, s)
  OBVIOUS
<1> HIDE DEF n, r
<1> USE DEF Chain
<1>4. \A k \in 1..n + 1 : k = 1 \/ (k - 1 \in 1..n /\ r[k] = s[k - 1])
  <2> TAKE k \in 1..n + 1
  <2>1. k # 1 => k - 1 \in 1..n /\ (k - 1) + 1 = k
    BY <1>2
  <2> QED BY <1>2, <2>1
<1>5. \A k \in 1..n : s[k] \in live /\ s[k] # item
  BY <1>1, <1>3
<1>6. \A k \in 1..n + 1 : r[k] \in live'
  BY <1>1, <1>2, <1>4, <1>5, ZenonT(60)
<1>7. \A x \in live' : \E k \in 1..n + 1 : r[k] = x
  <2> TAKE x \in live'
  <2>1. CASE x = item
    BY <1>2, <2>1
  <2>2. CASE x \in live
    <3>1. PICK k \in 1..n : s[k] = x
      BY <1>3, <2>2
    <3>2. k + 1 \in 1..n + 1 /\ r[k + 1] = x
      BY <1>2, <3>1
    <3> QED BY <3>2
  <2> QED BY <1>1, <2>1, <2>2
<1>8. \A j, k \in 1..n + 1 : r[j] = r[k] => j = k
  <2> TAKE j \in 1..n + 1, k \in 1..n + 1
  <2> HAVE r[j] = r[k]
  <2>1. CASE j = 1 /\ k = 1
    BY <2>1
  <2>2. CASE j # 1 /\ k # 1
    <3>1. j - 1 = k - 1
      BY <1>3, <1>4, <2>2
    <3> QED BY <1>2, <3>1
  <2>3. CASE j = 1 /\ k # 1
    BY <1>2, <1>4, <1>5, <2>3
  <2>4. CASE j # 1 /\ k = 1
    BY <1>2, <1>4, <1>5, <2>4
  <2> QED BY <2>1, <2>2, <2>3, <2>4
<1>9. next'[item] = head /\ \A k \in 1..n : next'[s[k]] = next[s[k]]
  BY <1>1, <1>2, <1>5 DEF TypeOK
<1>10. \A k \in 1..n + 1 : k < n + 1 => next'[r[k]] = r[k + 1]
  <2> TAKE k \in 1..n + 1
  <2> HAVE k < n + 1
  <2>1. CASE k = 1
    BY <1>2, <1>3, <1>9, <2>1
  <2>2. CASE k # 1
    <3>1. k - 1 \in 1..n /\ k - 1 < n /\ r[k] = s[k - 1] /\ (k - 1) + 1 = k /\ k \in 1..n
      BY <1>2, <1>4, <2>2
    <3>2. next[s[k - 1]] = s[k]
      BY <1>3, <3>1
    <3> QED BY <1>2, <1>9, <3>1, <3>2, SMTT(30)
  <2> QED BY <2>1, <2>2
<1>11. head' = r[1] /\ tail' = r[n + 1] /\ next'[tail'] = NULL
  <2>1. CASE n = 0
    BY <1>1, <1>2, <1>3, <1>9, <2>1
  <2>2. CASE n # 0
    <3>1. n \in 1..n /\ tail = s[n] /\ s[n] # NULL /\ r[n + 1] = s[n] /\ next[s[n]] = NULL
      BY <1>2, <1>3, <2>2, QueueConstants
    <3> QED BY <1>1, <1>2, <1>9, <3>1
  <2> QED BY <2>1, <2>2
<1>12. Chain(Len(r), r)'
  BY <1>2, <1>6, <1>7, <1>8, <1>10, <1>11
<1> HIDE DEF Chain
<1> QED
  BY <1>1, <1>2, <1>12, Zenon DEF r

\* A new item behind the list.
LEMMA PushTailChain ==
    ASSUME TypeOK, NEW d \in Data, PushTail(d),
           NEW s \in Seq(Items), Chain(Len(s), s)
    PROVE  \E item \in Items \ live : \E r \in Seq(Items) :
               /\ r = Append(s, item) /\ Chain(Len(r), r)'
               /\ data' = [data EXCEPT ![item] = d] /\ popped' = NULL
<1>1. PICK item \in Items \ live :
        /\ live' = live \cup {item}
        /\ next' = IF tail # NULL THEN [next EXCEPT ![item] = NULL, ![tail] = item]
                                  ELSE [next EXCEPT ![item] = NULL]
        /\ head' = IF tail # NULL THEN head ELSE item
        /\ tail' = item
        /\ data' = [data EXCEPT ![item] = d] /\ popped' = NULL
  BY DEF PushTail
<1> DEFINE n == Len(s)
<1> DEFINE r == Append(s, item)
<1>2. /\ n \in Nat /\ r \in Seq(Items) /\ Len(r) = n + 1 /\ r[n + 1] = item
      /\ \A k \in 1..n : r[k] = s[k] /\ s[k] \in Items
  OBVIOUS
<1>3. Chain(n, s)
  OBVIOUS
<1> HIDE DEF n, r
<1> USE DEF Chain
<1>4. \A k \in 1..n + 1 : k = n + 1 \/ k \in 1..n
  BY <1>2
<1>5. \A k \in 1..n : s[k] \in live /\ s[k] # item
  BY <1>1, <1>3
<1>6. \A k \in 1..n + 1 : r[k] \in live'
  BY <1>1, <1>2, <1>4, <1>5
<1>7. \A x \in live' : \E k \in 1..n + 1 : r[k] = x
  <2> TAKE x \in live'
  <2>1. CASE x = item
    BY <1>2, <2>1
  <2>2. CASE x \in live
    <3>1. PICK k \in 1..n : s[k] = x
      BY <1>3, <2>2
    <3>2. k \in 1..n + 1 /\ r[k] = x
      BY <1>2, <3>1
    <3> QED BY <3>2
  <2> QED BY <1>1, <2>1, <2>2
<1>8. \A j, k \in 1..n + 1 : r[j] = r[k] => j = k
  BY <1>2, <1>3, <1>4, <1>5, SMTT(30)
<1>9. (tail # NULL) <=> n > 0
  BY <1>2, <1>3, QueueConstants
<1>10. next'[item] = NULL /\ \A k \in 1..n : k < n => next'[s[k]] = next[s[k]]
  <2>1. CASE n = 0
    BY <1>1, <1>9, <2>1 DEF TypeOK
  <2>2. CASE n > 0
    <3>1. tail = s[n] /\ n \in 1..n /\ tail # NULL
      BY <1>2, <1>3, <1>9, <2>2
    <3>2. next' = [next EXCEPT ![item] = NULL, ![tail] = item] /\ tail # item
      BY <1>1, <1>5, <3>1
    <3>3. \A k \in 1..n : k < n => s[k] # tail
      BY <1>2, <1>3, <3>1
    <3> QED BY <1>2, <1>5, <3>2, <3>3 DEF TypeOK
  <2> QED BY <1>2, <2>1, <2>2
<1>11. n > 0 => next'[s[n]] = item
  <2> SUFFICES ASSUME n > 0 PROVE next'[s[n]] = item
    OBVIOUS
  <2>1. tail = s[n] /\ n \in 1..n /\ tail # NULL /\ tail \in Items
    BY <1>2, <1>3, <1>9
  <2> QED BY <1>1, <2>1 DEF TypeOK
<1>12. \A k \in 1..n + 1 : k < n + 1 => next'[r[k]] = r[k + 1]
  <2> TAKE k \in 1..n + 1
  <2> HAVE k < n + 1
  <2>1. k \in 1..n /\ r[k] = s[k]
    BY <1>2
  <2>2. CASE k = n
    BY <1>2, <1>11, <2>1, <2>2
  <2>3. CASE k # n
    <3>1. k < n /\ k + 1 \in 1..n
      BY <1>2, <2>1, <2>3
    <3> QED BY <1>2, <1>3, <1>10, <2>1, <3>1
  <2> QED BY <2>2, <2>3
<1>13. head' = r[1] /\ tail' = r[n + 1] /\ next'[tail'] = NULL
  <2>1. CASE n = 0
    BY <1>1, <1>2, <1>9, <1>10, <2>1
  <2>2. CASE n # 0
    <3>1. 1 \in 1..n /\ n > 0
      BY <1>2, <2>2
    <3> QED BY <1>1, <1>2, <1>3, <1>9, <1>10, <3>1
  <2> QED BY <2>1, <2>2
<1>14. Chain(Len(r), r)'
  BY <1>2, <1>6, <1>7, <1>8, <1>12, <1>13
<1> HIDE DEF Chain
<1> QED
  BY <1>1, <1>2, <1>14, Zenon DEF r

\* The list without its first item.
LEMMA PopHeadChain ==
    ASSUME TypeOK, PopHead, NEW s \in Seq(Items), Chain(Len(s), s)
    PROVE  IF s = <<>> THEN Chain(Len(s), s)' /\ popped' = NULL /\ data' = data
           ELSE Tail(s) \in Seq(Items) /\ Chain(Len(Tail(s)), Tail(s))' /\ popped' = data[s[1]] /\ data' = data
<1>1. CASE head = NULL
  <2>1. UNCHANGED <<head, tail, next, live, data>> /\ popped' = NULL
    BY <1>1 DEF PopHead
  <2>2. Chain(Len(s), s)'
    BY <2>1 DEF Chain
  <2>3. s = <<>>
    <3>1. Len(s) \in Nat /\ (Len(s) > 0 => 1 \in 1..Len(s) /\ s[1] \in Items)
      OBVIOUS
    <3>2. ~(Len(s) > 0)
      BY <1>1, <3>1, QueueConstants DEF Chain
    <3> QED
      BY <3>1, <3>2
  <2> QED BY <2>1, <2>2, <2>3
<1>2. CASE head # NULL
  <2> DEFINE n == Len(s)
  <2> DEFINE r == Tail(s)
  <2>1. n \in Nat /\ n > 0
    BY <1>2 DEF Chain
  <2>2. /\ r \in Seq(Items) /\ Len(r) = n - 1
        /\ \A k \in 1..n - 1 : k + 1 \in 1..n /\ r[k] = s[k + 1]
    BY <2>1
  <2>21. s # <<>> /\ r = Tail(s)
    BY <2>1
  <2>3. Chain(n, s) /\ 1 \in 1..n /\ n \in 1..n
    BY <2>1
  <2>4. /\ head' = next[head] /\ next' = next /\ live' = live \ {head}
        /\ tail' = IF next[head] = NULL THEN NULL ELSE tail
        /\ popped' = data[head] /\ data' = data
    BY <1>2 DEF PopHead
  <2>5. \A k \in 1..n : s[k] \in Items
    OBVIOUS
  <2> HIDE DEF n, r
  <2> USE DEF Chain
  <2>6. head = s[1] /\ \A k \in 1..n : k # 1 => s[k] # head
    BY <2>1, <2>3
  <2>7. \A k \in 1..n - 1 : r[k] \in live'
    <3> TAKE k \in 1..n - 1
    <3>1. k + 1 \in 1..n /\ k + 1 # 1 /\ r[k] = s[k + 1]
      BY <2>1, <2>2
    <3> QED BY <2>3, <2>4, <2>6, <3>1
  <2>8. \A x \in live' : \E k \in 1..n - 1 : r[k] = x
    <3> TAKE x \in live'
    <3>1. PICK k \in 1..n : s[k] = x
      BY <2>3, <2>4
    <3>2. k # 1
      BY <2>4, <2>6, <3>1
    <3>3. k - 1 \in 1..n - 1 /\ (k - 1) + 1 = k
      BY <2>1, <3>2
    <3>4. r[k - 1] = x
      BY <2>2, <3>1, <3>3
    <3> QED BY <3>3, <3>4
  <2>9. \A j, k \in 1..n - 1 : r[j] = r[k] => j = k
    <3> TAKE j \in 1..n - 1, k \in 1..n - 1
    <3> HAVE r[j] = r[k]
    <3>1. /\ j + 1 \in 1..n /\ r[j] = s[j + 1]
          /\ k + 1 \in 1..n /\ r[k] = s[k + 1]
      BY <2>2
    <3>2. s[j + 1] = s[k + 1]
      BY <3>1
    <3>3. \A a, b \in 1..n : s[a] = s[b] => a = b
      BY <2>3
    <3>4. j + 1 = k + 1
      <4> HIDE DEF Chain
      <4> QED BY <3>1, <3>2, <3>3
    <3> QED BY <2>1, <3>4
  <2>10. \A k \in 1..n - 1 : k < n - 1 => next'[r[k]] = r[k + 1]
    <3> TAKE k \in 1..n - 1
    <3> HAVE k < n - 1
    <3>1. k + 1 \in 1..n /\ k + 1 < n /\ k + 1 \in 1..n - 1
      BY <2>1
    <3>2. next[s[k + 1]] = s[(k + 1) + 1]
      BY <2>3, <3>1
    <3> QED BY <2>2, <2>4, <3>1, <3>2
  <2>11. CASE n = 1
    <3>1. next[head] = NULL
      BY <2>1, <2>3, <2>6, <2>11
    <3>2. head' = NULL /\ tail' = NULL
      BY <2>4, <3>1
    <3>3. Chain(Len(r), r)'
      BY <2>2, <2>7, <2>8, <2>9, <2>10, <2>11, <3>2
    <3> HIDE DEF Chain
    <3> QED BY <2>2, <2>21, <2>4, <2>6, <3>3
  <2>12. CASE n > 1
    <3>1. next[s[1]] = s[2] /\ 2 \in 1..n /\ s[2] # NULL
      BY <2>1, <2>3, <2>5, <2>12, QueueConstants
    <3>2. head' = s[2] /\ tail' = tail /\ tail = s[n] /\ next[tail] = NULL
      BY <2>1, <2>3, <2>4, <2>6, <3>1
    <3>3. 1 \in 1..n - 1 /\ r[1] = s[2]
      BY <2>1, <2>2, <2>12
    <3>4. n - 1 \in 1..n - 1 /\ r[n - 1] = s[n]
      <4>1. n - 1 \in 1..n - 1 /\ (n - 1) + 1 = n
        BY <2>1, <2>12
      <4> QED BY <2>2, <4>1
    <3>5. Chain(Len(r), r)'
      BY <2>1, <2>2, <2>4, <2>7, <2>8, <2>9, <2>10, <2>12, <3>2, <3>3, <3>4
    <3> HIDE DEF Chain
    <3> QED BY <2>2, <2>21, <2>4, <2>6, <3>5
  <2> QED BY <2>1, <2>11, <2>12
<1> QED
  BY <1>1, <1>2

\* Every operation leaves one list from head to tail.
LEMMA StepShape == TypeOK /\ Shape /\ [Next]_vars => Shape'
<1> SUFFICES ASSUME TypeOK, [Next]_vars, NEW s \in Seq(Items), Lists(s) PROVE Shape'
  BY DEF Shape
<1>1. Chain(Len(s), s)
  BY ListsChain
<1>2. CASE UNCHANGED <<head, tail, next, live>>
  <2>1. Chain(Len(s), s)'
    BY <1>1, <1>2 DEF Chain
  <2> QED BY <2>1, ChainShape
<1>3. ASSUME NEW d \in Data, PushHead(d) PROVE Shape'
  BY <1>1, <1>3, PushHeadChain, ChainShape
<1>4. ASSUME NEW d \in Data, PushTail(d) PROVE Shape'
  BY <1>1, <1>4, PushTailChain, ChainShape
<1>5. CASE PopHead
  BY <1>1, <1>5, PopHeadChain, ChainShape
<1> QED
  BY <1>2, <1>3, <1>4, <1>5 DEF Next, PushNoMemory, vars

\* The list has no more items than the heap.
LEMMA ListBounded == \A s \in Seq(Items) : Lists(s) => Len(s) \in 0..Cardinality(Items)
<1> SUFFICES ASSUME NEW s \in Seq(Items), Lists(s) PROVE Len(s) \in 0..Cardinality(Items)
  OBVIOUS
<1> DEFINE n == Len(s)
<1>1. n \in Nat /\ s \in [1..n -> Items] /\ \A j, k \in 1..n : s[j] = s[k] => j = k
  BY DEF Lists
<1>2. s \in Injection(1..n, Items)
  BY <1>1, Fun_IsInj
<1>3. Cardinality(1..n) <= Cardinality(Items) /\ Cardinality(Items) \in Nat
  BY <1>2, QueueConstants, FS_Injection, FS_CardinalityType
<1>4. Cardinality(1..n) = n
  <2>1. Cardinality(1..n) = IF 1 > n THEN 0 ELSE n - 1 + 1
    BY <1>1, FS_Interval
  <2> QED BY <1>1, <2>1
<1> QED
  BY <1>1, <1>3, <1>4

LEMMA ShapeBounded == Shape => ListShape
<1> SUFFICES ASSUME NEW s \in Seq(Items), Lists(s) PROVE ListShape
  BY DEF Shape
<1>1. Len(s) \in 0..Cardinality(Items) /\ s \in [1..Len(s) -> Items]
  BY ListBounded
<1> QED
  BY <1>1 DEF ListShape

\* The pointers of the queue always hold what their types allow.
THEOREM QueueTyped == Spec => []TypeOK
<1>1. Init => TypeOK
  BY DEF Init, TypeOK
<1> QED
  BY <1>1, StepTyped, PTL DEF Spec

\* The linked list stays sound whatever the order of pushes and pops: no cycle,
\* no dangling tail, no lost item.
THEOREM QueueShaped == Spec => []ListShape
<1>1. Init => TypeOK /\ Shape
  <2>1. Init => TypeOK
    BY DEF Init, TypeOK
  <2>2. ASSUME Init PROVE Lists(<<>>)
    BY <2>2 DEF Init, Lists
  <2>3. <<>> \in Seq(Items)
    OBVIOUS
  <2> QED BY <2>1, <2>2, <2>3, Zenon DEF Shape
<1> QED
  BY <1>1, StepTyped, StepShape, ShapeBounded, PTL DEF Spec

-----------------------------------------------------------------------------
(***************************************************************************)
(* The refinement.  Walking the list from head visits the items of s, the  *)
(* sequence that Lists it, and then NULL; so the sequence a caller sees is *)
(* the data of s.  A walk is a recursive function: that it is the function *)
(* w below follows from the least place where another one would differ.    *)
(***************************************************************************)
LEMMA Least == ASSUME NEW T \in SUBSET Nat, T # {} PROVE \E x \in T : \A y \in T : x <= y
<1> DEFINE R == OpToRel(<, Nat)
<1>1. IsWellFoundedOn(R, Nat)
  BY NatLessThanWellFounded
<1>2. \A y, x \in Nat : y < x => <<y, x>> \in R
  BY DEF OpToRel
<1> HIDE DEF R
<1>3. PICK x \in T : \A y \in T : ~(<<y, x>> \in R)
  BY WFMin, <1>1
<1>4. ASSUME NEW y \in T PROVE x <= y
  <2>1. x \in Nat /\ y \in Nat
    OBVIOUS
  <2>2. ~(y < x)
    BY <1>2, <1>3, <2>1
  <2> QED
    BY <2>1, <2>2
<1> QED
  BY <1>3, <1>4

\* f takes the steps of item = item->next from h.
Walks(f, m, h, nx) ==
    f = [n \in 0..m |-> IF n = 0 THEN h
                        ELSE IF f[n - 1] = NULL THEN NULL ELSE nx[f[n - 1]]]

\* There is one walk.
LEMMA OneWalk ==
    ASSUME NEW m \in Nat, NEW h, NEW nx, NEW f, NEW g, Walks(f, m, h, nx), Walks(g, m, h, nx)
    PROVE  f = g
<1> DEFINE B == {n \in 0..m : f[n] # g[n]}
<1>1. \A n \in 0..m : /\ f[n] = IF n = 0 THEN h ELSE IF f[n - 1] = NULL THEN NULL ELSE nx[f[n - 1]]
                      /\ g[n] = IF n = 0 THEN h ELSE IF g[n - 1] = NULL THEN NULL ELSE nx[g[n - 1]]
  BY DEF Walks
<1>2. B = {}
  <2> SUFFICES ASSUME B # {} PROVE FALSE
    OBVIOUS
  <2>1. B \in SUBSET Nat
    OBVIOUS
  <2>2. PICK x \in B : \A y \in B : x <= y
    BY <2>1, Least
  <2>3. x \in 0..m /\ f[x] # g[x]
    BY <2>2
  <2>4. x # 0
    BY <1>1, <2>3
  <2>5. x - 1 \in 0..m /\ ~(x <= x - 1)
    BY <2>3, <2>4
  <2>6. f[x - 1] = g[x - 1]
    BY <2>2, <2>5
  <2> QED
    BY <1>1, <2>3, <2>4, <2>6
<1>3. \A n \in 0..m : f[n] = g[n]
  BY <1>2
<1>4. /\ f = [n \in 0..m |-> f[n]]
      /\ g = [n \in 0..m |-> g[n]]
  BY DEF Walks
<1> QED
  BY <1>3, <1>4

\* What the walk of a list s is.
WalkOf(s) == [n \in 0..Cardinality(Items) |-> IF n < Len(s) THEN s[n + 1] ELSE NULL]

LEMMA WalkIsList == \A s \in Seq(Items) : TypeOK /\ Lists(s) => Walk = WalkOf(s)
<1> SUFFICES ASSUME NEW s \in Seq(Items), TypeOK, Lists(s) PROVE Walk = WalkOf(s)
  OBVIOUS
<1> DEFINE m == Cardinality(Items)
           l == Len(s)
           w == WalkOf(s)
<1>1. m \in Nat /\ l \in 0..m /\ Chain(l, s) /\ \A k \in 1..l : s[k] \in Items
  BY ListBounded, ListsChain, FS_CardinalityType, QueueConstants
<1>2. w = [n \in 0..m |-> IF n < l THEN s[n + 1] ELSE NULL]
  BY DEF WalkOf
<1> HIDE DEF m, l, w
<1>3. ASSUME NEW n \in 0..m
      PROVE  w[n] = IF n = 0 THEN head ELSE IF w[n - 1] = NULL THEN NULL ELSE next[w[n - 1]]
  <2>1. CASE n = 0
    BY <1>1, <1>2, <2>1 DEF Chain
  <2>2. CASE n # 0 /\ n < l
    <3>1. n \in 1..l /\ n - 1 \in 0..m /\ n - 1 < l /\ (n - 1) + 1 = n /\ s[n] # NULL
      BY <1>1, <2>2, QueueConstants
    <3>2. w[n - 1] = s[n] /\ w[n] = s[n + 1]
      BY <1>2, <2>2, <3>1
    <3>3. next[s[n]] = s[n + 1]
      BY <1>1, <2>2, <3>1 DEF Chain
    <3> QED
      BY <2>2, <3>1, <3>2, <3>3
  <2>3. CASE n # 0 /\ n = l
    <3>1. n \in 1..l /\ n - 1 \in 0..m /\ n - 1 < l /\ (n - 1) + 1 = n /\ s[n] # NULL
      BY <1>1, <2>3, QueueConstants
    <3>2. w[n - 1] = s[n] /\ w[n] = NULL
      BY <1>1, <1>2, <2>3, <3>1
    <3>3. next[s[n]] = NULL
      BY <1>1, <2>3, <3>1 DEF Chain
    <3> QED
      BY <2>3, <3>1, <3>2, <3>3
  <2>4. CASE n # 0 /\ n > l
    <3>1. n - 1 \in 0..m /\ ~(n - 1 < l) /\ ~(n < l)
      BY <1>1, <2>4
    <3> QED
      BY <1>2, <2>4, <3>1
  <2> QED
    BY <1>1, <2>1, <2>2, <2>3, <2>4
<1>4. Walks(w, m, head, next)
  BY <1>2, <1>3 DEF Walks
<1>5. Walk = CHOOSE f : Walks(f, m, head, next)
  BY Zenon DEF Walk, Walks, m
<1>6. Walks(Walk, m, head, next)
  BY <1>4, <1>5, Zenon
<1>7. Walk = w
  BY <1>1, <1>4, <1>6, OneWalk
<1> QED
  BY <1>7 DEF w

\* What a caller sees of the list.
Seen == [k \in 1..get_length |-> data[Walk[k - 1]]]
Datas(s) == [k \in 1..Len(s) |-> data[s[k]]]

LEMMA SeenIsData == \A s \in Seq(Items) : TypeOK /\ Lists(s) => Seen = Datas(s)
<1> SUFFICES ASSUME NEW s \in Seq(Items), TypeOK, Lists(s) PROVE Seen = Datas(s)
  OBVIOUS
<1> DEFINE m == Cardinality(Items)
           l == Len(s)
<1>1. m \in Nat /\ l \in 0..m /\ \A k \in 1..l : s[k] \in Items
  BY ListBounded, FS_CardinalityType, QueueConstants
<1>2. Walk = [n \in 0..m |-> IF n < l THEN s[n + 1] ELSE NULL]
  BY WalkIsList DEF WalkOf
<1>3. Datas(s) = [k \in 1..l |-> data[s[k]]]
  BY DEF Datas
<1>4. get_length = Cardinality({n \in 0..m : Walk[n] # NULL})
  BY Zenon DEF get_length
<1> HIDE DEF m, l
<1>5. {n \in 0..m : Walk[n] # NULL} = 0..l - 1
  <2>1. \A n \in 0..m : n < l => n + 1 \in 1..l /\ s[n + 1] # NULL
    BY <1>1, QueueConstants
  <2>2. \A n \in 0..m : Walk[n] # NULL <=> n < l
    BY <1>2, <2>1
  <2>3. \A n : (n \in 0..m /\ n < l) <=> n \in 0..l - 1
    BY <1>1
  <2> QED
    BY <2>2, <2>3
<1>6. Cardinality(0..l - 1) = l
  <2>1. Cardinality(0..l - 1) = IF 0 > l - 1 THEN 0 ELSE (l - 1) - 0 + 1
    BY <1>1, FS_Interval
  <2> QED
    BY <1>1, <2>1
<1>7. get_length = l
  BY <1>4, <1>5, <1>6
<1>8. \A k \in 1..l : Walk[k - 1] = s[k]
  <2> TAKE k \in 1..l
  <2>1. k - 1 \in 0..m /\ k - 1 < l /\ (k - 1) + 1 = k
    BY <1>1
  <2> QED
    BY <1>2, <2>1
<1> QED
  BY <1>3, <1>7, <1>8 DEF Seen

LEMMA SeenIsDataNext == \A s \in Seq(Items) : TypeOK' /\ Lists(s)' => Seen' = Datas(s)'
<1>1. (\A s \in Seq(Items) : TypeOK /\ Lists(s) => Seen = Datas(s))'
  BY SeenIsData, PTL
<1> QED
  BY <1>1

LEMMA DatasMeans ==
    ASSUME TypeOK, NEW s \in Seq(Items)
    PROVE  /\ Datas(s) \in Seq(Data \cup {NULL}) /\ Len(Datas(s)) = Len(s)
           /\ \A k \in 1..Len(s) : Datas(s)[k] = data[s[k]]
<1> DEFINE n == Len(s)
<1>1. n \in Nat /\ Datas(s) = [k \in 1..n |-> data[s[k]]] /\ \A k \in 1..n : data[s[k]] \in Data \cup {NULL}
  BY DEF Datas, TypeOK
<1> HIDE DEF n
<1>2. Datas(s) \in Seq(Data \cup {NULL}) /\ Len(Datas(s)) = n /\ \A k \in 1..n : Datas(s)[k] = data[s[k]]
  BY <1>1
<1> QED
  BY <1>2 DEF n

LEMMA DatasEmpty == Datas(<<>>) = <<>>
<1>1. Len(<<>>) = 0 /\ 1..0 = {}
  OBVIOUS
<1>2. Datas(<<>>) = [k \in {} |-> data[<<>>[k]]]
  BY <1>1, Zenon DEF Datas
<1> QED
  BY <1>2

LEMMA DatasMeansNext ==
    ASSUME TypeOK', NEW s \in Seq(Items)
    PROVE  /\ Datas(s)' \in Seq(Data \cup {NULL}) /\ Len(Datas(s)') = Len(s)
           /\ \A k \in 1..Len(s) : Datas(s)'[k] = data'[s[k]]
<1> DEFINE n == Len(s)
<1>1. /\ n \in Nat /\ Datas(s)' = [k \in 1..n |-> data'[s[k]]]
      /\ \A k \in 1..n : data'[s[k]] \in Data \cup {NULL}
  BY DEF Datas, TypeOK
<1> HIDE DEF n
<1>2. /\ Datas(s)' \in Seq(Data \cup {NULL}) /\ Len(Datas(s)') = n
      /\ \A k \in 1..n : Datas(s)'[k] = data'[s[k]]
  BY <1>1
<1> QED
  BY <1>2 DEF n

\* The data of a list with a new item in front, behind, or without its first.
LEMMA DatasPushHead ==
    ASSUME TypeOK, TypeOK', NEW s \in Seq(Items), NEW item \in Items, NEW d \in Data,
           \A k \in 1..Len(s) : s[k] # item, data' = [data EXCEPT ![item] = d],
           NEW r \in Seq(Items), r = <<item>> \o s
    PROVE  Datas(r)' = <<d>> \o Datas(s)
<1> DEFINE n == Len(s)
           x == Datas(r)'
           y == Datas(s)
           z == <<d>> \o y
<1>1. n \in Nat /\ Len(r) = n + 1 /\ r[1] = item /\ \A k \in 1..n : r[k + 1] = s[k] /\ s[k] \in Items
  OBVIOUS
<1>2. y \in Seq(Data \cup {NULL}) /\ Len(y) = n /\ \A k \in 1..n : y[k] = data[s[k]]
  BY DatasMeans
<1>3. x \in Seq(Data \cup {NULL}) /\ Len(x) = n + 1 /\ \A k \in 1..n + 1 : x[k] = data'[r[k]]
  BY <1>1, DatasMeansNext
<1>4. data'[item] = d /\ \A k \in 1..n : data'[s[k]] = data[s[k]]
  BY <1>1 DEF TypeOK
<1> HIDE DEF n, x, y
<1>5. z \in Seq(Data \cup {NULL}) /\ Len(z) = n + 1 /\ z[1] = d /\ \A k \in 1..n : z[k + 1] = y[k]
  BY <1>1, <1>2
<1> HIDE DEF z
<1>6. ASSUME NEW k \in 1..n + 1 PROVE x[k] = z[k]
  <2>1. CASE k = 1
    BY <1>1, <1>3, <1>4, <1>5, <2>1
  <2>2. CASE k # 1
    <3>1. k - 1 \in 1..n /\ (k - 1) + 1 = k
      BY <1>1, <2>2
    <3>2. r[k] = s[k - 1] /\ x[k] = data'[r[k]]
      BY <1>1, <1>3, <3>1
    <3>3. z[k] = y[k - 1]
      BY <1>5, <3>1
    <3>4. y[k - 1] = data[s[k - 1]] /\ data'[s[k - 1]] = data[s[k - 1]]
      BY <1>2, <1>4, <3>1
    <3> QED
      BY <3>2, <3>3, <3>4
  <2> QED
    BY <2>1, <2>2
<1>7. Len(x) = Len(z) /\ \A k \in 1..Len(x) : x[k] = z[k]
  BY <1>3, <1>5, <1>6
<1>8. x = z
  BY <1>3, <1>5, <1>7, SeqEqual
<1> QED
  BY <1>8, Zenon DEF x, y, z

LEMMA DatasPushTail ==
    ASSUME TypeOK, TypeOK', NEW s \in Seq(Items), NEW item \in Items, NEW d \in Data,
           \A k \in 1..Len(s) : s[k] # item, data' = [data EXCEPT ![item] = d],
           NEW r \in Seq(Items), r = Append(s, item)
    PROVE  Datas(r)' = Append(Datas(s), d)
<1> DEFINE n == Len(s)
           x == Datas(r)'
           y == Datas(s)
           z == Append(y, d)
<1>1. n \in Nat /\ Len(r) = n + 1 /\ r[n + 1] = item /\ \A k \in 1..n : r[k] = s[k] /\ s[k] \in Items
  OBVIOUS
<1>2. y \in Seq(Data \cup {NULL}) /\ Len(y) = n /\ \A k \in 1..n : y[k] = data[s[k]]
  BY DatasMeans
<1>3. x \in Seq(Data \cup {NULL}) /\ Len(x) = n + 1 /\ \A k \in 1..n + 1 : x[k] = data'[r[k]]
  BY <1>1, DatasMeansNext
<1>4. data'[item] = d /\ \A k \in 1..n : data'[s[k]] = data[s[k]]
  BY <1>1 DEF TypeOK
<1> HIDE DEF n, x, y
<1>5. z \in Seq(Data \cup {NULL}) /\ Len(z) = n + 1 /\ z[n + 1] = d /\ \A k \in 1..n : z[k] = y[k]
  BY <1>1, <1>2
<1> HIDE DEF z
<1>6. ASSUME NEW k \in 1..n + 1 PROVE x[k] = z[k]
  <2>1. CASE k = n + 1
    BY <1>1, <1>3, <1>4, <1>5, <2>1
  <2>2. CASE k # n + 1
    <3>1. k \in 1..n
      BY <1>1, <2>2
    <3> QED
      BY <1>1, <1>2, <1>3, <1>4, <1>5, <3>1
  <2> QED
    BY <2>1, <2>2
<1>7. Len(x) = Len(z) /\ \A k \in 1..Len(x) : x[k] = z[k]
  BY <1>3, <1>5, <1>6
<1>8. x = z
  BY <1>3, <1>5, <1>7, SeqEqual
<1> QED
  BY <1>8, Zenon DEF x, y, z

LEMMA DatasPopHead ==
    ASSUME TypeOK, TypeOK', NEW s \in Seq(Items), s # <<>>, data' = data,
           NEW r \in Seq(Items), r = Tail(s)
    PROVE  Datas(s) # <<>> /\ Head(Datas(s)) = data[s[1]] /\ Datas(r)' = Tail(Datas(s))
<1> DEFINE n == Len(s)
           x == Datas(r)'
           y == Datas(s)
           z == Tail(y)
<1>1. n \in Nat /\ n > 0 /\ Len(r) = n - 1 /\ \A k \in 1..n - 1 : r[k] = s[k + 1] /\ k + 1 \in 1..n
  OBVIOUS
<1>2. y \in Seq(Data \cup {NULL}) /\ Len(y) = n /\ \A k \in 1..n : y[k] = data[s[k]]
  BY DatasMeans
<1>3. x \in Seq(Data \cup {NULL}) /\ Len(x) = n - 1 /\ \A k \in 1..n - 1 : x[k] = data[r[k]]
  BY <1>1, DatasMeansNext
<1> HIDE DEF n, x, y
<1>4. y # <<>> /\ Head(y) = y[1] /\ 1 \in 1..n
  BY <1>1, <1>2
<1>5. z \in Seq(Data \cup {NULL}) /\ Len(z) = n - 1 /\ \A k \in 1..n - 1 : z[k] = y[k + 1]
  BY <1>1, <1>2, <1>4, HeadTailProperties
<1> HIDE DEF z
<1>6. Len(x) = Len(z) /\ \A k \in 1..Len(x) : x[k] = z[k]
  <2>1. ASSUME NEW k \in 1..n - 1 PROVE x[k] = z[k]
    <3>1. r[k] = s[k + 1] /\ k + 1 \in 1..n
      BY <1>1
    <3>2. x[k] = data[s[k + 1]] /\ z[k] = y[k + 1]
      BY <1>3, <1>5, <3>1
    <3> QED
      BY <1>2, <3>1, <3>2
  <2> QED
    BY <1>3, <1>5, <2>1
<1>7. x = z
  BY <1>3, <1>5, <1>6, SeqEqual
<1>8. y # <<>> /\ Head(y) = data[s[1]] /\ x = Tail(y)
  BY <1>2, <1>4, <1>7 DEF z
<1> QED
  BY <1>8, Zenon DEF x, y

\* Every operation of the list is one of the sequence.
LEMMA StepDeque ==
    ASSUME TypeOK, TypeOK', Shape, [Next]_vars
    PROVE  [D!Next]_<<Seen, popped>>
<1>1. PICK s \in Seq(Items) : Lists(s)
  BY DEF Shape
<1>2. Chain(Len(s), s) /\ Seen = Datas(s)
  BY <1>1, ListsChain, SeenIsData
<1>3. ASSUME NEW r \in Seq(Items), Chain(Len(r), r)' PROVE Seen' = Datas(r)'
  <2>1. Lists(r)'
    BY <1>3, ListsChainNext
  <2> QED
    BY <2>1, SeenIsDataNext
<1>4. ASSUME UNCHANGED <<head, tail, next, data, live>> PROVE Seen' = Seen
  <2>1. Chain(Len(s), s)'
    BY <1>2, <1>4 DEF Chain
  <2>2. Seen' = Datas(s)'
    BY <1>3, <2>1
  <2>3. Datas(s)' = Datas(s)
    BY <1>4 DEF Datas
  <2> QED
    BY <1>2, <2>2, <2>3
<1>5. CASE UNCHANGED vars
  BY <1>4, <1>5 DEF vars
<1>6. CASE PushNoMemory
  <2>1. Seen' = Seen /\ popped' = NULL
    BY <1>4, <1>6 DEF PushNoMemory
  <2>2. D!NoMemory
    BY <2>1, Zenon DEF D!NoMemory, Seen
  <2> QED
    BY <2>2 DEF D!Next
<1>7. ASSUME NEW d \in Data, PushHead(d) PROVE D!PushHead(d)
  <2>1. PICK item \in Items \ live : \E r \in Seq(Items) :
               /\ r = <<item>> \o s /\ Chain(Len(r), r)'
               /\ data' = [data EXCEPT ![item] = d] /\ popped' = NULL
    BY <1>2, <1>7, PushHeadChain, Zenon
  <2>2. PICK r \in Seq(Items) :
               /\ r = <<item>> \o s /\ Chain(Len(r), r)'
               /\ data' = [data EXCEPT ![item] = d] /\ popped' = NULL
    BY <2>1, Zenon
  <2>3. \A k \in 1..Len(s) : s[k] # item
    BY <1>2 DEF Chain
  <2>4. item \in Items /\ Seen' = Datas(r)'
    BY <1>3, <2>2
  <2>5. Datas(r)' = <<d>> \o Datas(s)
    BY <2>2, <2>3, <2>4, DatasPushHead
  <2>6. Seen' = <<d>> \o Seen
    BY <1>2, <2>4, <2>5, Zenon
  <2> QED
    BY <2>2, <2>6, Zenon DEF D!PushHead, Seen
<1>8. ASSUME NEW d \in Data, PushTail(d) PROVE D!PushTail(d)
  <2>1. PICK item \in Items \ live : \E r \in Seq(Items) :
               /\ r = Append(s, item) /\ Chain(Len(r), r)'
               /\ data' = [data EXCEPT ![item] = d] /\ popped' = NULL
    BY <1>2, <1>8, PushTailChain, Zenon
  <2>2. PICK r \in Seq(Items) :
               /\ r = Append(s, item) /\ Chain(Len(r), r)'
               /\ data' = [data EXCEPT ![item] = d] /\ popped' = NULL
    BY <2>1, Zenon
  <2>3. \A k \in 1..Len(s) : s[k] # item
    BY <1>2 DEF Chain
  <2>4. item \in Items /\ Seen' = Datas(r)'
    BY <1>3, <2>2
  <2>5. Datas(r)' = Append(Datas(s), d)
    BY <2>2, <2>3, <2>4, DatasPushTail
  <2>6. Seen' = Append(Seen, d)
    BY <1>2, <2>4, <2>5, Zenon
  <2> QED
    BY <2>2, <2>6, Zenon DEF D!PushTail, Seen
<1>9. CASE PopHead
  <2>1. CASE s = <<>>
    <3>1. Chain(Len(s), s)' /\ popped' = NULL /\ data' = data
      BY <1>2, <1>9, <2>1, PopHeadChain
    <3>2. Seen' = Seen /\ Seen = <<>>
      <4>1. Seen' = Datas(s)' /\ Datas(s)' = Datas(s)
        BY <1>3, <3>1 DEF Datas
      <4>2. Datas(s) = <<>>
        BY <2>1, DatasEmpty
      <4> QED
        BY <1>2, <4>1, <4>2
    <3>3. D!PopHead
      BY <3>1, <3>2, Zenon DEF D!PopHead, Seen
    <3> QED
      BY <3>3 DEF D!Next
  <2>2. CASE s # <<>>
    <3>1. Tail(s) \in Seq(Items) /\ Chain(Len(Tail(s)), Tail(s))' /\ popped' = data[s[1]] /\ data' = data
      BY <1>2, <1>9, <2>2, PopHeadChain
    <3>2. PICK r \in Seq(Items) : r = Tail(s) /\ Chain(Len(r), r)'
      BY <3>1, Zenon
    <3>3. Datas(s) # <<>> /\ Head(Datas(s)) = data[s[1]] /\ Datas(r)' = Tail(Datas(s))
      BY <2>2, <3>1, <3>2, DatasPopHead
    <3>4. Seen' = Datas(r)'
      BY <1>3, <3>2
    <3>5. Seen # <<>> /\ popped' = Head(Seen) /\ Seen' = Tail(Seen)
      BY <1>2, <3>1, <3>3, <3>4, Zenon
    <3>6. D!PopHead
      BY <3>5, Zenon DEF D!PopHead, Seen
    <3> QED
      BY <3>6 DEF D!Next
  <2> QED
    BY <2>1, <2>2
<1> QED
  BY <1>5, <1>6, <1>7, <1>8, <1>9 DEF Next, D!Next

\* conn_mgr_queue.h's promise, for any heap and any data: what is popped is what was
\* pushed, in order, from whichever end it came, and a failed malloc loses only the
\* new item.
THEOREM QueueImplementsDeque == Spec => ImplementsDeque
<1>1. Init => D!Init
  <2> SUFFICES ASSUME Init PROVE D!Init
    OBVIOUS
  <2>1. <<>> \in Seq(Items) /\ TypeOK /\ Lists(<<>>)
    BY DEF Init, TypeOK, Lists
  <2>2. Seen = Datas(<<>>)
    BY <2>1, SeenIsData
  <2>3. Datas(<<>>) = <<>>
    BY <2>1, DatasEmpty
  <2> QED
    BY <2>2, <2>3 DEF D!Init, Init, Seen
<1>2. Init => TypeOK /\ Shape
  <2>1. ASSUME Init PROVE TypeOK /\ <<>> \in Seq(Items) /\ Lists(<<>>)
    BY <2>1 DEF Init, TypeOK, Lists
  <2> QED BY <2>1, Zenon DEF Shape
<1>3. TypeOK /\ TypeOK' /\ Shape /\ [Next]_vars => [D!Next]_<<Seen, popped>>
  BY StepDeque
<1> QED
  BY <1>1, <1>2, <1>3, StepTyped, StepShape, PTL DEF Spec, ImplementsDeque, D!Spec, Seen

-----------------------------------------------------------------------------
(***************************************************************************)
(* The connections (ConnMgrConn).  None of the three parts of ConnNewSound *)
(* is inductive: whether the socket is open and in which mode follows from *)
(* where the caller is and from what the handshake and ret were on the way *)
(* there, and the time from what the current call of poll has used.        *)
(***************************************************************************)
ConnTyped ==
    /\ pc \in [Callers -> Conn!PCs]
    /\ fd \in [Callers -> {"none", "blocking", "nonblocking"}]
    /\ tcp \in [Callers -> {"closed", "connecting", "established", "refused"}]
    /\ conn \in [Callers -> BOOLEAN]
    /\ ret \in [Callers -> {0, -1}]
    /\ waited \in [Callers -> 0..Timeout]
    /\ elapsed \in [Callers -> Nat]
    /\ interrupts \in [Callers -> Nat]

\* What each place of conn_mgr_conn_new knows of the socket.  A caller that is
\* about to get the connection has a socket in blocking mode, or one whose
\* connect failed at once; the handshake is over.
Answered(t) == tcp[t] = "closed" \/ (tcp[t] # "connecting" /\ fd[t] = "blocking")
Places ==
    \A t \in Callers :
        /\ conn[t] <=> pc[t] = "using"
        /\ fd[t] = "none" <=> pc[t] \in {"idle", "read_errno"}
        /\ pc[t] \in {"idle", "read_errno", "set_nonblocking", "connect"} => tcp[t] = "closed"
        /\ pc[t] = "set_blocking" /\ ret[t] = 0 => tcp[t] \in {"established", "refused"}
        /\ pc[t] = "check_ret" /\ ret[t] = 0 => Answered(t)
        /\ pc[t] \in {"malloc", "using"} => Answered(t)

\* Each interrupted poll took no longer than the timeout.
Clocked == \A t \in Callers : elapsed[t] <= interrupts[t] * Timeout + waited[t]

ConnInv == ConnTyped /\ Places /\ Clocked

\* One more round of poll is one more timeout.
LEMMA OneMoreRound ==
    ASSUME NEW n \in Nat, NEW k \in Nat
    PROVE  n * k \in Nat /\ (n + 1) * k \in Nat /\ (n + 1) * k = n * k + k
OBVIOUS

\* Every step keeps the types.
LEMMA StepConnTyped == ConnTyped /\ [Conn!Next]_conn_vars => ConnTyped'
<1> SUFFICES ASSUME ConnTyped, [Conn!Next]_conn_vars PROVE ConnTyped'
  OBVIOUS
<1> USE ConnConstants DEF ConnTyped, Conn!Goto, Conn!PCs, Conn!clock
<1>1. ASSUME NEW t \in Callers, Conn!Socket(t) PROVE ConnTyped'
  BY <1>1 DEF Conn!Socket
<1>2. ASSUME NEW t \in Callers, Conn!SetNonBlocking(t) \/ Conn!Connect(t) \/ Conn!Handshake(t) PROVE ConnTyped'
  BY <1>2 DEF Conn!SetNonBlocking, Conn!Connect, Conn!Handshake
<1>3. ASSUME NEW t \in Callers, Conn!Tick(t) \/ Conn!PollInterrupted(t) PROVE ConnTyped'
  BY <1>3 DEF Conn!Tick, Conn!PollInterrupted
<1>4. ASSUME NEW t \in Callers, Conn!PollReturns(t) \/ Conn!PollError(t) PROVE ConnTyped'
  BY <1>4 DEF Conn!PollReturns, Conn!PollError, Conn!PollFails
<1>5. ASSUME NEW t \in Callers, Conn!SetBlocking(t) \/ Conn!CheckRet(t) PROVE ConnTyped'
  BY <1>5 DEF Conn!SetBlocking, Conn!CheckRet
<1>6. ASSUME NEW t \in Callers, Conn!Malloc(t) \/ Conn!ReadErrno(t) \/ Conn!Destroy(t) PROVE ConnTyped'
  BY <1>6 DEF Conn!Malloc, Conn!ReadErrno, Conn!Destroy
<1>7. CASE UNCHANGED conn_vars
  BY <1>7 DEF conn_vars
<1> QED
  BY <1>1, <1>2, <1>3, <1>4, <1>5, <1>6, <1>7 DEF Conn!Next, Conn!Step, Conn!Finished, Conn!vars, conn_vars

\* Every step of a caller, of the kernel and of the peer keeps what the places know.
LEMMA StepPlaces == ConnTyped /\ Places /\ [Conn!Next]_conn_vars => Places'
<1> SUFFICES ASSUME ConnTyped, Places, [Conn!Next]_conn_vars PROVE Places'
  OBVIOUS
<1> USE DEF ConnTyped, Places, Answered, Conn!Goto, Conn!PCs, Conn!clock
<1>1. ASSUME NEW t \in Callers, Conn!Socket(t) PROVE Places'
  BY <1>1 DEF Conn!Socket
<1>2. ASSUME NEW t \in Callers, Conn!SetNonBlocking(t) PROVE Places'
  BY <1>2 DEF Conn!SetNonBlocking
<1>3. ASSUME NEW t \in Callers, Conn!Connect(t) PROVE Places'
  BY <1>3 DEF Conn!Connect
<1>4. ASSUME NEW t \in Callers, Conn!Handshake(t) PROVE Places'
  BY <1>4 DEF Conn!Handshake
<1>5. ASSUME NEW t \in Callers, Conn!Tick(t) \/ Conn!PollInterrupted(t) PROVE Places'
  BY <1>5 DEF Conn!Tick, Conn!PollInterrupted
<1>6. ASSUME NEW t \in Callers, Conn!PollReturns(t) \/ Conn!PollError(t) PROVE Places'
  BY <1>6 DEF Conn!PollReturns, Conn!PollError, Conn!PollFails
<1>7. ASSUME NEW t \in Callers, Conn!SetBlocking(t) PROVE Places'
  BY <1>7 DEF Conn!SetBlocking
<1>8. ASSUME NEW t \in Callers, Conn!CheckRet(t) PROVE Places'
  BY <1>8 DEF Conn!CheckRet
<1>9. ASSUME NEW t \in Callers, Conn!Malloc(t) PROVE Places'
  BY <1>9 DEF Conn!Malloc
<1>10. ASSUME NEW t \in Callers, Conn!ReadErrno(t) \/ Conn!Destroy(t) PROVE Places'
  BY <1>10 DEF Conn!ReadErrno, Conn!Destroy
<1>11. CASE UNCHANGED conn_vars
  BY <1>11 DEF conn_vars
<1> QED
  BY <1>1, <1>2, <1>3, <1>4, <1>5, <1>6, <1>7, <1>8, <1>9, <1>10, <1>11
     DEF Conn!Next, Conn!Step, Conn!Finished, Conn!vars, conn_vars

\* A tick counts in the current round; an interrupt begins a new one.
LEMMA StepClocked == ConnTyped /\ Clocked /\ [Conn!Next]_conn_vars => Clocked'
<1> SUFFICES ASSUME ConnTyped, Clocked, [Conn!Next]_conn_vars PROVE Clocked'
  OBVIOUS
<1>1. /\ \A t \in Callers : waited[t] \in Nat /\ waited[t] <= Timeout
      /\ \A t \in Callers : elapsed[t] \in Nat /\ interrupts[t] \in Nat
      /\ Timeout \in Nat
  BY ConnConstants DEF ConnTyped
<1>2. \A t \in Callers : interrupts[t] * Timeout \in Nat
  BY <1>1, OneMoreRound
<1>3. CASE UNCHANGED <<waited, elapsed, interrupts>>
  BY <1>3 DEF Clocked
<1>4. ASSUME NEW t \in Callers, Conn!Socket(t) PROVE Clocked'
  <2>1. /\ waited' = [waited EXCEPT ![t] = 0] /\ elapsed' = [elapsed EXCEPT ![t] = 0]
        /\ interrupts' = [interrupts EXCEPT ![t] = 0]
    BY <1>4 DEF Conn!Socket
  <2>2. waited'[t] = 0 /\ elapsed'[t] = 0 /\ interrupts'[t] = 0
    BY <2>1 DEF ConnTyped
  <2>3. \A u \in Callers \ {t} :
          waited'[u] = waited[u] /\ elapsed'[u] = elapsed[u] /\ interrupts'[u] = interrupts[u]
    BY <2>1 DEF ConnTyped
  <2>4. 0 * Timeout = 0
    BY <1>1
  <2> QED BY <2>2, <2>3, <2>4 DEF Clocked
<1>5. ASSUME NEW t \in Callers, Conn!Tick(t) PROVE Clocked'
  <2>1. /\ waited' = [waited EXCEPT ![t] = @ + 1] /\ elapsed' = [elapsed EXCEPT ![t] = @ + 1]
        /\ interrupts' = interrupts
    BY <1>5 DEF Conn!Tick
  <2>2. waited'[t] = waited[t] + 1 /\ elapsed'[t] = elapsed[t] + 1
    BY <2>1 DEF ConnTyped
  <2>3. \A u \in Callers \ {t} : waited'[u] = waited[u] /\ elapsed'[u] = elapsed[u]
    BY <2>1 DEF ConnTyped
  <2>4. elapsed'[t] <= interrupts'[t] * Timeout + waited'[t]
    BY <1>1, <1>2, <2>1, <2>2 DEF Clocked
  <2> QED BY <2>1, <2>3, <2>4 DEF Clocked
<1>6. ASSUME NEW t \in Callers, Conn!PollInterrupted(t) PROVE Clocked'
  <2>1. /\ waited' = [waited EXCEPT ![t] = 0] /\ elapsed' = elapsed
        /\ interrupts' = [interrupts EXCEPT ![t] = @ + 1]
    BY <1>6 DEF Conn!PollInterrupted
  <2>2. waited'[t] = 0 /\ interrupts'[t] = interrupts[t] + 1
    BY <2>1 DEF ConnTyped
  <2>3. \A u \in Callers \ {t} : waited'[u] = waited[u] /\ interrupts'[u] = interrupts[u]
    BY <2>1 DEF ConnTyped
  <2>4. (interrupts[t] + 1) * Timeout = interrupts[t] * Timeout + Timeout
    BY <1>1, OneMoreRound
  <2>5. elapsed'[t] <= interrupts'[t] * Timeout + waited'[t]
    <3>1. elapsed[t] <= interrupts[t] * Timeout + waited[t]
      BY DEF Clocked
    <3>2. elapsed[t] <= interrupts[t] * Timeout + Timeout
      BY <1>1, <1>2, <3>1
    <3> QED BY <1>1, <1>2, <2>1, <2>2, <2>4, <3>2
  <2> QED BY <2>1, <2>3, <2>5 DEF Clocked
<1> QED
  BY <1>3, <1>4, <1>5, <1>6
     DEF Conn!Next, Conn!Step, Conn!SetNonBlocking, Conn!Connect, Conn!Handshake, Conn!PollReturns,
         Conn!PollError, Conn!SetBlocking, Conn!CheckRet, Conn!Malloc, Conn!ReadErrno, Conn!Destroy,
         Conn!Finished, Conn!vars, Conn!clock, conn_vars

\* The invariant says what a caller of conn_mgr_conn_new relies on.
LEMMA ConnInvSound == ConnInv => ConnNewSound
<1> SUFFICES ASSUME ConnInv PROVE ConnNewSound
  OBVIOUS
<1>1. Conn!NoLeakedSocket
  BY DEF ConnInv, ConnTyped, Places, Conn!NoLeakedSocket
<1>2. Conn!EstablishedIsBlocking
  BY DEF ConnInv, ConnTyped, Places, Answered, Conn!EstablishedIsBlocking
<1>3. ASSUME NEW t \in Callers PROVE elapsed[t] <= (interrupts[t] + 1) * Timeout
  <2>1. /\ waited[t] \in Nat /\ waited[t] <= Timeout /\ elapsed[t] \in Nat
        /\ interrupts[t] \in Nat /\ Timeout \in Nat
    BY ConnConstants DEF ConnInv, ConnTyped
  <2>2. interrupts[t] * Timeout \in Nat
        /\ (interrupts[t] + 1) * Timeout = interrupts[t] * Timeout + Timeout
    BY <2>1, OneMoreRound
  <2>3. elapsed[t] <= interrupts[t] * Timeout + waited[t]
    BY DEF ConnInv, Clocked
  <2> QED BY <2>1, <2>2, <2>3
<1> QED
  BY <1>1, <1>2, <1>3 DEF ConnNewSound, Conn!TimeBounded

\* conn_mgr_conn_new, for any number of callers, any timeout and any number of
\* interrupts: no path leaks the socket, an established connection is blocking
\* again, and the time is bounded.
THEOREM ConnNewIsSound == PartsSpec => []ConnNewSound
<1>1. PartsInit => ConnInv
  <2>1. Conn!Init => ConnTyped /\ Places
    BY ConnConstants DEF Conn!Init, ConnTyped, Places, Answered, Conn!PCs
  <2>2. Conn!Init => Clocked
    BY ConnConstants DEF Conn!Init, Clocked
  <2> QED BY <2>1, <2>2 DEF PartsInit, ConnInv
<1>2. [PartsNext]_parts_vars => [Conn!Next]_conn_vars
  BY DEF PartsNext, InQueue, InConn, parts_vars, conn_vars
<1>3. ConnInv /\ [Conn!Next]_conn_vars => ConnInv'
  BY StepConnTyped, StepPlaces, StepClocked DEF ConnInv
<1> QED
  BY <1>1, <1>2, <1>3, ConnInvSound, PTL DEF PartsSpec

=============================================================================
