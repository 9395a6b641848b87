------------------------ MODULE SystemProgramsProofs -------------------------
(***************************************************************************)
(* Proofs about the programs under src/system and src/other.               *)
(*                                                                         *)
(* DiningPhilosophers, for any number of philosophers: the forks are       *)
(* exclusive, and the seat semaphore rules out the circular wait.          *)
(* IoctlDriver, for any users and inputs.  AioCopy, for any sizes of the   *)
(* file and of the buffer.  MemPool, for any sizes of the objects and of   *)
(* the slabs, and its test program.                                        *)
(***************************************************************************)
EXTENDS MCSystemPrograms, Integers, FiniteSetTheorems, FunctionTheorems, NaturalsInduction,
        SequenceTheorems, WellFoundedInduction, TLAPS

\* A fork on the table is in nobody's hand, a fork in a hand is in that hand
\* only, and a fork is never on the table twice.
Inv ==
    /\ lock \in Nat
    /\ forks \in [Philosophers -> 0..1]
    /\ pc \in [Philosophers -> {"wait_lock", "wait_left", "wait_right", "eat",
                                "post_right", "post_lock", "done"}]
    /\ ForksExclusive

\* The two forks of a philosopher are two different forks of the table.
LEMMA TwoForks ==
    ASSUME NEW i \in Philosophers
    PROVE  Left(i) \in Philosophers /\ Right(i) \in Philosophers /\ Left(i) # Right(i)
BY NAssumption DEF Left, Right, Philosophers

\* Every step preserves the invariant.
LEMMA StepInv == Inv /\ [Next]_vars => Inv'
<1> SUFFICES ASSUME Inv, [Next]_vars PROVE Inv'
  OBVIOUS
<1> USE DEF Inv, ForksExclusive, Holds, Goto
<1>1. ASSUME NEW i \in Philosophers, WaitLock(i) PROVE Inv'
  BY <1>1 DEF WaitLock
<1>2. ASSUME NEW i \in Philosophers, WaitLeft(i) PROVE Inv'
  BY <1>2, TwoForks DEF WaitLeft, Take
<1>3. ASSUME NEW i \in Philosophers, WaitRight(i) PROVE Inv'
  BY <1>3, TwoForks DEF WaitRight, Take
<1>4. ASSUME NEW i \in Philosophers, PostLeft(i) PROVE Inv'
  BY <1>4, TwoForks DEF PostLeft, Release
<1>5. ASSUME NEW i \in Philosophers, PostRight(i) PROVE Inv'
  BY <1>5, TwoForks DEF PostRight, Release
<1>6. ASSUME NEW i \in Philosophers, PostLock(i) PROVE Inv'
  BY <1>6 DEF PostLock
<1>7. CASE UNCHANGED vars
  BY <1>7 DEF vars
<1> QED
  BY <1>1, <1>2, <1>3, <1>4, <1>5, <1>6, <1>7 DEF Next, philosopher

\* Neighbours never hold the fork between them together.
THEOREM ForksAreExclusive == Spec => []ForksExclusive
<1>1. Init => Inv
  BY NAssumption DEF Init, initialize_lock, Inv, ForksExclusive, Holds, Philosophers
<1>2. Inv => ForksExclusive
  BY DEF Inv
<1> QED
  BY <1>1, <1>2, StepInv, PTL DEF Spec

\* The seats add up: each admitted philosopher has taken one.
LEMMA StepSeats ==
    Inv /\ lock + Cardinality(Seated) = N - 1 /\ [Next]_vars =>
        (lock + Cardinality(Seated) = N - 1)'
<1> SUFFICES ASSUME Inv, lock + Cardinality(Seated) = N - 1, [Next]_vars
             PROVE  lock' + Cardinality(Seated') = N - 1
  OBVIOUS
<1>1. /\ IsFiniteSet(Seated) /\ Cardinality(Seated) \in Nat
      /\ lock \in Nat /\ N \in Nat
      /\ pc \in [Philosophers -> {"wait_lock", "wait_left", "wait_right", "eat",
                                  "post_right", "post_lock", "done"}]
  <2>1. IsFiniteSet(Philosophers)
    BY NAssumption, FS_Interval DEF Philosophers
  <2> QED BY <2>1, NAssumption, FS_Subset, FS_CardinalityType DEF Seated, Inv
<1>2. ASSUME NEW i \in Philosophers, WaitLock(i) PROVE lock' + Cardinality(Seated') = N - 1
  <2>1. i \notin Seated /\ Seated' = Seated \cup {i}
    BY <1>1, <1>2 DEF WaitLock, Goto, Seated
  <2>2. Cardinality(Seated') = Cardinality(Seated) + 1
    BY <1>1, <2>1, FS_AddElement
  <2> QED BY <1>1, <1>2, <2>2 DEF WaitLock
<1>3. ASSUME NEW i \in Philosophers, PostLock(i) PROVE lock' + Cardinality(Seated') = N - 1
  <2>1. i \in Seated /\ Seated' = Seated \ {i}
    BY <1>1, <1>3 DEF PostLock, Goto, Seated
  <2>2. Cardinality(Seated') = Cardinality(Seated) - 1
    BY <1>1, <2>1, FS_RemoveElement
  <2> QED BY <1>1, <1>3, <2>2 DEF PostLock
<1>4. ASSUME NEW i \in Philosophers, WaitLeft(i) \/ WaitRight(i) \/ PostLeft(i) \/ PostRight(i)
      PROVE  lock' + Cardinality(Seated') = N - 1
  <2>1. Seated' = Seated /\ lock' = lock
    BY <1>1, <1>4 DEF WaitLeft, WaitRight, PostLeft, PostRight, Goto, Seated
  <2> QED BY <2>1
<1>5. CASE UNCHANGED vars
  BY <1>5 DEF vars, Seated
<1> QED
  BY <1>2, <1>3, <1>4, <1>5 DEF Next, philosopher

\* There is always a philosopher who does not wait for the second fork.
THEOREM NeverCircular == Spec => []NoCircularWait
<1>1. Init => Inv /\ lock + Cardinality(Seated) = N - 1
  <2>1. ASSUME Init PROVE Seated = {}
    BY <2>1 DEF Init, Seated
  <2>2. Init => Inv
    BY NAssumption DEF Init, initialize_lock, Inv, ForksExclusive, Holds, Philosophers
  <2> QED BY <2>1, <2>2, FS_EmptySet, NAssumption DEF Init, initialize_lock
<1>2. Inv /\ lock + Cardinality(Seated) = N - 1 => NoCircularWait
  <2> SUFFICES ASSUME Inv, lock + Cardinality(Seated) = N - 1,
                      \A i \in Philosophers : pc[i] = "wait_right"
               PROVE  FALSE
    BY DEF NoCircularWait
  <2>1. Seated = 0..N - 1
    BY DEF Seated, Philosophers
  <2>2. Cardinality(Seated) = N
    <3>1. 0 \in Int /\ N - 1 \in Int /\ 0 <= N - 1
      BY NAssumption
    <3>2. Cardinality(0..N - 1) = (N - 1) - 0 + 1
      BY <3>1, FS_Interval
    <3> QED BY <2>1, <3>2, NAssumption
  <2> QED BY <2>2, NAssumption DEF Inv
<1> QED
  BY <1>1, <1>2, StepInv, StepSeats, PTL DEF Spec

\* Types: the seat counter stays within its initial value and no fork is ever
\* posted twice.
THEOREM PhilosophersTyped == Spec => []TypeOK
<1>1. Inv /\ NoCircularWait => TypeOK
  <2> SUFFICES ASSUME Inv, NoCircularWait PROVE lock \in 0..N - 1
    BY DEF Inv, TypeOK
  <2>1. IsFiniteSet(Seated)
    <3>1. IsFiniteSet(Philosophers)
      BY NAssumption, FS_Interval DEF Philosophers
    <3> QED BY <3>1, FS_Subset DEF Seated
  <2> QED BY <2>1, FS_CardinalityType, NAssumption DEF Inv, NoCircularWait
<1>2. Init => Inv
  BY NAssumption DEF Init, initialize_lock, Inv, ForksExclusive, Holds, Philosophers
<1> QED
  BY <1>1, <1>2, NeverCircular, StepInv, PTL DEF Spec

-----------------------------------------------------------------------------
(***************************************************************************)
(* The driver.  PairsAreWhole is not inductive: between the two            *)
(* assignments of TEST_SET the pair is torn, and what saves it is that the *)
(* one who tore it is alone, has written the first half of its own pair,   *)
(* and cannot meet a reload, because a file in use keeps the module loaded.*)
(***************************************************************************)
Values == Inputs \cup {0, 20020, 10010}

IoctlTyped ==
    /\ code \in Values /\ val \in Values
    /\ module \in {"out", "loading", "loaded", "failed", "unloading"}
    /\ user \in [Users -> {"new", "get", "get_val", "set", "set_val", "failed", "got", "done"}]
    /\ io \in [Users -> Values \X Values]
    /\ pairs \subseteq Values \X Values /\ <<20020, 10010>> \in pairs

IoctlTaken ==
    /\ taken \in 0..4
    /\ module = "out" => taken = 0
    /\ module = "loading" => taken <= 3
    /\ module \in {"loaded", "unloading"} => taken >= 1
    /\ module = "failed" => taken = IF failedAt = 2 THEN 1 ELSE 0
    /\ module # "loaded" => \A u \in Users : user[u] \in {"new", "done"}

\* Each word in the module, or in the hands of a user, was set by somebody.
IoctlWords ==
    /\ Ioctl!Words(<<code, val>>)
    /\ \A u \in Users : user[u] = "get_val" => \E p \in pairs : io[u][1] = p[1]
    /\ \A u \in Users : user[u] = "set_val" => io[u] \in pairs
    /\ \A u \in Users : user[u] = "got" => Ioctl!Words(io[u])

IoctlWhole ==
    /\ Ioctl!Setting = {} /\ ~raced => <<code, val>> \in pairs
    /\ ~raced => \A u \in Ioctl!Setting : Ioctl!Setting = {u} /\ code = io[u][1]
    /\ \A u \in Ioctl!Getting : u \notin mixed =>
          ~raced /\ Ioctl!Setting = {} /\ io[u][1] = code
    /\ \A u \in Users : user[u] = "got" /\ u \notin mixed => io[u] \in pairs

IoctlInv == IoctlTyped /\ IoctlTaken /\ IoctlWords /\ IoctlWhole

\* A pair somebody set is made of words somebody set.
LEMMA PairWords == ASSUME NEW w \in pairs, pairs \subseteq Values \X Values PROVE Ioctl!Words(w)
<1>1. w = <<w[1], w[2]>>
  OBVIOUS
<1> QED
  BY <1>1 DEF Ioctl!Words

\* The driver starts out of the kernel with its first pair.
LEMMA IoctlStarts == Ioctl!Init => IoctlInv
<1> SUFFICES ASSUME Ioctl!Init PROVE IoctlInv
  OBVIOUS
<1>1. IoctlTyped /\ IoctlTaken
  BY DEF Ioctl!Init, Ioctl!First, IoctlTyped, IoctlTaken, Values
<1>2. <<code, val>> \in pairs
  BY DEF Ioctl!Init, Ioctl!First
<1>3. IoctlWords
  BY <1>1, <1>2, PairWords DEF Ioctl!Init, IoctlWords, IoctlTyped
<1>4. IoctlWhole
  BY <1>2 DEF Ioctl!Init, IoctlWhole, Ioctl!Setting, Ioctl!Getting
<1> QED
  BY <1>1, <1>3, <1>4 DEF IoctlInv

\* What the two reads of TEST_GET do to the user's structure.
LEMMA HalfRead ==
    ASSUME NEW u \in Users, io \in [Users -> Values \X Values], code \in Values, val \in Values
    PROVE  /\ [io EXCEPT ![u][1] = code] = [io EXCEPT ![u] = <<code, io[u][2]>>]
           /\ [io EXCEPT ![u][2] = val] = [io EXCEPT ![u] = <<io[u][1], val>>]
<1>1. [io[u] EXCEPT ![1] = code] = <<code, io[u][2]>>
  OBVIOUS
<1>2. [io[u] EXCEPT ![2] = val] = <<io[u][1], val>>
  OBVIOUS
<1> QED
  BY <1>1, <1>2

\* No step of the module or of a user breaks the invariant.
LEMMA IoctlStep == IoctlInv /\ Ioctl!Next => IoctlInv'
<1> SUFFICES ASSUME IoctlInv, Ioctl!Next PROVE IoctlInv'
  OBVIOUS
<1>0. IoctlTyped /\ IoctlTaken /\ IoctlWords /\ IoctlWhole
  BY DEF IoctlInv
<1>1. CASE Ioctl!insmod
  <2>1. /\ module = "out" /\ module' = "loading" /\ code' = 20020 /\ val' = 10010 /\ ~raced'
        /\ UNCHANGED <<taken, failedAt, user, io, pairs, mixed>>
    BY <1>1 DEF Ioctl!insmod, Ioctl!First
  <2>2. \A u \in Users : user[u] \in {"new", "done"}
    BY <1>0, <2>1 DEF IoctlTaken
  <2>3. IoctlTyped' /\ IoctlTaken'
    BY <1>0, <2>1, <2>2 DEF IoctlTyped, IoctlTaken, Values
  <2>4. IoctlWords'
    BY <1>0, <2>1, <2>2 DEF IoctlWords, Ioctl!Words, IoctlTyped
  <2>5. IoctlWhole'
    BY <1>0, <2>1, <2>2 DEF IoctlWhole, IoctlTyped, Ioctl!Setting, Ioctl!Getting
  <2> QED
    BY <2>3, <2>4, <2>5 DEF IoctlInv
<1>2. CASE Ioctl!driver_ioctl_init \/ Ioctl!driver_ioctl_exit
  <2>1. UNCHANGED <<code, val, user, io, pairs, raced, mixed>>
    BY <1>2 DEF Ioctl!driver_ioctl_init, Ioctl!driver_ioctl_exit
  <2>2. IoctlTyped'
    BY <1>0, <1>2, <2>1 DEF IoctlTyped, Ioctl!driver_ioctl_init, Ioctl!driver_ioctl_exit
  <2>3. IoctlTaken'
    BY <1>0, <1>2, <2>1
    DEF IoctlTaken, Ioctl!driver_ioctl_init, Ioctl!driver_ioctl_exit, Ioctl!GivenBack, Ioctl!Resources
  <2>4. IoctlWords' /\ IoctlWhole'
    BY <1>0, <2>1 DEF IoctlWords, Ioctl!Words, IoctlWhole, Ioctl!Setting, Ioctl!Getting
  <2> QED
    BY <2>2, <2>3, <2>4 DEF IoctlInv
<1>3. ASSUME NEW u \in Users, Ioctl!UserMain(u) PROVE IoctlInv'
  <2>1. /\ user[u] = "new" /\ UNCHANGED <<code, val, module, taken, failedAt, pairs, raced, mixed>>
        /\ \/ user' = [user EXCEPT ![u] = "done"] /\ io' = io
           \/ module = "loaded" /\ user' = [user EXCEPT ![u] = "get"] /\ io' = io
           \/ /\ module = "loaded" /\ user' = [user EXCEPT ![u] = "set"]
              /\ \E c, v \in Inputs : io' = [io EXCEPT ![u] = <<c, v>>]
    BY <1>3 DEF Ioctl!UserMain
  <2>2. IoctlTyped'
    <3>1. io' \in [Users -> Values \X Values]
      BY <1>0, <2>1 DEF IoctlTyped, Values
    <3> QED
      BY <1>0, <2>1, <3>1 DEF IoctlTyped
  <2>3. IoctlTaken'
    BY <1>0, <2>1 DEF IoctlTaken, IoctlTyped
  <2>4. /\ \A w \in Users : w # u => user'[w] = user[w] /\ io'[w] = io[w]
        /\ user'[u] \in {"done", "get", "set"}
    BY <1>0, <2>1 DEF IoctlTyped
  <2>5. Ioctl!Setting' = Ioctl!Setting /\ Ioctl!Getting' = Ioctl!Getting
    BY <2>1, <2>4 DEF Ioctl!Setting, Ioctl!Getting
  <2>6. IoctlWords'
    BY <1>0, <2>1, <2>4 DEF IoctlWords, Ioctl!Words
  <2>7. IoctlWhole'
    BY <1>0, <2>1, <2>4, <2>5 DEF IoctlWhole, Ioctl!Setting, Ioctl!Getting
  <2> QED
    BY <2>2, <2>3, <2>6, <2>7 DEF IoctlInv
<1>4. ASSUME NEW u \in Users, Ioctl!SetCode(u) PROVE IoctlInv'
  <2>1. user[u] = "set" /\ UNCHANGED <<val, module, taken, failedAt, io>>
    BY <1>4 DEF Ioctl!SetCode
  <2>2. module = "loaded" /\ io[u] \in Values \X Values /\ io[u][1] \in Values
    BY <1>0, <2>1 DEF IoctlTaken, IoctlTyped
  <2>3. CASE user' = [user EXCEPT ![u] = "done"] /\ UNCHANGED <<code, pairs, raced, mixed>>
    <3>1. IoctlTyped' /\ IoctlTaken'
      BY <1>0, <2>1, <2>2, <2>3 DEF IoctlTyped, IoctlTaken
    <3>2. /\ \A w \in Users : w # u => user'[w] = user[w]
          /\ user'[u] = "done"
      BY <1>0, <2>3 DEF IoctlTyped
    <3>3. Ioctl!Setting' = Ioctl!Setting /\ Ioctl!Getting' = Ioctl!Getting
      BY <2>1, <3>2 DEF Ioctl!Setting, Ioctl!Getting
    <3>4. IoctlWords'
      BY <1>0, <2>1, <2>3, <3>2 DEF IoctlWords, Ioctl!Words
    <3>5. IoctlWhole'
      BY <1>0, <2>1, <2>3, <3>2, <3>3 DEF IoctlWhole
    <3> QED
      BY <3>1, <3>4, <3>5 DEF IoctlInv
  <2>4. CASE /\ code' = io[u][1] /\ raced' = (Ioctl!Setting # {}) /\ mixed' = mixed \cup Ioctl!Getting
             /\ pairs' = pairs \cup {io[u]} /\ user' = [user EXCEPT ![u] = "set_val"]
    <3>1. IoctlTyped'
      BY <1>0, <2>1, <2>2, <2>4 DEF IoctlTyped
    <3>2. IoctlTaken'
      BY <1>0, <2>1, <2>2, <2>4 DEF IoctlTyped, IoctlTaken
    <3>3. /\ \A w \in Users : w # u => user'[w] = user[w]
          /\ user'[u] = "set_val"
      BY <1>0, <2>4 DEF IoctlTyped
    <3>4. Ioctl!Setting' = Ioctl!Setting \cup {u} /\ Ioctl!Getting' = Ioctl!Getting
      BY <2>1, <3>3 DEF Ioctl!Setting, Ioctl!Getting
    <3>5. IoctlWords'
      <4>1. Ioctl!Words(<<code, val>>)'
        <5>1. PICK p \in pairs, q \in pairs : <<code, val>> = <<p[1], q[2]>>
          BY <1>0 DEF IoctlWords, Ioctl!Words
        <5>2. <<code', val'>> = <<io[u][1], q[2]>> /\ io[u] \in pairs' /\ q \in pairs'
          BY <2>1, <2>4, <5>1
        <5> QED
          BY <5>2 DEF Ioctl!Words
      <4>2. \A w \in Users : user'[w] = "get_val" => \E p \in pairs' : io'[w][1] = p[1]
        BY <1>0, <2>1, <2>4, <3>3 DEF IoctlWords
      <4>3. \A w \in Users : user'[w] = "set_val" => io'[w] \in pairs'
        BY <1>0, <2>1, <2>4, <3>3 DEF IoctlWords
      <4>4. \A w \in Users : user'[w] = "got" => Ioctl!Words(io[w])'
        BY <1>0, <2>1, <2>4, <3>3 DEF IoctlWords, Ioctl!Words
      <4> QED
        BY <4>1, <4>2, <4>3, <4>4 DEF IoctlWords
    <3>6. IoctlWhole'
      BY <1>0, <2>1, <2>4, <3>3, <3>4 DEF IoctlWhole
    <3> QED
      BY <3>1, <3>2, <3>5, <3>6 DEF IoctlInv
  <2> QED
    BY <1>4, <2>3, <2>4 DEF Ioctl!SetCode
<1>5. ASSUME NEW u \in Users, Ioctl!SetVal(u) PROVE IoctlInv'
  <2>1. /\ user[u] = "set_val" /\ val' = io[u][2] /\ user' = [user EXCEPT ![u] = "done"]
        /\ UNCHANGED <<code, module, taken, failedAt, io, pairs, raced, mixed>>
    BY <1>5 DEF Ioctl!SetVal
  <2>2. /\ io[u] = <<io[u][1], io[u][2]>> /\ io[u][2] \in Values /\ io[u] \in pairs
        /\ u \in Ioctl!Setting
    BY <1>0, <2>1 DEF IoctlTyped, IoctlWords, Ioctl!Setting
  <2>3. IoctlTyped' /\ IoctlTaken'
    BY <1>0, <2>1, <2>2 DEF IoctlTyped, IoctlTaken
  <2>4. /\ \A w \in Users : w # u => user'[w] = user[w]
        /\ user'[u] = "done"
    BY <1>0, <2>1 DEF IoctlTyped
  <2>5. Ioctl!Setting' = Ioctl!Setting \ {u} /\ Ioctl!Getting' = Ioctl!Getting
    BY <2>1, <2>4 DEF Ioctl!Setting, Ioctl!Getting
  <2>6. IoctlWords'
    <3>1. Ioctl!Words(<<code, val>>)'
      <4>1. PICK p \in pairs, q \in pairs : <<code, val>> = <<p[1], q[2]>>
        BY <1>0 DEF IoctlWords, Ioctl!Words
      <4>2. <<code', val'>> = <<p[1], io[u][2]>> /\ io[u] \in pairs' /\ p \in pairs'
        BY <2>1, <2>2, <4>1
      <4> QED
        BY <4>2 DEF Ioctl!Words
    <3>2. \A w \in Users : user'[w] = "got" => Ioctl!Words(io[w])'
      BY <1>0, <2>1, <2>4 DEF IoctlWords, Ioctl!Words
    <3> QED
      BY <1>0, <2>1, <2>4, <3>1, <3>2 DEF IoctlWords
  <2>7. IoctlWhole'
    BY <1>0, <2>1, <2>2, <2>4, <2>5 DEF IoctlWhole
  <2> QED
    BY <2>3, <2>6, <2>7 DEF IoctlInv
<1>6. ASSUME NEW u \in Users, Ioctl!GetCode(u) PROVE IoctlInv'
  <2>1. user[u] = "get" /\ UNCHANGED <<code, val, module, taken, failedAt, pairs, raced>>
    BY <1>6 DEF Ioctl!GetCode
  <2>2. module = "loaded" /\ io[u] \in Values \X Values /\ code \in Values
    BY <1>0, <2>1 DEF IoctlTaken, IoctlTyped
  <2>3. CASE user' = [user EXCEPT ![u] = "failed"] /\ UNCHANGED <<io, mixed>>
    <3>1. IoctlTyped' /\ IoctlTaken'
      BY <1>0, <2>1, <2>2, <2>3 DEF IoctlTyped, IoctlTaken
    <3>2. /\ \A w \in Users : w # u => user'[w] = user[w]
          /\ user'[u] = "failed"
      BY <1>0, <2>3 DEF IoctlTyped
    <3>3. Ioctl!Setting' = Ioctl!Setting /\ Ioctl!Getting' = Ioctl!Getting
      BY <2>1, <3>2 DEF Ioctl!Setting, Ioctl!Getting
    <3>4. IoctlWords'
      BY <1>0, <2>1, <2>3, <3>2 DEF IoctlWords, Ioctl!Words
    <3>5. IoctlWhole'
      BY <1>0, <2>1, <2>3, <3>2, <3>3 DEF IoctlWhole
    <3> QED
      BY <3>1, <3>4, <3>5 DEF IoctlInv
  <2>4. CASE /\ io' = [io EXCEPT ![u][1] = code] /\ user' = [user EXCEPT ![u] = "get_val"]
             /\ mixed' = IF raced \/ Ioctl!Setting # {} THEN mixed \cup {u} ELSE mixed
    <3>1. io' = [io EXCEPT ![u] = <<code, io[u][2]>>]
      <4>1. io \in [Users -> Values \X Values] /\ code \in Values /\ val \in Values
        BY <1>0 DEF IoctlTyped
      <4>2. [io EXCEPT ![u][1] = code] = [io EXCEPT ![u] = <<code, io[u][2]>>]
        BY <4>1, HalfRead, Zenon
      <4> QED
        BY <2>4, <4>2
    <3>2. <<code, io[u][2]>> \in Values \X Values
      BY <2>2
    <3>3. IoctlTyped' /\ IoctlTaken'
      BY <1>0, <2>1, <2>2, <2>4, <3>1, <3>2 DEF IoctlTyped, IoctlTaken
    <3>4. /\ \A w \in Users : w # u => user'[w] = user[w] /\ io'[w] = io[w]
          /\ user'[u] = "get_val" /\ io'[u][1] = code
      BY <1>0, <2>4, <3>1 DEF IoctlTyped
    <3>5. Ioctl!Setting' = Ioctl!Setting /\ Ioctl!Getting' = Ioctl!Getting \cup {u}
      BY <2>1, <3>4 DEF Ioctl!Setting, Ioctl!Getting
    <3>6. \E p \in pairs : code = p[1]
      BY <1>0 DEF IoctlWords, Ioctl!Words
    <3>7. IoctlWords'
      BY <1>0, <2>1, <3>4, <3>6 DEF IoctlWords, Ioctl!Words
    <3>8. IoctlWhole'
      <4>1. u \notin mixed' => ~raced /\ Ioctl!Setting = {}
        BY <2>4
      <4>2. \A w \in Users : w \notin mixed' => w \notin mixed
        BY <2>4
      <4> QED
        BY <1>0, <2>1, <3>4, <3>5, <4>1, <4>2 DEF IoctlWhole, Ioctl!Getting, Ioctl!Setting
    <3> QED
      BY <3>3, <3>7, <3>8 DEF IoctlInv
  <2> QED
    BY <1>6, <2>3, <2>4 DEF Ioctl!GetCode
<1>7. ASSUME NEW u \in Users, Ioctl!GetVal(u) PROVE IoctlInv'
  <2>1. /\ user[u] = "get_val" /\ io' = [io EXCEPT ![u][2] = val]
        /\ user' = [user EXCEPT ![u] = "got"]
        /\ UNCHANGED <<code, val, module, taken, failedAt, pairs, raced, mixed>>
    BY <1>7 DEF Ioctl!GetVal
  <2>2. io' = [io EXCEPT ![u] = <<io[u][1], val>>]
    <3>1. io \in [Users -> Values \X Values] /\ code \in Values /\ val \in Values
      BY <1>0 DEF IoctlTyped
    <3>2. [io EXCEPT ![u][2] = val] = [io EXCEPT ![u] = <<io[u][1], val>>]
      BY <3>1, HalfRead, Zenon
    <3> QED
      BY <2>1, <3>2
  <2>3. module = "loaded" /\ <<io[u][1], val>> \in Values \X Values
    BY <1>0, <2>1 DEF IoctlTaken, IoctlTyped
  <2>4. IoctlTyped' /\ IoctlTaken'
    BY <1>0, <2>1, <2>2, <2>3 DEF IoctlTyped, IoctlTaken
  <2>5. /\ \A w \in Users : w # u => user'[w] = user[w] /\ io'[w] = io[w]
        /\ user'[u] = "got" /\ io'[u] = <<io[u][1], val>>
    BY <1>0, <2>1, <2>2 DEF IoctlTyped
  <2>6. Ioctl!Setting' = Ioctl!Setting /\ Ioctl!Getting' = Ioctl!Getting \ {u} /\ u \in Ioctl!Getting
    BY <2>1, <2>5 DEF Ioctl!Setting, Ioctl!Getting
  <2>7. IoctlWords'
    <3>1. Ioctl!Words(io[u])'
      <4>1. PICK p \in pairs : io[u][1] = p[1]
        BY <1>0, <2>1 DEF IoctlWords
      <4>2. PICK q \in pairs : val = q[2]
        BY <1>0 DEF IoctlWords, Ioctl!Words
      <4>3. io'[u] = <<p[1], q[2]>> /\ p \in pairs' /\ q \in pairs'
        BY <2>1, <2>5, <4>1, <4>2
      <4> QED
        BY <4>3 DEF Ioctl!Words
    <3>2. \A w \in Users : user'[w] = "got" => Ioctl!Words(io[w])'
      <4> TAKE w \in Users
      <4>1. CASE w = u
        BY <3>1, <4>1
      <4>2. CASE w # u
        BY <1>0, <2>1, <2>5, <4>2 DEF IoctlWords, Ioctl!Words
      <4> QED
        BY <4>1, <4>2
    <3>3. Ioctl!Words(<<code, val>>)'
      BY <1>0, <2>1 DEF IoctlWords, Ioctl!Words
    <3> QED
      BY <1>0, <2>1, <2>5, <3>2, <3>3 DEF IoctlWords
  <2>8. IoctlWhole'
    <3>1. u \notin mixed => io'[u] \in pairs
      BY <1>0, <2>5, <2>6 DEF IoctlWhole
    <3> QED
      BY <1>0, <2>1, <2>5, <2>6, <3>1 DEF IoctlWhole, Ioctl!Getting
  <2> QED
    BY <2>4, <2>7, <2>8 DEF IoctlInv
<1>8. ASSUME NEW u \in Users, Ioctl!UserEnds(u) PROVE IoctlInv'
  <2>1. /\ user[u] \in {"failed", "got"} /\ user' = [user EXCEPT ![u] = "done"]
        /\ UNCHANGED <<code, val, module, taken, failedAt, io, pairs, raced, mixed>>
    BY <1>8 DEF Ioctl!UserEnds
  <2>2. IoctlTyped' /\ IoctlTaken'
    BY <1>0, <2>1 DEF IoctlTyped, IoctlTaken
  <2>3. /\ \A w \in Users : w # u => user'[w] = user[w]
        /\ user'[u] = "done"
    BY <1>0, <2>1 DEF IoctlTyped
  <2>4. Ioctl!Setting' = Ioctl!Setting /\ Ioctl!Getting' = Ioctl!Getting
    BY <2>1, <2>3 DEF Ioctl!Setting, Ioctl!Getting
  <2>5. IoctlWords'
    BY <1>0, <2>1, <2>3 DEF IoctlWords, Ioctl!Words
  <2>6. IoctlWhole'
    BY <1>0, <2>1, <2>3, <2>4 DEF IoctlWhole
  <2> QED
    BY <2>2, <2>5, <2>6 DEF IoctlInv
<1> QED
  BY <1>1, <1>2, <1>3, <1>4, <1>5, <1>6, <1>7, <1>8, Zenon DEF Ioctl!Next, Ioctl!driver_ioctl

\* driver_ioctl.c: with any number of users and any inputs, whatever is loaded,
\* unloaded or fails in between, a TEST_SET that runs alone leaves its pair whole,
\* also after others raced, a TEST_GET returns a pair somebody set unless it overlaps
\* a TEST_SET or follows a race, each word is one somebody set, and only a failing
\* cdev_add leaves a resource, the region, registered.
THEOREM IoctlKeepsPairs == SysSpec => []IoctlPairsAreWhole
<1>1. SysInit => IoctlInv
  BY IoctlStarts DEF SysInit
<1>2. IoctlInv /\ [SysNext]_sys_vars => IoctlInv'
  <2> SUFFICES ASSUME IoctlInv, [SysNext]_sys_vars PROVE IoctlInv'
    OBVIOUS
  <2>1. CASE InIoctl /\ Ioctl!Next
    BY <2>1, IoctlStep
  <2>2. CASE UNCHANGED ioctl_vars
    <3>1. UNCHANGED <<code, val, module, taken, failedAt, user, io, pairs, raced, mixed>>
      BY <2>2 DEF ioctl_vars
    <3>2. IoctlTyped' /\ IoctlTaken'
      BY <3>1 DEF IoctlInv, IoctlTyped, IoctlTaken
    <3>3. Ioctl!Setting' = Ioctl!Setting /\ Ioctl!Getting' = Ioctl!Getting
      BY <3>1 DEF Ioctl!Setting, Ioctl!Getting
    <3>4. IoctlWords' /\ IoctlWhole'
      BY <3>1, <3>3 DEF IoctlInv, IoctlWords, Ioctl!Words, IoctlWhole
    <3> QED
      BY <3>2, <3>4 DEF IoctlInv
  <2> QED
    BY <2>1, <2>2 DEF SysNext, sys_vars, InPhil, InMem, InMemTest, InCond, InAio
<1>3. IoctlInv => IoctlPairsAreWhole
  BY DEF IoctlInv, IoctlTyped, IoctlTaken, IoctlWords, IoctlWhole, IoctlPairsAreWhole, Ioctl!PairsAreWhole
<1> QED
  BY <1>1, <1>2, <1>3, PTL DEF SysSpec

-----------------------------------------------------------------------------
(***************************************************************************)
(* The copy.  While a read is under way the buffer holds the positions of  *)
(* the file up to the read's offset, and there is room for what was asked; *)
(* a read of nothing can then only be at the end of the file.  The copy is *)
(* what write took of the file, and after it what is left of the old copy. *)
(***************************************************************************)
Upto(n) == [i \in 1..n |-> i]
Over(n, m) == [i \in 1..(IF n > m THEN n ELSE m) |-> IF i <= n THEN i ELSE 0]

AioTyped ==
    /\ flen \in Nat /\ buf_size \in Nat /\ buf_size > 0
    /\ aio_offset \in Nat /\ aio_nbytes \in Nat
    /\ aio_ret \in Nat \cup {-1}
    /\ old \in Nat /\ written \in Nat

AioContent ==
    /\ copy = Over(written, old)
    /\ aio \in {"new", "reading", "read"} => written = 0
    /\ aio = "ended" /\ aio_ret = 0 => content = Upto(flen)
    /\ aio = "new" => aio_offset = 0
    /\ aio \in {"new", "reading", "read"} => content = Upto(aio_offset) /\ aio_offset <= flen

AioRoom ==
    /\ aio \in {"reading", "read"} => aio_nbytes > 0 /\ aio_offset + aio_nbytes <= buf_size
    /\ aio = "read" /\ aio_ret # -1 =>
         /\ aio_ret <= aio_nbytes /\ aio_offset + aio_ret <= flen
         /\ aio_ret = 0 => aio_offset = flen

AioInv == AioTyped /\ AioContent /\ AioRoom

\* The file's first positions: how many they are, and the next ones appended.
LEMMA UptoLen == ASSUME NEW n \in Nat PROVE Len(Upto(n)) = n /\ Upto(n) \in Seq(Nat)
  BY DEF Upto

LEMMA UptoAppend ==
    ASSUME NEW n \in Nat, NEW k \in Nat
    PROVE  Upto(n) \o [i \in 1..k |-> n + i] = Upto(n + k)
<1> DEFINE t == [i \in 1..k |-> n + i]
<1>1. t \in Seq(Nat) /\ Len(t) = k /\ \A i \in 1..k : t[i] = n + i
  OBVIOUS
<1>2. Upto(n) \in Seq(Nat) /\ Len(Upto(n)) = n /\ \A i \in 1..n : Upto(n)[i] = i
  BY DEF Upto
<1>3. Upto(n + k) \in Seq(Nat) /\ Len(Upto(n + k)) = n + k /\ \A i \in 1..(n + k) : Upto(n + k)[i] = i
  BY DEF Upto
<1> HIDE DEF t
<1>4. Upto(n) \o t \in Seq(Nat) /\ Len(Upto(n) \o t) = n + k
  BY <1>1, <1>2
<1>5. \A i \in 1..(n + k) : (Upto(n) \o t)[i] = i
  BY <1>1, <1>2
<1> DEFINE s == Upto(n) \o t
           r == Upto(n + k)
<1>6. s \in Seq(Nat) /\ r \in Seq(Nat) /\ Len(s) = Len(r) /\ \A i \in 1..Len(s) : s[i] = r[i]
  <2>1. s \in Seq(Nat) /\ Len(s) = n + k /\ \A i \in 1..(n + k) : s[i] = i
    BY <1>4, <1>5, Zenon
  <2>2. r \in Seq(Nat) /\ Len(r) = n + k /\ \A i \in 1..(n + k) : r[i] = i
    BY <1>3, Zenon
  <2>3. \A i \in 1..(n + k) : s[i] = r[i]
    BY <2>1, <2>2, Zenon
  <2> HIDE DEF s, r
  <2>4. Len(s) = Len(r) /\ 1..Len(s) = 1..(n + k)
    BY <2>1, <2>2
  <2> QED
    BY <2>1, <2>2, <2>3, <2>4, Zenon
<1> HIDE DEF s, r
<1>7. s = r
  BY <1>6, SeqEqual, Zenon
<1> QED
  BY <1>7 DEF s, r, t

\* The old copy, and what it is once n bytes were written over it.
LEMMA OverWritten ==
    ASSUME NEW m \in Nat, NEW k \in Nat, NEW n \in 0..k, copy = Over(0, m), content = Upto(k)
    PROVE  Aio!Overwritten(copy, n) = Over(n, m)
<1>1. Len(copy) = m /\ \A i \in 1..m : copy[i] = 0
  BY DEF Over
<1>2. \A i \in 1..n : content[i] = i
  BY DEF Upto
<1> QED
  BY <1>1, <1>2 DEF Aio!Overwritten, Over

LEMMA OverAll ==
    ASSUME NEW n \in Nat, NEW m \in Nat
    PROVE  /\ \A i \in 1..n : Over(n, m)[i] = i
           /\ m <= n => Over(n, m) = Upto(n)
  BY DEF Over, Upto

\* The room that is asked for when the buffer is larger than its content.
LEMMA RoomLeft ==
    ASSUME NEW b \in Nat, NEW n \in Nat, n < b
    PROVE  b - n \in Nat /\ b - n > 0 /\ n + (b - n) <= b
  OBVIOUS

\* The first read has not been submitted.
LEMMA AioStarts == Aio!Init => AioInv
<1> SUFFICES ASSUME Aio!Init PROVE AioInv
  OBVIOUS
<1>1. <<>> = Upto(0)
  BY DEF Upto
<1>2. old \in Nat /\ copy = Over(0, old)
  BY AioConstants DEF Aio!Init, Over
<1> QED
  BY <1>1, <1>2, AioConstants DEF Aio!Init, AioInv, AioTyped, AioContent, AioRoom

\* No step of the copy breaks the invariant.
LEMMA AioStep == AioInv /\ Aio!Next => AioInv'
<1> SUFFICES ASSUME AioInv, Aio!Next PROVE AioInv'
  OBVIOUS
<1> USE DEF AioInv, AioTyped, AioContent, AioRoom, Aio!Failed
<1>0. ASSUME Aio!Exit PROVE AioInv'
  BY <1>0 DEF Aio!Exit
<1>1. CASE Aio!Main
  BY <1>0, <1>1 DEF Aio!Main
<1>2. CASE Aio!Complete
  <2>0. /\ aio = "reading" /\ aio' = "read"
        /\ UNCHANGED <<flen, old, content, buf_size, aio_offset, aio_nbytes, written, copy>>
        /\ aio_nbytes \in Nat /\ aio_nbytes > 0
    BY <1>2 DEF Aio!Complete
  <2>1. \/ aio_ret' = -1
        \/ /\ aio_ret' \in 0..aio_nbytes /\ aio_offset + aio_ret' <= flen
           /\ aio_ret' = 0 => aio_offset = flen
    <3>1. \/ aio_ret' = 0 - 1
          \/ /\ aio_ret' \in 0..aio_nbytes /\ aio_offset + aio_ret' <= flen
             /\ aio_ret' = 0 => aio_nbytes = 0 \/ aio_offset = flen
      <4> HIDE DEF AioInv
      <4> QED
        BY <1>2, Zenon DEF Aio!Complete
    <3>2. 0 - 1 = -1 /\ aio_nbytes # 0
      BY <2>0
    <3> HIDE DEF AioInv
    <3> QED
      BY <3>1, <3>2
  <2>2. AioTyped'
    BY <2>0, <2>1
  <2>3. AioContent' /\ AioRoom'
    BY <2>0, <2>1
  <2> QED
    BY <2>1, <2>2, <2>3
<1>3. CASE Aio!AioError
  BY <1>0, <1>3 DEF Aio!AioError
<1>4. CASE Aio!CallbackData
  <2> DEFINE n == aio_offset + aio_ret
  <2>1. aio = "read" /\ aio_ret > 0 /\ UNCHANGED <<flen, old, aio_ret, written, copy>>
    BY <1>4 DEF Aio!CallbackData
  <2>2. /\ aio_offset \in Nat /\ aio_ret \in Nat /\ aio_nbytes \in Nat /\ buf_size \in Nat
        /\ buf_size > 0 /\ flen \in Nat /\ old \in Nat /\ written \in Nat
        /\ content = Upto(aio_offset) /\ aio_ret <= aio_nbytes /\ n <= flen
        /\ aio_offset + aio_nbytes <= buf_size
    BY <2>1
  <2>3. content' = content \o [i \in 1..aio_ret |-> aio_offset + i]
    BY <1>4 DEF Aio!CallbackData
  <2>4. Upto(aio_offset) \o [i \in 1..aio_ret |-> aio_offset + i] = Upto(aio_offset + aio_ret)
    BY <2>2, UptoAppend
  <2>5. content' = Upto(n)
    BY <2>2, <2>3, <2>4
  <2>6. n \in Nat /\ n <= buf_size
    BY <2>2
  <2> HIDE DEF n
  <2>7. Len(content') = n
    BY <2>5, <2>6, UptoLen
  <2>8. buf_size' = IF buf_size - n <= REALLOC_THRESHOLD THEN 2 * buf_size ELSE buf_size
    BY <1>4, <2>7 DEF Aio!CallbackData, Aio!NeedsRoom
  <2>9. buf_size' \in Nat /\ buf_size' > 0 /\ n < buf_size'
    BY <2>2, <2>6, <2>8, AioConstants
  <2>10. CASE aio_offset' = Len(content') /\ aio_nbytes' = buf_size' - Len(content') /\ aio' = "reading"
    <3>1. aio_offset' = n /\ aio_nbytes' = buf_size' - n
      BY <2>7, <2>10
    <3>2. aio_nbytes' \in Nat /\ aio_nbytes' > 0 /\ aio_offset' + aio_nbytes' <= buf_size'
      <4>1. buf_size' - n \in Nat /\ buf_size' - n > 0 /\ n + (buf_size' - n) <= buf_size'
        <5> HIDE DEF AioInv
        <5> QED
          BY <2>6, <2>9, RoomLeft
      <4> HIDE DEF AioInv
      <4> QED
        BY <3>1, <4>1, Zenon
    <3> HIDE DEF AioInv
    <3>3. AioTyped'
      BY <2>1, <2>2, <2>6, <2>9, <3>1, <3>2
    <3>4. AioContent'
      BY <2>1, <2>2, <2>5, <2>10, <3>1 DEF AioInv
    <3>5. AioRoom'
      BY <2>10, <3>2
    <3> QED
      BY <3>3, <3>4, <3>5 DEF AioInv
  <2>11. CASE aio' = "exited" /\ UNCHANGED <<aio_offset, aio_nbytes>>
    BY <2>1, <2>9, <2>11
  <2> QED
    BY <1>4, <2>10, <2>11 DEF Aio!CallbackData
<1>5. CASE Aio!CallbackEof
  <2>1. CASE /\ aio' = "ended" /\ written' \in 0..Len(content)
             /\ copy' = Aio!Overwritten(copy, written')
             /\ UNCHANGED <<flen, old, content, buf_size, aio_offset, aio_nbytes, aio_ret, checks>>
    <3>1. content = Upto(flen) /\ copy = Over(0, old) /\ flen \in Nat /\ old \in Nat
      BY <1>5 DEF Aio!CallbackEof
    <3>2. written' \in 0..flen
      BY <2>1, <3>1, UptoLen
    <3>3. copy' = Over(written', old)
      BY <2>1, <3>1, <3>2, OverWritten
    <3> QED
      BY <2>1, <3>1, <3>2, <3>3
  <2> QED
    BY <1>0, <1>5, <2>1 DEF Aio!CallbackEof
<1>6. CASE Aio!CallbackError
  BY <1>6 DEF Aio!CallbackError
<1> QED
  BY <1>1, <1>2, <1>3, <1>4, <1>5, <1>6 DEF Aio!Next, Aio!read_callback

\* async_read_write.c: for any file, old copy, first size and threshold, every read
\* has room for at least a byte and stays within the buffer, and what is handed to
\* write at the end is the whole file; the copy begins with what write took of it,
\* and is the file if write took all and the old copy was not longer.
THEOREM AioCopiesWholeFile == SysSpec => []AioCopyIsWhole
<1>1. SysInit => AioInv
  BY AioStarts DEF SysInit
<1>2. AioInv /\ [SysNext]_sys_vars => AioInv'
  <2> SUFFICES ASSUME AioInv, [SysNext]_sys_vars PROVE AioInv'
    OBVIOUS
  <2>1. CASE InAio /\ Aio!Next
    BY <2>1, AioStep
  <2>2. CASE UNCHANGED aio_vars
    BY <2>2 DEF aio_vars, AioInv, AioTyped, AioContent, AioRoom
  <2> QED
    BY <2>1, <2>2 DEF SysNext, sys_vars, InPhil, InMem, InMemTest, InCond, InIoctl
<1>3. AioInv => AioCopyIsWhole
  <2> SUFFICES ASSUME AioInv PROVE Aio!CopyIsWhole
    BY DEF AioCopyIsWhole
  <2>1. ASSUME aio = "reading" PROVE aio_nbytes > 0 /\ Len(content) + aio_nbytes <= buf_size
    <3>1. content = Upto(aio_offset) /\ aio_offset \in Nat
      BY <2>1 DEF AioInv, AioTyped, AioContent
    <3>2. Len(content) = aio_offset
      BY <3>1, UptoLen
    <3> QED
      BY <2>1, <3>2 DEF AioInv, AioRoom
  <2>2. /\ \A i \in 1..written : copy[i] = i
        /\ aio = "ended" /\ aio_ret = 0 =>
             content = [i \in 1..flen |-> i] /\ (written = flen /\ old <= flen => copy = content)
    <3>1. written \in Nat /\ old \in Nat /\ copy = Over(written, old)
      BY DEF AioInv, AioTyped, AioContent
    <3>2. /\ \A i \in 1..written : copy[i] = i
          /\ old <= written => copy = Upto(written)
      BY <3>1, OverAll
    <3>3. aio = "ended" /\ aio_ret = 0 => content = Upto(flen)
      BY DEF AioInv, AioContent
    <3> QED
      BY <3>2, <3>3 DEF Upto
  <2> QED
    BY <2>1, <2>2 DEF Aio!CopyIsWhole
<1> QED
  BY <1>1, <1>2, <1>3, PTL DEF SysSpec

-----------------------------------------------------------------------------
(***************************************************************************)
(* MemPool, for every size and count of objects the word has room for, any *)
(* number of slabs, and any order of gets and puts.  The invariant says    *)
(* that some sequence s is the free list: the objects nobody holds, each   *)
(* once, where the word at one is the location of the next, and the word   *)
(* at an object in use is its own location.  A get drops the head of s, a  *)
(* put adds one, an expansion starts the list of the new slab.  That the   *)
(* list a reader of the words finds is s follows from the least place      *)
(* where another reading would differ.                                     *)
(***************************************************************************)

\* Where an object may be: its offset is not the one that ends the list.
Place == {l \in Nat \X Nat : l[2] + 1 < Mem!MP_SLAB_SIZE}

\* The arithmetic of a packed location.
LEMMA DivMod ==
    ASSUME NEW S \in Nat \ {0}, NEW k \in Nat, NEW o \in 0..S - 1
    PROVE  (k * S + o) \div S = k /\ (k * S + o) % S = o
<1> DEFINE a == k * S + o
           q == a \div S
           r == a % S
<1>1. a \in Nat /\ k * S \in Nat
  OBVIOUS
<1>2. q \in Int /\ r \in 0..S - 1 /\ a = S * q + r
  BY <1>1
<1> HIDE DEF q, r
<1>3. S * (k - q) = r - o
  BY <1>2
<1>4. ~(k - q >= 1)
  <2> SUFFICES ASSUME k - q >= 1 PROVE FALSE
    OBVIOUS
  <2>1. S * (k - q) >= S
    BY <1>2
  <2> QED BY <1>2, <1>3, <2>1
<1>5. ~(k - q <= -1)
  <2> SUFFICES ASSUME k - q <= -1 PROVE FALSE
    OBVIOUS
  <2>1. S * (k - q) <= -S
    BY <1>2
  <2> QED BY <1>2, <1>3, <2>1
<1>6. k = q
  BY <1>2, <1>4, <1>5
<1>7. r = o
  BY <1>2, <1>3, <1>6
<1> QED BY <1>6, <1>7 DEF q, r

\* What the provers know of division, to cite where there is more arithmetic.
LEMMA Division ==
    ASSUME NEW n \in Nat, NEW d \in Nat \ {0}
    PROVE  n \div d \in Int /\ n % d \in 0..d - 1 /\ n = d * (n \div d) + (n % d)
  OBVIOUS

\* A location is found again in its word, which is not the end of the list.
LEMMA PlaceWord ==
    ASSUME NEW l \in Place
    PROVE  /\ Mem!ToWord(l) \in Nat /\ Mem!ToLocation(Mem!ToWord(l)) = l
           /\ ~Mem!IsEnd(Mem!ToWord(l))
<1> DEFINE S == Mem!MP_SLAB_SIZE
<1>1. PICK k \in Nat, o \in Nat : l = <<k, o>>
  BY DEF Place
<1>2. S \in Nat \ {0} /\ o \in 0..S - 1 /\ o # S - 1
  BY <1>1, MemConstants DEF Place
<1>3. Mem!ToWord(l) = k * S + o
  BY <1>1 DEF Mem!ToWord
<1>3a. Mem!MP_OFFSET_INVALID = S - 1
  BY DEF Mem!MP_OFFSET_INVALID, Mem!MP_SLAB_SIZE
<1> HIDE DEF S
<1>4. (k * S + o) \div S = k /\ (k * S + o) % S = o /\ k * S + o \in Nat
  BY <1>2, DivMod
<1> QED
  BY <1>1, <1>2, <1>3, <1>3a, <1>4 DEF Mem!ToLocation, Mem!IsEnd, S

\* The word that ends the list, in any slab.
LEMMA EndWord ==
    ASSUME NEW k \in Nat
    PROVE  /\ Mem!ToWord(<<k, Mem!MP_OFFSET_INVALID>>) \in Nat
           /\ Mem!IsEnd(Mem!ToWord(<<k, Mem!MP_OFFSET_INVALID>>))
<1> DEFINE S == Mem!MP_SLAB_SIZE
           o == S - 1
<1>1. S \in Nat \ {0} /\ o \in 0..S - 1
  BY MemConstants
<1>2. Mem!MP_OFFSET_INVALID = o
  BY DEF Mem!MP_OFFSET_INVALID, Mem!MP_SLAB_SIZE
<1>3. Mem!ToWord(<<k, o>>) = k * S + o
  BY DEF Mem!ToWord
<1> HIDE DEF S, o
<1>4. (k * S + o) % S = o /\ k * S + o \in Nat
  BY <1>1, DivMod
<1> QED
  BY <1>2, <1>3, <1>4 DEF Mem!IsEnd, S

\* argo_mem_pool_create: sizes that do not wrap leave room for every object.
LEMMA SizesFit ==
    ASSUME NEW sz, NEW cnt, Sized(sz, cnt),
           NEW a, a = Mem!AdjustedSz(sz), NEW c, c = Mem!AdjustedCnt(a, cnt)
    PROVE  /\ a \in Nat /\ a >= 8 /\ c \in Nat \ {0} /\ a * c <= Mem!MP_SLAB_SIZE
           /\ Mem!Fits(a, c)
<1> DEFINE S == Mem!MP_SLAB_SIZE
           W == 2^WordBits
<1>1. /\ S \in Nat \ {0} /\ W \in Nat \ {0} /\ sz \in Nat /\ cnt \in Nat \ {0} /\ sz + 15 < W
      /\ a <= S /\ a * cnt < W
  BY MemConstants DEF Sized
<1>2. a = (((((sz + 8) % W) + 7) % W) \div 8) * 8
  BY DEF Mem!AdjustedSz, Mem!Wrap, Mem!MP_METADATA_SZ
<1>3. c = IF (a * cnt) % W > S THEN S \div a ELSE cnt
  BY DEF Mem!AdjustedCnt, Mem!Wrap
<1>4. Mem!Fits(a, c) <=> c > 0 /\ a > 0 /\ a * c <= (a * c) % W
  BY DEF Mem!Fits, Mem!Wrap
<1> HIDE DEF S, W
<1>5. \A n \in Nat : n < W => n % W = n
  BY <1>1
<1>6. (sz + 8) % W = sz + 8 /\ ((sz + 8) + 7) % W = sz + 15
  BY <1>1, <1>5
<1>7. a \in Nat /\ a >= 8
  BY <1>1, <1>2, <1>6
<1>8. a * cnt \in Nat /\ (a * cnt) % W = a * cnt
  BY <1>1, <1>5, <1>7
<1>9. c \in Nat \ {0} /\ a * c <= S /\ a * c < W
  <2>1. CASE a * cnt > S
    <3>1. c = S \div a
      BY <1>3, <1>8, <2>1
    <3>2. S = a * (S \div a) + (S % a) /\ S % a \in 0..a - 1 /\ S \div a \in Int
      <4>1. a \in Nat \ {0}
        BY <1>7
      <4> QED BY <1>1, <4>1, Division, Zenon
    <3> DEFINE d == S \div a
    <3> HIDE DEF d
    <3>3. d >= 1
      <4> SUFFICES ASSUME d <= 0 PROVE FALSE
        BY <3>2 DEF d
      <4>1. a * d <= 0
        BY <1>7, <3>2 DEF d
      <4> QED BY <1>1, <1>7, <3>2, <4>1 DEF d
    <3>4. a * d <= S
      BY <1>1, <1>7, <3>2 DEF d
    <3>5. c = d
      BY <3>1 DEF d
    <3>6. d \in Nat \ {0}
      BY <3>2, <3>3 DEF d
    <3>7. a * d < W
      BY <1>1, <1>7, <1>8, <2>1, <3>4, <3>6
    <3> QED BY <3>4, <3>5, <3>6, <3>7
  <2>2. CASE ~(a * cnt > S)
    BY <1>1, <1>3, <1>7, <1>8, <2>2
  <2> QED BY <2>1, <2>2
<1>10. a * c \in Nat /\ (a * c) % W = a * c
  BY <1>5, <1>7, <1>9
<1> QED
  BY <1>4, <1>7, <1>9, <1>10 DEF S

\* The i-th word of the list that begins with the word first.
Link(s, first, words, i) == IF i = 1 THEN first ELSE words[s[i - 1]]

\* s is the free list of the pool whose objects are all, of which used are in
\* use: it holds each of the others once and ends, and an object in use knows
\* where it is.
Chained(s, first, words, all, used) ==
    /\ all \in SUBSET Place /\ words \in [all -> Nat] /\ used \in SUBSET all
    /\ first \in Nat
    /\ \A l \in used : words[l] = Mem!ToWord(l)
    /\ s \in Seq(all \ used)
    /\ \A i, j \in 1..Len(s) : s[i] = s[j] => i = j
    /\ \A l \in all \ used : \E i \in 1..Len(s) : s[i] = l
    /\ \A i \in 1..Len(s) : Link(s, first, words, i) = Mem!ToWord(s[i])
    /\ Mem!IsEnd(Link(s, first, words, Len(s) + 1))

\* argo_mem_pool_get: the first word stands for the first object of the list,
\* and is the end only of an empty one.
LEMMA ChainHead ==
    ASSUME NEW s, NEW first, NEW words, NEW all, NEW used, Chained(s, first, words, all, used)
    PROVE  /\ Mem!IsEnd(first) <=> s = <<>>
           /\ s # <<>> => /\ Len(s) > 0 /\ s[1] \in all \ used /\ first = Mem!ToWord(s[1])
                          /\ Mem!ToLocation(first) = s[1]
<1>1. s \in Seq(all \ used) /\ all \in SUBSET Place /\ Len(s) \in Nat
  BY DEF Chained
<1>2. CASE s = <<>>
  <2>1. Len(s) = 0
    BY <1>2
  <2>2. Mem!IsEnd(Link(s, first, words, 1))
    BY <2>1 DEF Chained
  <2> QED BY <1>2, <2>2 DEF Link
<1>3. CASE s # <<>>
  <2>1. Len(s) > 0 /\ s[1] \in all \ used /\ 1 \in 1..Len(s)
    BY <1>1, <1>3
  <2>2. Link(s, first, words, 1) = Mem!ToWord(s[1])
    BY <2>1 DEF Chained
  <2>3. first = Mem!ToWord(s[1])
    BY <2>2 DEF Link
  <2>4. s[1] \in Place
    BY <1>1, <2>1
  <2> QED BY <1>3, <2>1, <2>3, <2>4, PlaceWord
<1> QED BY <1>2, <1>3

\* The end of argo_mem_pool_get: the list is the rest of the list.
LEMMA ChainTake ==
    ASSUME NEW s, NEW first, NEW words, NEW all, NEW used, Chained(s, first, words, all, used),
           s # <<>>
    PROVE  Chained(Tail(s), words[s[1]], [words EXCEPT ![s[1]] = Mem!ToWord(s[1])], all, used \cup {s[1]})
<1> DEFINE n == Len(s)
           t == Tail(s)
           h == s[1]
           w == [words EXCEPT ![h] = Mem!ToWord(h)]
<1>1. /\ all \in SUBSET Place /\ words \in [all -> Nat] /\ used \in SUBSET all
      /\ \A l \in used : words[l] = Mem!ToWord(l)
      /\ s \in Seq(all \ used)
      /\ \A i, j \in 1..n : s[i] = s[j] => i = j
      /\ \A l \in all \ used : \E i \in 1..n : s[i] = l
      /\ \A i \in 1..n : Link(s, first, words, i) = Mem!ToWord(s[i])
      /\ Mem!IsEnd(Link(s, first, words, n + 1))
  BY DEF Chained
<1>2. n \in Nat \ {0} /\ h \in all \ used /\ \A i \in 1..n : s[i] \in all \ used
  BY <1>1
<1>3. t \in Seq(all \ used) /\ Len(t) = n - 1 /\ \A i \in 1..n - 1 : t[i] = s[i + 1]
  BY <1>1, <1>2
<1>4. Mem!ToWord(h) \in Nat
  BY <1>1, <1>2, PlaceWord
<1>5. /\ w \in [all -> Nat] /\ w[h] = Mem!ToWord(h)
      /\ \A l \in all : l # h => w[l] = words[l]
  BY <1>1, <1>2, <1>4
<1> HIDE DEF n, t, h, w
<1>6. \A i \in 1..n : i # 1 => s[i] # h
  BY <1>1, <1>2 DEF h
<1>7. t \in Seq(all \ (used \cup {h}))
  <2>1. \A i \in 1..n - 1 : t[i] \in all \ (used \cup {h})
    BY <1>2, <1>3, <1>6
  <2> QED BY <1>2, <1>3, <2>1
<1>8. \A i, j \in 1..n - 1 : t[i] = t[j] => i = j
  <2> SUFFICES ASSUME NEW i \in 1..n - 1, NEW j \in 1..n - 1, t[i] = t[j] PROVE i = j
    OBVIOUS
  <2>1. i + 1 \in 1..n /\ j + 1 \in 1..n /\ s[i + 1] = s[j + 1]
    BY <1>2, <1>3
  <2>2. i + 1 = j + 1
    BY <1>1, <2>1
  <2> QED BY <2>2
<1>9. \A l \in all \ (used \cup {h}) : \E i \in 1..n - 1 : t[i] = l
  <2> SUFFICES ASSUME NEW l \in all \ (used \cup {h}) PROVE \E i \in 1..n - 1 : t[i] = l
    OBVIOUS
  <2>1. PICK i \in 1..n : s[i] = l
    BY <1>1
  <2>2. i # 1
    BY <2>1 DEF h
  <2>3. i - 1 \in 1..n - 1 /\ t[i - 1] = s[(i - 1) + 1] /\ (i - 1) + 1 = i
    BY <1>2, <1>3, <2>2
  <2> QED BY <2>1, <2>3
<1>10. ASSUME NEW i \in 1..n PROVE Link(t, words[h], w, i) = Link(s, first, words, i + 1)
  <2>1. Link(s, first, words, i + 1) = words[s[i]]
    BY DEF Link
  <2>2. CASE i = 1
    BY <2>1, <2>2 DEF Link, h
  <2>3. CASE i # 1
    <3>1. i - 1 \in 1..n - 1 /\ t[i - 1] = s[i]
      BY <1>2, <1>3, <2>3
    <3>2. s[i] \in all /\ s[i] # h
      BY <1>2, <1>6, <2>3
    <3> QED BY <1>5, <2>1, <2>3, <3>1, <3>2 DEF Link
  <2> QED BY <2>2, <2>3
<1>11. \A i \in 1..n - 1 : Link(t, words[h], w, i) = Mem!ToWord(t[i])
  <2> TAKE i \in 1..n - 1
  <2>1. i \in 1..n /\ i + 1 \in 1..n /\ t[i] = s[i + 1]
    BY <1>2, <1>3
  <2> QED BY <1>1, <1>10, <2>1
<1>12. Mem!IsEnd(Link(t, words[h], w, (n - 1) + 1))
  <2>1. (n - 1) + 1 = n /\ n \in 1..n
    BY <1>2
  <2> QED BY <1>1, <1>10, <2>1
<1>13. /\ words[h] \in Nat /\ used \cup {h} \in SUBSET all
       /\ \A l \in used \cup {h} : w[l] = Mem!ToWord(l)
  BY <1>1, <1>2, <1>5
<1>14. Chained(t, words[h], w, all, used \cup {h})
  BY <1>1, <1>3, <1>5, <1>7, <1>8, <1>9, <1>11, <1>12, <1>13 DEF Chained
<1> QED BY <1>14 DEF t, h, w

\* argo_mem_pool_put: the object is put in front.
LEMMA ChainPut ==
    ASSUME NEW s, NEW first, NEW words, NEW all, NEW used, Chained(s, first, words, all, used),
           NEW h \in used
    PROVE  Chained(<<h>> \o s, words[h], [words EXCEPT ![h] = first], all, used \ {h})
<1> DEFINE n == Len(s)
           t == <<h>> \o s
           w == [words EXCEPT ![h] = first]
<1>1. /\ all \in SUBSET Place /\ words \in [all -> Nat] /\ used \in SUBSET all /\ first \in Nat
      /\ \A l \in used : words[l] = Mem!ToWord(l)
      /\ s \in Seq(all \ used)
      /\ \A i, j \in 1..n : s[i] = s[j] => i = j
      /\ \A l \in all \ used : \E i \in 1..n : s[i] = l
      /\ \A i \in 1..n : Link(s, first, words, i) = Mem!ToWord(s[i])
      /\ Mem!IsEnd(Link(s, first, words, n + 1))
  BY DEF Chained
<1>2. n \in Nat /\ h \in all /\ \A i \in 1..n : s[i] \in all \ used
  BY <1>1
<1>3. t \in Seq(all) /\ Len(t) = n + 1 /\ t[1] = h /\ \A i \in 1..n : t[i + 1] = s[i]
  <2>1. <<h>> \in Seq(all) /\ s \in Seq(all) /\ Len(<<h>>) = 1 /\ <<h>>[1] = h
    BY <1>1, <1>2
  <2>2. /\ t \in Seq(all) /\ Len(t) = 1 + n
        /\ \A i \in 1..1 + n : t[i] = IF i <= 1 THEN <<h>>[i] ELSE s[i - 1]
    BY <2>1, ConcatProperties
  <2> HIDE DEF t, n
  <2>3. \A i \in 1..n : i + 1 \in 1..1 + n /\ ~(i + 1 <= 1) /\ (i + 1) - 1 = i
    BY <1>2
  <2> QED BY <1>2, <2>1, <2>2, <2>3
<1>5. /\ w \in [all -> Nat] /\ w[h] = first
      /\ \A l \in all : l # h => w[l] = words[l]
  BY <1>1, <1>2
<1> HIDE DEF n, t, w
<1>6. \A i \in 1..n + 1 : i # 1 => i - 1 \in 1..n /\ t[i] = s[i - 1]
  <2> SUFFICES ASSUME NEW i \in 1..n + 1, i # 1 PROVE i - 1 \in 1..n /\ t[i] = s[i - 1]
    OBVIOUS
  <2>1. i - 1 \in 1..n /\ (i - 1) + 1 = i
    BY <1>2
  <2> QED BY <1>3, <2>1
<1>7. t \in Seq(all \ (used \ {h}))
  <2>1. \A i \in 1..n + 1 : t[i] \in all \ (used \ {h})
    BY <1>2, <1>3, <1>6
  <2> QED BY <1>2, <1>3, <2>1
<1>8. \A i, j \in 1..n + 1 : t[i] = t[j] => i = j
  <2> SUFFICES ASSUME NEW i \in 1..n + 1, NEW j \in 1..n + 1, t[i] = t[j] PROVE i = j
    OBVIOUS
  <2>1. CASE i = 1 \/ j = 1
    <3>1. \A k \in 1..n + 1 : k # 1 => t[k] # h
      BY <1>2, <1>6
    <3> QED BY <1>3, <2>1, <3>1
  <2>2. CASE i # 1 /\ j # 1
    <3>1. i - 1 \in 1..n /\ j - 1 \in 1..n /\ s[i - 1] = s[j - 1]
      BY <1>6, <2>2
    <3>2. i - 1 = j - 1
      BY <1>1, <3>1
    <3> QED BY <3>2
  <2> QED BY <2>1, <2>2
<1>9. \A l \in all \ (used \ {h}) : \E i \in 1..n + 1 : t[i] = l
  <2> SUFFICES ASSUME NEW l \in all \ (used \ {h}) PROVE \E i \in 1..n + 1 : t[i] = l
    OBVIOUS
  <2>1. CASE l = h
    <3>1. 1 \in 1..n + 1
      BY <1>2
    <3> QED BY <1>3, <2>1, <3>1
  <2>2. CASE l # h
    <3>1. PICK i \in 1..n : s[i] = l
      BY <1>1, <2>2
    <3>2. i + 1 \in 1..n + 1 /\ t[i + 1] = l
      BY <1>2, <1>3, <3>1
    <3> QED BY <3>2
  <2> QED BY <2>1, <2>2
<1>10. ASSUME NEW i \in 1..n + 1 PROVE Link(t, words[h], w, i + 1) = Link(s, first, words, i)
  <2>1. Link(t, words[h], w, i + 1) = w[t[i]]
    BY DEF Link
  <2>2. CASE i = 1
    BY <1>3, <1>5, <2>1, <2>2 DEF Link
  <2>3. CASE i # 1
    <3>1. i - 1 \in 1..n /\ t[i] = s[i - 1]
      BY <1>6, <2>3
    <3>2. s[i - 1] \in all /\ s[i - 1] # h
      BY <1>2, <3>1
    <3> QED BY <1>5, <2>1, <2>3, <3>1, <3>2 DEF Link
  <2> QED BY <2>2, <2>3
<1>11. \A i \in 1..n + 1 : Link(t, words[h], w, i) = Mem!ToWord(t[i])
  <2> TAKE i \in 1..n + 1
  <2>1. CASE i = 1
    BY <1>1, <1>3, <2>1 DEF Link
  <2>2. CASE i # 1
    <3>1. i - 1 \in 1..n /\ i - 1 \in 1..n + 1 /\ (i - 1) + 1 = i /\ t[i] = s[i - 1]
      BY <1>2, <1>6, <2>2
    <3>2. Link(t, words[h], w, i) = Link(s, first, words, i - 1)
      BY <1>10, <3>1
    <3> QED BY <1>1, <3>1, <3>2
  <2> QED BY <2>1, <2>2
<1>12. Mem!IsEnd(Link(t, words[h], w, (n + 1) + 1))
  <2>1. n + 1 \in 1..n + 1
    BY <1>2
  <2> QED BY <1>1, <1>10, <2>1
<1>13. /\ words[h] \in Nat /\ used \ {h} \in SUBSET all
       /\ \A l \in used \ {h} : w[l] = Mem!ToWord(l)
  BY <1>1, <1>2, <1>5
<1>14. Chained(t, words[h], w, all, used \ {h})
  BY <1>1, <1>3, <1>5, <1>7, <1>8, <1>9, <1>11, <1>12, <1>13 DEF Chained
<1> QED BY <1>14 DEF t, w

\* The objects of a slab lie in it, and are different ones.
LEMMA SlotPlaces ==
    ASSUME NEW k \in Nat, NEW sz \in Nat, sz >= 8, NEW cnt \in Nat \ {0},
           sz * cnt <= Mem!MP_SLAB_SIZE
    PROVE  /\ \A i \in 0..cnt - 1 : i * sz \in Nat /\ <<k, i * sz>> \in Place
           /\ \A i, j \in 0..cnt - 1 : i * sz = j * sz => i = j
           /\ Mem!Slots(k, sz, cnt) \in SUBSET Place
<1> DEFINE S == Mem!MP_SLAB_SIZE
<1>1. S \in Nat
  BY MemConstants
<1>2. ASSUME NEW i \in 0..cnt - 1 PROVE i * sz \in Nat /\ i * sz + 1 < S
  <2>1. i + 1 <= cnt /\ i \in Nat
    OBVIOUS
  <2>2. sz * (i + 1) <= sz * cnt
    BY <2>1
  <2>3. sz * (i + 1) = i * sz + sz /\ i * sz \in Nat
    BY <2>1
  <2> QED BY <1>1, <2>2, <2>3
<1>3. \A i \in 0..cnt - 1 : <<k, i * sz>> \in Place
  BY <1>2 DEF Place
<1>4. ASSUME NEW i \in 0..cnt - 1, NEW j \in 0..cnt - 1, i * sz = j * sz PROVE i = j
  <2>1. ASSUME NEW a \in Nat, NEW b \in Nat, a < b PROVE a * sz # b * sz
    <3>1. (b - a) * sz > 0 /\ b * sz = a * sz + (b - a) * sz
      BY <2>1
    <3> QED BY <3>1
  <2> QED BY <1>4, <2>1
<1>5. Mem!Slots(k, sz, cnt) \in SUBSET Place
  BY <1>3 DEF Mem!Slots
<1> QED BY <1>2, <1>3, <1>4, <1>5

\* __mp_free_list_init makes a list of all objects of the slab.
LEMMA ChainFresh ==
    ASSUME NEW k \in Nat, NEW sz \in Nat, sz >= 8, NEW cnt \in Nat \ {0},
           sz * cnt <= Mem!MP_SLAB_SIZE
    PROVE  Chained([i \in 1..cnt |-> <<k, (i - 1) * sz>>], Mem!ToWord(<<k, 0>>),
                   Mem!FreeListInit(k, sz, cnt), Mem!Slots(k, sz, cnt), {})
<1> DEFINE t == [i \in 1..cnt |-> <<k, (i - 1) * sz>>]
           first == Mem!ToWord(<<k, 0>>)
           F == Mem!FreeListInit(k, sz, cnt)
           all == Mem!Slots(k, sz, cnt)
           last == (cnt - 1) * sz
           end == Mem!MP_OFFSET_INVALID
<1>1. /\ \A i \in 0..cnt - 1 : i * sz \in Nat /\ <<k, i * sz>> \in Place
      /\ \A i, j \in 0..cnt - 1 : i * sz = j * sz => i = j
      /\ all \in SUBSET Place
  BY SlotPlaces
<1>2. all = {<<k, i * sz>> : i \in 0..cnt - 1}
  BY DEF Mem!Slots
<1>3. F = [l \in all |-> Mem!ToWord(<<k, IF l[2] = last THEN end ELSE l[2] + sz>>)]
  BY Zenon DEF Mem!FreeListInit
<1>4. /\ t \in Seq(all) /\ Len(t) = cnt
      /\ \A i \in 1..cnt : i - 1 \in 0..cnt - 1 /\ t[i] = <<k, (i - 1) * sz>>
  <2>1. \A i \in 1..cnt : i - 1 \in 0..cnt - 1
    OBVIOUS
  <2>2. \A i \in 1..cnt : <<k, (i - 1) * sz>> \in all
    BY <1>2, <2>1
  <2>3. \A i \in 1..cnt : t[i] = <<k, (i - 1) * sz>>
    OBVIOUS
  <2> HIDE DEF all
  <2>4. t \in [1..cnt -> all]
    BY <2>2, Zenon
  <2> HIDE DEF t
  <2>5. t \in Seq(all) /\ Len(t) = cnt
    BY <2>4
  <2> QED BY <2>1, <2>3, <2>5
<1> HIDE DEF t, F, all, last, end
<1>5. ASSUME NEW i \in 0..cnt - 1
      PROVE  /\ <<k, i * sz>> \in all
             /\ F[<<k, i * sz>>] = IF i = cnt - 1 THEN Mem!ToWord(<<k, end>>)
                                   ELSE Mem!ToWord(<<k, (i + 1) * sz>>)
  <2>1. <<k, i * sz>> \in all /\ <<k, i * sz>>[2] = i * sz
    BY <1>2
  <2>2. i * sz = last <=> i = cnt - 1
    <3>1. cnt - 1 \in 0..cnt - 1
      OBVIOUS
    <3> QED BY <1>1, <3>1 DEF last
  <2>3. (i + 1) * sz = i * sz + sz
    OBVIOUS
  <2> QED BY <1>3, <2>1, <2>2, <2>3
<1>6. F \in [all -> Nat]
  <2>1. ASSUME NEW l \in all PROVE F[l] \in Nat
    <3>1. PICK i \in 0..cnt - 1 : l = <<k, i * sz>>
      BY <1>2
    <3>2. CASE i = cnt - 1
      BY <1>5, <3>1, <3>2, EndWord DEF end
    <3>3. CASE i # cnt - 1
      <4>1. i + 1 \in 0..cnt - 1
        BY <3>3
      <4>2. <<k, (i + 1) * sz>> \in Place
        BY <1>1, <4>1
      <4> QED BY <1>5, <3>1, <3>3, <4>2, PlaceWord
    <3> QED BY <3>2, <3>3
  <2> QED BY <1>3, <2>1
<1>7. \A i, j \in 1..cnt : t[i] = t[j] => i = j
  <2> SUFFICES ASSUME NEW i \in 1..cnt, NEW j \in 1..cnt, t[i] = t[j] PROVE i = j
    OBVIOUS
  <2>1. (i - 1) * sz = (j - 1) * sz
    <3>1. <<k, (i - 1) * sz>> = <<k, (j - 1) * sz>>
      BY <1>4
    <3> QED BY <3>1
  <2>2. i - 1 = j - 1
    BY <1>1, <1>4, <2>1
  <2> QED BY <2>2
<1>8. \A l \in all : \E i \in 1..cnt : t[i] = l
  <2> SUFFICES ASSUME NEW l \in all PROVE \E i \in 1..cnt : t[i] = l
    OBVIOUS
  <2>1. PICK i \in 0..cnt - 1 : l = <<k, i * sz>>
    BY <1>2
  <2>2. i + 1 \in 1..cnt /\ (i + 1) - 1 = i
    OBVIOUS
  <2> QED BY <1>4, <2>1, <2>2
<1>9. \A i \in 1..cnt : Link(t, first, F, i) = Mem!ToWord(t[i])
  <2> TAKE i \in 1..cnt
  <2>1. CASE i = 1
    <3>1. t[1] = <<k, 0>>
      BY <1>4, <2>1
    <3> QED BY <2>1, <3>1 DEF Link
  <2>2. CASE i # 1
    <3>1. i - 1 \in 1..cnt /\ i - 2 \in 0..cnt - 1 /\ (i - 1) - 1 = i - 2 /\ (i - 2) + 1 = i - 1
          /\ i - 2 # cnt - 1
      BY <2>2
    <3>2. t[i - 1] = <<k, (i - 2) * sz>> /\ t[i] = <<k, (i - 1) * sz>>
      BY <1>4, <3>1
    <3>3. F[<<k, (i - 2) * sz>>] = Mem!ToWord(<<k, (i - 1) * sz>>)
      BY <1>5, <3>1
    <3> QED BY <2>2, <3>2, <3>3 DEF Link
  <2> QED BY <2>1, <2>2
<1>10. Mem!IsEnd(Link(t, first, F, cnt + 1))
  <2>1. cnt \in 1..cnt /\ cnt - 1 \in 0..cnt - 1 /\ cnt + 1 # 1 /\ (cnt + 1) - 1 = cnt
    OBVIOUS
  <2>2. t[cnt] = <<k, (cnt - 1) * sz>>
    BY <1>4, <2>1
  <2>3. F[t[cnt]] = Mem!ToWord(<<k, end>>)
    BY <1>5, <2>1, <2>2
  <2>4. Link(t, first, F, cnt + 1) = F[t[cnt]]
    BY <2>1 DEF Link
  <2> QED BY <2>3, <2>4, EndWord DEF end
<1>11. first \in Nat
  <2>1. 0 \in 0..cnt - 1 /\ 0 * sz = 0
    OBVIOUS
  <2>2. <<k, 0>> \in Place
    BY <1>1, <2>1
  <2> QED BY <2>2, PlaceWord
<1>12. all \ {} = all /\ {} \in SUBSET all
  OBVIOUS
<1>13. Chained(t, first, F, all, {})
  BY <1>1, <1>4, <1>6, <1>7, <1>8, <1>9, <1>10, <1>11, <1>12 DEF Chained
<1> QED BY <1>13 DEF t, F, all

\* argo_mem_pool_expand on a pool without a free object: the list is the new
\* slab's.
LEMMA ChainExpand ==
    ASSUME NEW s, NEW first, NEW new, NEW more, Chained(s, first, new, more, {}),
           NEW all \in SUBSET Place, NEW words \in [all -> Nat], \A l \in all : words[l] = Mem!ToWord(l),
           all \cap more = {}
    PROVE  Chained(s, first, [l \in all \cup more |-> IF l \in more THEN new[l] ELSE words[l]],
                   all \cup more, all)
<1> DEFINE n == Len(s)
           w == [l \in all \cup more |-> IF l \in more THEN new[l] ELSE words[l]]
<1>1. /\ more \in SUBSET Place /\ new \in [more -> Nat] /\ first \in Nat
      /\ s \in Seq(more \ {})
      /\ \A i, j \in 1..n : s[i] = s[j] => i = j
      /\ \A l \in more \ {} : \E i \in 1..n : s[i] = l
      /\ \A i \in 1..n : Link(s, first, new, i) = Mem!ToWord(s[i])
      /\ Mem!IsEnd(Link(s, first, new, n + 1))
  BY DEF Chained
<1>2. n \in Nat /\ \A i \in 1..n : s[i] \in more
  BY <1>1
<1>3. w \in [all \cup more -> Nat] /\ \A l \in more : w[l] = new[l]
  BY <1>1
<1>4. \A l \in all : w[l] = Mem!ToWord(l)
  OBVIOUS
<1>5. (all \cup more) \ all = more \ {}
  OBVIOUS
<1> HIDE DEF n, w
<1>6. ASSUME NEW i \in 1..n + 1 PROVE Link(s, first, w, i) = Link(s, first, new, i)
  <2>1. i # 1 => i - 1 \in 1..n
    BY <1>2
  <2> QED BY <1>2, <1>3, <2>1 DEF Link
<1>7. \A i \in 1..n : Link(s, first, w, i) = Mem!ToWord(s[i])
  <2> TAKE i \in 1..n
  <2>1. i \in 1..n + 1
    BY <1>2
  <2> QED BY <1>1, <1>6, <2>1
<1>8. Mem!IsEnd(Link(s, first, w, n + 1))
  <2>1. n + 1 \in 1..n + 1
    BY <1>2
  <2> QED BY <1>1, <1>6, <2>1
<1>9. all \cup more \in SUBSET Place /\ all \in SUBSET (all \cup more)
  BY <1>1
<1>10. Chained(s, first, w, all \cup more, all)
  BY <1>1, <1>3, <1>4, <1>5, <1>7, <1>8, <1>9 DEF Chained, n
<1> QED BY <1>10 DEF w

\* A set of numbers that is not empty has a least one.
LEMMA Least == ASSUME NEW T \in SUBSET Nat, T # {} PROVE \E x \in T : \A y \in T : x <= y
<1> DEFINE R == OpToRel(<, Nat)
<1>1. IsWellFoundedOn(R, Nat)
  BY NatLessThanWellFounded
<1>2. \A y, x \in Nat : y < x => <<y, x>> \in R
  BY DEF OpToRel
<1> HIDE DEF R
<1>3. PICK x \in T : \A y \in T : ~(<<y, x>> \in R)
  BY WFMin, <1>1
<1>4. ASSUME NEW y \in T PROVE x <= y
  <2>1. x \in Nat /\ y \in Nat
    OBVIOUS
  <2>2. ~(y < x)
    BY <1>2, <1>3, <2>1
  <2> QED
    BY <2>1, <2>2
<1> QED
  BY <1>3, <1>4

\* f reads the words of a free list one after the other, beginning with first.
Reads(f, m, first, words) ==
    f = [n \in 0..m |-> IF n = 0 THEN first
                        ELSE IF Mem!IsEnd(f[n - 1]) THEN f[n - 1]
                        ELSE words[Mem!ToLocation(f[n - 1])]]

\* There is one way to read it.
LEMMA OneReading ==
    ASSUME NEW m \in Nat, NEW first, NEW words, NEW f, NEW g,
           Reads(f, m, first, words), Reads(g, m, first, words)
    PROVE  f = g
<1> DEFINE B == {n \in 0..m : f[n] # g[n]}
           After(w) == IF Mem!IsEnd(w) THEN w ELSE words[Mem!ToLocation(w)]
<1>1. \A n \in 0..m : /\ f[n] = IF n = 0 THEN first ELSE After(f[n - 1])
                      /\ g[n] = IF n = 0 THEN first ELSE After(g[n - 1])
  BY DEF Reads
<1> HIDE DEF After
<1>2. B = {}
  <2> SUFFICES ASSUME B # {} PROVE FALSE
    OBVIOUS
  <2>1. B \in SUBSET Nat
    OBVIOUS
  <2>2. PICK x \in B : \A y \in B : x <= y
    BY <2>1, Least
  <2>3. x \in 0..m /\ f[x] # g[x]
    BY <2>2
  <2>4. x # 0
    BY <1>1, <2>3
  <2>5. x - 1 \in 0..m /\ ~(x <= x - 1)
    BY <2>3, <2>4
  <2>6. f[x - 1] = g[x - 1]
    BY <2>2, <2>5
  <2> QED
    BY <1>1, <2>3, <2>4, <2>6
<1>3. \A n \in 0..m : f[n] = g[n]
  BY <1>2
<1>4. /\ f = [n \in 0..m |-> f[n]]
      /\ g = [n \in 0..m |-> g[n]]
  BY DEF Reads
<1> QED
  BY <1>3, <1>4

\* Reading a list s gives the words of its objects and then the end.
LEMMA ChainReads ==
    ASSUME NEW s, NEW first, NEW words, NEW all, NEW used, Chained(s, first, words, all, used),
           NEW m \in Nat
    PROVE  Reads([n \in 0..m |-> Link(s, first, words, IF n < Len(s) THEN n + 1 ELSE Len(s) + 1)],
                 m, first, words)
<1> DEFINE l == Len(s)
           f == [n \in 0..m |-> Link(s, first, words, IF n < l THEN n + 1 ELSE l + 1)]
<1>1. /\ all \in SUBSET Place /\ s \in Seq(all \ used) /\ l \in Nat
      /\ \A i \in 1..l : Link(s, first, words, i) = Mem!ToWord(s[i])
      /\ Mem!IsEnd(Link(s, first, words, l + 1))
  BY DEF Chained
<1>2. \A i \in 1..l : s[i] \in Place
  BY <1>1
<1>3. \A i \in 1..l : /\ ~Mem!IsEnd(Link(s, first, words, i))
                      /\ Mem!ToLocation(Link(s, first, words, i)) = s[i]
                      /\ Link(s, first, words, i + 1) = words[s[i]]
  <2> SUFFICES ASSUME NEW i \in 1..l
               PROVE  /\ ~Mem!IsEnd(Link(s, first, words, i))
                      /\ Mem!ToLocation(Link(s, first, words, i)) = s[i]
                      /\ Link(s, first, words, i + 1) = words[s[i]]
    OBVIOUS
  <2>1. i + 1 # 1 /\ (i + 1) - 1 = i
    BY <1>1
  <2> QED BY <1>1, <1>2, <2>1, PlaceWord DEF Link
<1> HIDE DEF l
<1>4. ASSUME NEW n \in 0..m
      PROVE  f[n] = IF n = 0 THEN first
                    ELSE IF Mem!IsEnd(f[n - 1]) THEN f[n - 1]
                    ELSE words[Mem!ToLocation(f[n - 1])]
  <2>1. CASE n = 0
    <3>1. (IF n < l THEN n + 1 ELSE l + 1) = 1
      BY <1>1, <2>1
    <3> QED BY <2>1, <3>1 DEF Link
  <2>2. CASE n # 0 /\ n <= l
    <3>1. n \in 1..l /\ n - 1 \in 0..m /\ (IF n - 1 < l THEN (n - 1) + 1 ELSE l + 1) = n
          /\ (IF n < l THEN n + 1 ELSE l + 1) = n + 1
      BY <1>1, <2>2
    <3>2. f[n - 1] = Link(s, first, words, n) /\ f[n] = Link(s, first, words, n + 1)
      BY <3>1
    <3> QED BY <1>3, <2>2, <3>1, <3>2
  <2>3. CASE n # 0 /\ n > l
    <3>1. n - 1 \in 0..m /\ (IF n - 1 < l THEN (n - 1) + 1 ELSE l + 1) = l + 1
          /\ (IF n < l THEN n + 1 ELSE l + 1) = l + 1
      BY <1>1, <2>3
    <3>2. f[n - 1] = Link(s, first, words, l + 1) /\ f[n] = Link(s, first, words, l + 1)
      BY <3>1
    <3> QED BY <1>1, <2>3, <3>2
  <2> QED BY <1>1, <2>1, <2>2, <2>3
<1>5. f = [n \in 0..m |-> IF n = 0 THEN first
                          ELSE IF Mem!IsEnd(f[n - 1]) THEN f[n - 1]
                          ELSE words[Mem!ToLocation(f[n - 1])]]
  <2> DEFINE g == [n \in 0..m |-> IF n = 0 THEN first
                          ELSE IF Mem!IsEnd(f[n - 1]) THEN f[n - 1]
                          ELSE words[Mem!ToLocation(f[n - 1])]]
  <2>1. \A n \in 0..m : g[n] = f[n]
    BY <1>4
  <2>2. g = [n \in 0..m |-> g[n]] /\ f = [n \in 0..m |-> f[n]]
    OBVIOUS
  <2> HIDE DEF f, g
  <2>3. f = g
    BY <2>1, <2>2
  <2> QED BY <2>3 DEF g
<1> QED BY <1>5 DEF Reads, l

\* The free list of a pool whose objects are finitely many.
LEMMA ChainFinite ==
    ASSUME NEW s, NEW first, NEW words, NEW all, NEW used, Chained(s, first, words, all, used),
           IsFiniteSet(all)
    PROVE  Len(s) \in 0..Cardinality(all) /\ Cardinality(all) \in Nat
<1> DEFINE n == Len(s)
<1>1. n \in Nat /\ s \in [1..n -> all] /\ \A j, k \in 1..n : s[j] = s[k] => j = k
  BY DEF Chained
<1>2. s \in Injection(1..n, all)
  BY <1>1, Fun_IsInj
<1>3. Cardinality(1..n) <= Cardinality(all) /\ Cardinality(all) \in Nat
  BY <1>2, FS_Injection, FS_CardinalityType
<1>4. Cardinality(1..n) = n
  <2>1. Cardinality(1..n) = IF 1 > n THEN 0 ELSE n - 1 + 1
    BY <1>1, FS_Interval
  <2> QED BY <1>1, <2>1
<1> QED
  BY <1>1, <1>3, <1>4

\* The pool counts as everyone does.
LEMMA SameSize == ASSUME NEW S PROVE Mem!Cardinality(S) = Cardinality(S)
  BY Zenon DEF Mem!Cardinality, Cardinality

\* Hence the words list exactly the objects nobody holds.
LEMMA ChainExact ==
    ASSUME NEW s, Chained(s, free_next, meta, DOMAIN meta, held), IsFiniteSet(DOMAIN meta)
    PROVE  Mem!FreeListExact
<1> DEFINE m == Cardinality(DOMAIN meta)
           l == Len(s)
           f == [n \in 0..m |-> Link(s, free_next, meta, IF n < l THEN n + 1 ELSE l + 1)]
<1>1. l \in 0..m /\ m \in Nat
  BY ChainFinite
<1>2. Reads(f, m, free_next, meta)
  BY <1>1, ChainReads
<1>2a. m = Mem!Cardinality(DOMAIN meta)
  BY SameSize
<1>3. Mem!FreeList = CHOOSE g : Reads(g, m, free_next, meta)
  <2>1. Mem!FreeList = CHOOSE g : Reads(g, Mem!Cardinality(DOMAIN meta), free_next, meta)
    BY Zenon DEF Mem!FreeList, Reads
  <2> QED BY <1>2a, <2>1, Zenon
<1>4. Reads(Mem!FreeList, m, free_next, meta)
  BY <1>2, <1>3, Zenon
<1>5. Mem!FreeList = f
  BY <1>1, <1>2, <1>4, OneReading, Zenon
<1>6. /\ DOMAIN meta \in SUBSET Place /\ s \in Seq(DOMAIN meta \ held)
      /\ \A i \in 1..l : Link(s, free_next, meta, i) = Mem!ToWord(s[i])
      /\ \A x \in DOMAIN meta \ held : \E i \in 1..l : s[i] = x
      /\ Mem!IsEnd(Link(s, free_next, meta, l + 1))
  BY DEF Chained
<1>7. \A i \in 1..l : /\ ~Mem!IsEnd(Link(s, free_next, meta, i))
                      /\ Mem!ToLocation(Link(s, free_next, meta, i)) = s[i]
                      /\ s[i] \in DOMAIN meta \ held
  <2> SUFFICES ASSUME NEW i \in 1..l
               PROVE  /\ ~Mem!IsEnd(Link(s, free_next, meta, i))
                      /\ Mem!ToLocation(Link(s, free_next, meta, i)) = s[i]
                      /\ s[i] \in DOMAIN meta \ held
    OBVIOUS
  <2>1. s[i] \in DOMAIN meta \ held /\ s[i] \in Place
    BY <1>6
  <2> QED BY <1>6, <2>1, PlaceWord
<1> HIDE DEF l, m
<1>8. \A n \in 0..m : f[n] = Link(s, free_next, meta, IF n < l THEN n + 1 ELSE l + 1)
  OBVIOUS
<1>9. DOMAIN f = 0..m
  OBVIOUS
<1> HIDE DEF f
<1>10. Mem!IsEnd(f[m])
  <2>1. (IF m < l THEN m + 1 ELSE l + 1) = l + 1 /\ m \in 0..m
    BY <1>1
  <2> QED BY <1>6, <1>8, <2>1
<1>11. \A n \in 0..m : ~Mem!IsEnd(f[n]) => n + 1 \in 1..l /\ Mem!ToLocation(f[n]) = s[n + 1]
  <2> SUFFICES ASSUME NEW n \in 0..m, ~Mem!IsEnd(f[n])
               PROVE  n + 1 \in 1..l /\ Mem!ToLocation(f[n]) = s[n + 1]
    OBVIOUS
  <2>1. n < l
    BY <1>6, <1>8
  <2>2. n + 1 \in 1..l
    BY <1>1, <2>1
  <2> QED BY <1>7, <1>8, <2>1, <2>2
<1>12. \A i \in 1..l : i - 1 \in 0..m /\ ~Mem!IsEnd(f[i - 1]) /\ Mem!ToLocation(f[i - 1]) = s[i]
  <2> SUFFICES ASSUME NEW i \in 1..l
               PROVE  i - 1 \in 0..m /\ ~Mem!IsEnd(f[i - 1]) /\ Mem!ToLocation(f[i - 1]) = s[i]
    OBVIOUS
  <2>1. i - 1 \in 0..m /\ i - 1 < l /\ (i - 1) + 1 = i
    BY <1>1
  <2> QED BY <1>7, <1>8, <2>1
<1>13. {Mem!ToLocation(f[n]) : n \in {k \in DOMAIN f : ~Mem!IsEnd(f[k])}} = DOMAIN meta \ held
  <2>1. ASSUME NEW n \in 0..m, ~Mem!IsEnd(f[n]) PROVE Mem!ToLocation(f[n]) \in DOMAIN meta \ held
    BY <1>7, <1>11, <2>1
  <2>2. ASSUME NEW x \in DOMAIN meta \ held
        PROVE  \E n \in 0..m : ~Mem!IsEnd(f[n]) /\ Mem!ToLocation(f[n]) = x
    BY <1>6, <1>12
  <2> QED BY <1>9, <2>1, <2>2
<1>14. Mem!Free = DOMAIN meta \ held
  BY <1>5, <1>13 DEF Mem!Free
<1>15. Mem!IsEnd(Mem!FreeList[Mem!Cardinality(DOMAIN meta)])
  BY <1>2a, <1>5, <1>10
<1> QED BY <1>14, <1>15 DEF Mem!FreeListExact

\* Sizes that create leaves in a pool.
Roomy(sz, cnt) ==
    /\ sz \in Nat /\ sz >= 8 /\ cnt \in Nat \ {0} /\ sz * cnt <= Mem!MP_SLAB_SIZE
    /\ Mem!Fits(sz, cnt)

\* The objects of n slabs.
Objects(n, sz, cnt) == {<<k, i * sz>> : k \in 0..n - 1, i \in 0..cnt - 1}

\* The objects of n slabs are n times those of one.
LEMMA ObjectsCounted ==
    ASSUME NEW n \in Nat \ {0}, NEW sz, NEW cnt, Roomy(sz, cnt)
    PROVE  /\ IsFiniteSet(Objects(n, sz, cnt))
           /\ Cardinality(Objects(n, sz, cnt)) = n * cnt
<1> DEFINE A == 0..n - 1
           B == 0..cnt - 1
           O == Objects(n, sz, cnt)
           f == [p \in A \X B |-> <<p[1], p[2] * sz>>]
<1>1. /\ sz \in Nat /\ cnt \in Nat \ {0}
      /\ \A i, j \in B : i * sz = j * sz => i = j
  <2>1. sz \in Nat /\ sz >= 8 /\ cnt \in Nat \ {0} /\ sz * cnt <= Mem!MP_SLAB_SIZE /\ 0 \in Nat
    BY DEF Roomy
  <2> QED BY <2>1, SlotPlaces
<1>2. IsFiniteSet(A) /\ Cardinality(A) = n /\ IsFiniteSet(B) /\ Cardinality(B) = cnt
  <2>1. /\ IsFiniteSet(A) /\ Cardinality(A) = IF 0 > n - 1 THEN 0 ELSE (n - 1) - 0 + 1
        /\ IsFiniteSet(B) /\ Cardinality(B) = IF 0 > cnt - 1 THEN 0 ELSE (cnt - 1) - 0 + 1
    BY <1>1, FS_Interval
  <2> QED BY <1>1, <2>1
<1> HIDE DEF A, B
<1>3. f \in [A \X B -> O]
  BY DEF A, B, Objects
<1>4. ASSUME NEW p \in A \X B, NEW q \in A \X B, f[p] = f[q] PROVE p = q
  <2>1. PICK k \in A, i \in B : p = <<k, i>>
    OBVIOUS
  <2>2. PICK h \in A, j \in B : q = <<h, j>>
    OBVIOUS
  <2>3. f[p] = <<k, i * sz>> /\ f[q] = <<h, j * sz>>
    BY <2>1, <2>2
  <2>4. k = h /\ i * sz = j * sz
    BY <1>4, <2>3
  <2> QED BY <1>1, <2>1, <2>2, <2>4
<1>5. ASSUME NEW o \in O PROVE \E p \in A \X B : f[p] = o
  <2>1. PICK k \in A, i \in B : o = <<k, i * sz>>
    BY DEF A, B, Objects
  <2>2. <<k, i>> \in A \X B /\ f[<<k, i>>] = o
    BY <2>1
  <2> QED BY <2>2
<1> HIDE DEF f, O
<1>6. f \in Injection(A \X B, O)
  BY <1>3, <1>4, Fun_IsInj
<1>7. f \in Surjection(A \X B, O)
  BY <1>3, <1>5, Fun_IsSurj
<1>8. IsFiniteSet(A \X B) /\ Cardinality(A \X B) = n * cnt
  BY <1>2, FS_Product
<1>9. IsFiniteSet(O) /\ Cardinality(O) = n * cnt
  BY <1>6, <1>7, <1>8, FS_Surjection
<1> QED BY <1>9 DEF O

\* A slab more.
LEMMA ObjectsGrow ==
    ASSUME NEW n \in Nat, NEW sz, NEW cnt, Roomy(sz, cnt)
    PROVE  /\ Objects(n + 1, sz, cnt) = Objects(n, sz, cnt) \cup Mem!Slots(n, sz, cnt)
           /\ Objects(n, sz, cnt) \cap Mem!Slots(n, sz, cnt) = {}
<1>0. cnt \in Nat \ {0} /\ sz \in Nat
  BY DEF Roomy
<1>1. 0..(n + 1) - 1 = 0..n - 1 \cup {n} /\ n \notin 0..n - 1
  OBVIOUS
<1> DEFINE A == 0..n - 1
           A1 == 0..(n + 1) - 1
           B == 0..cnt - 1
<1>2. A1 = A \cup {n} /\ n \notin A
  BY <1>1
<1>3. /\ Objects(n + 1, sz, cnt) = {<<k, i * sz>> : k \in A1, i \in B}
      /\ Objects(n, sz, cnt) = {<<k, i * sz>> : k \in A, i \in B}
      /\ Mem!Slots(n, sz, cnt) = {<<n, i * sz>> : i \in B}
  BY DEF Objects, Mem!Slots
<1> HIDE DEF A, A1, B
<1> QED BY <1>2, <1>3

\* The pool: while it lives its free list is a chain of the objects nobody holds.
MemInv ==
    /\ state \in {"none", "live", "destroyed"}
    /\ state = "none" => held = {}
    /\ state # "none" => Roomy(obj_sz, obj_cnt)
    /\ state = "live" => /\ slab_cnt \in Nat \ {0}
                         /\ DOMAIN meta = Objects(slab_cnt, obj_sz, obj_cnt)
                         /\ \E s : Chained(s, free_next, meta, DOMAIN meta, held)

\* argo_mem_pool_create: every object is free.
LEMMA MemCreate ==
    ASSUME NEW sz, NEW cnt, Sized(sz, cnt), MemInv, Mem!Create(sz, cnt)
    PROVE  MemInv' /\ slab_cnt' = 1 /\ state' = "live" /\ held' = {}
<1>1. /\ state = "none" /\ obj_sz' = Mem!AdjustedSz(sz) /\ obj_cnt' = Mem!AdjustedCnt(obj_sz', cnt)
      /\ slab_cnt' = 1 /\ free_next' = 0 /\ held' = held
      /\ IF Mem!Fits(obj_sz', obj_cnt')
         THEN state' = "live" /\ meta' = Mem!FreeListInit(0, obj_sz', obj_cnt')
         ELSE state' = "corrupt" /\ UNCHANGED meta
  BY DEF Mem!Create
<1>2. Roomy(obj_sz', obj_cnt')
  BY <1>1, SizesFit DEF Roomy
<1>3. state' = "live" /\ meta' = Mem!FreeListInit(0, obj_sz', obj_cnt')
  BY <1>1, <1>2 DEF Roomy
<1>4. held' = {}
  BY <1>1 DEF MemInv
<1> DEFINE a == obj_sz'
           c == obj_cnt'
           t == [i \in 1..c |-> <<0, (i - 1) * a>>]
<1>5. Chained(t, Mem!ToWord(<<0, 0>>), meta', Mem!Slots(0, a, c), {})
  <2>1. a \in Nat /\ a >= 8 /\ c \in Nat \ {0} /\ a * c <= Mem!MP_SLAB_SIZE /\ 0 \in Nat
    BY <1>2 DEF Roomy
  <2> QED BY <1>3, <2>1, ChainFresh
<1>6. Mem!ToWord(<<0, 0>>) = 0
  BY MemConstants DEF Mem!ToWord
<1>7. DOMAIN (meta') = Mem!Slots(0, a, c) /\ Mem!Slots(0, a, c) = Objects(1, a, c)
  <2>1. DOMAIN (meta') = Mem!Slots(0, a, c)
    BY <1>3 DEF Mem!FreeListInit
  <2>2. Objects(0, a, c) = {}
    BY DEF Objects
  <2>3. Objects(0 + 1, a, c) = Objects(0, a, c) \cup Mem!Slots(0, a, c)
    BY <1>2, ObjectsGrow
  <2> QED BY <2>1, <2>2, <2>3
<1>8. Chained(t, free_next', meta', DOMAIN (meta'), held')
  BY <1>1, <1>4, <1>5, <1>6, <1>7
<1> HIDE DEF t
<1>9. Roomy(obj_sz, obj_cnt)'
  BY <1>2 DEF Roomy
<1>10. \E s : Chained(s, free_next', meta', DOMAIN (meta'), held')
  BY <1>8
<1>11. (DOMAIN meta = Objects(slab_cnt, obj_sz, obj_cnt))'
  BY <1>1, <1>7 DEF Objects
<1>12. (\E s : Chained(s, free_next, meta, DOMAIN meta, held))'
  BY <1>10 DEF Chained, Link
<1> QED
  BY <1>1, <1>3, <1>4, <1>9, <1>11, <1>12 DEF MemInv

\* The object get takes was free.
LEMMA MemGet ==
    ASSUME MemInv, Mem!Get
    PROVE  /\ MemInv' /\ UNCHANGED <<state, slab_cnt, obj_sz, obj_cnt>>
           /\ Mem!ToLocation(free_next) \notin held
           /\ held' = held \cup {Mem!ToLocation(free_next)}
<1> DEFINE h == Mem!ToLocation(free_next)
<1>1. /\ state = "live" /\ ~Mem!IsEnd(free_next)
      /\ free_next' = meta[h] /\ meta' = [meta EXCEPT ![h] = Mem!ToWord(h)] /\ held' = held \cup {h}
      /\ UNCHANGED <<state, obj_sz, obj_cnt, slab_cnt>>
  BY DEF Mem!Get, Mem!Take
<1>2. PICK s : Chained(s, free_next, meta, DOMAIN meta, held)
  BY <1>1 DEF MemInv
<1>3. s # <<>> /\ h = s[1] /\ h \in DOMAIN meta \ held
  BY <1>1, <1>2, ChainHead
<1>4. Chained(Tail(s), free_next', meta', DOMAIN meta, held')
  <2>1. Chained(Tail(s), meta[s[1]], [meta EXCEPT ![s[1]] = Mem!ToWord(s[1])], DOMAIN meta, held \cup {s[1]})
    BY <1>2, <1>3, ChainTake
  <2> QED BY <1>1, <1>3, <2>1
<1>5. DOMAIN (meta') = DOMAIN meta
  BY <1>1
<1>6. MemInv'
  <2>1. Chained(Tail(s), free_next', meta', DOMAIN (meta'), held')
    BY <1>4, <1>5
  <2>2. \E t : Chained(t, free_next', meta', DOMAIN (meta'), held')
    BY <2>1
  <2>3. (\E t : Chained(t, free_next, meta, DOMAIN meta, held))'
    BY <2>2 DEF Chained, Link
  <2>4. (DOMAIN meta = Objects(slab_cnt, obj_sz, obj_cnt))' /\ Roomy(obj_sz, obj_cnt)' /\ (slab_cnt \in Nat \ {0})'
    BY <1>1, <1>5 DEF Objects, Roomy, MemInv
  <2> QED BY <1>1, <2>3, <2>4 DEF MemInv
<1> QED
  BY <1>1, <1>3, <1>6

\* What an expansion does to the pool, whatever the limit on slabs.
Expand ==
    /\ state = "live" /\ Mem!IsEnd(free_next)
    /\ LET new == Mem!FreeListInit(slab_cnt, obj_sz, obj_cnt)
       IN  Mem!Take(Mem!ToWord(<<slab_cnt, 0>>),
                [loc \in DOMAIN meta \cup DOMAIN new |->
                    IF loc \in DOMAIN new THEN new[loc] ELSE meta[loc]])
    /\ slab_cnt' = slab_cnt + 1
    /\ UNCHANGED <<state, obj_sz, obj_cnt>>

\* argo_mem_pool_expand: the list had ended, so all other objects are in use.
LEMMA MemExpand ==
    ASSUME MemInv, Expand
    PROVE  /\ MemInv'
           /\ Mem!ToLocation(Mem!ToWord(<<slab_cnt, 0>>)) \notin held
           /\ held' = held \cup {Mem!ToLocation(Mem!ToWord(<<slab_cnt, 0>>))}
<1> DEFINE new == Mem!FreeListInit(slab_cnt, obj_sz, obj_cnt)
           more == Mem!Slots(slab_cnt, obj_sz, obj_cnt)
           w == [loc \in DOMAIN meta \cup more |-> IF loc \in more THEN new[loc] ELSE meta[loc]]
           first == Mem!ToWord(<<slab_cnt, 0>>)
           h == Mem!ToLocation(first)
           t == [i \in 1..obj_cnt |-> <<slab_cnt, (i - 1) * obj_sz>>]
<1>1. DOMAIN new = more
  BY DEF Mem!FreeListInit
<1>2. /\ state = "live" /\ Mem!IsEnd(free_next)
      /\ free_next' = w[h] /\ meta' = [w EXCEPT ![h] = Mem!ToWord(h)] /\ held' = held \cup {h}
      /\ slab_cnt' = slab_cnt + 1 /\ UNCHANGED <<state, obj_sz, obj_cnt>>
  BY <1>1 DEF Expand, Mem!Take
<1>3. /\ slab_cnt \in Nat \ {0} /\ DOMAIN meta = Objects(slab_cnt, obj_sz, obj_cnt)
      /\ Roomy(obj_sz, obj_cnt)
  BY <1>2 DEF MemInv
<1>4. PICK s : Chained(s, free_next, meta, DOMAIN meta, held)
  BY <1>2 DEF MemInv
<1>5. s = <<>>
  BY <1>2, <1>4, ChainHead
<1>6. held = DOMAIN meta /\ DOMAIN meta \in SUBSET Place /\ meta \in [DOMAIN meta -> Nat]
      /\ \A l \in DOMAIN meta : meta[l] = Mem!ToWord(l)
  <2>1. Len(s) = 0
    BY <1>5
  <2>2. /\ \A l \in DOMAIN meta \ held : \E i \in 1..Len(s) : s[i] = l
        /\ held \in SUBSET DOMAIN meta /\ DOMAIN meta \in SUBSET Place /\ meta \in [DOMAIN meta -> Nat]
        /\ \A l \in held : meta[l] = Mem!ToWord(l)
    BY <1>4 DEF Chained
  <2> QED BY <2>1, <2>2
<1>7. Chained(t, first, new, more, {})
  <2>1. /\ obj_sz \in Nat /\ obj_sz >= 8 /\ obj_cnt \in Nat \ {0} /\ obj_sz * obj_cnt <= Mem!MP_SLAB_SIZE
        /\ slab_cnt \in Nat
    BY <1>3 DEF Roomy
  <2> QED BY <2>1, ChainFresh
<1>8. DOMAIN meta \cap more = {} /\ Objects(slab_cnt + 1, obj_sz, obj_cnt) = DOMAIN meta \cup more
  BY <1>3, ObjectsGrow
<1> HIDE DEF new, more, first, t
<1>9. Chained(t, first, w, DOMAIN meta \cup more, held)
  BY <1>6, <1>7, <1>8, ChainExpand
<1>10. t # <<>> /\ h = t[1] /\ h \in (DOMAIN meta \cup more) \ held
  <2>1. ~Mem!IsEnd(first)
    <3>1. <<slab_cnt, 0>> \in Place
      <4>1. \A i \in 0..obj_cnt - 1 : i * obj_sz \in Nat /\ <<slab_cnt, i * obj_sz>> \in Place
        BY <1>3, SlotPlaces DEF Roomy
      <4>2. 0 \in 0..obj_cnt - 1 /\ 0 * obj_sz = 0
        BY <1>3 DEF Roomy
      <4> QED BY <4>1, <4>2
    <3> QED BY <3>1, PlaceWord DEF first
  <2> QED BY <1>9, <2>1, ChainHead
<1>11. Chained(Tail(t), free_next', meta', DOMAIN meta \cup more, held')
  <2> HIDE DEF w, h
  <2>1. Chained(Tail(t), w[t[1]], [w EXCEPT ![t[1]] = Mem!ToWord(t[1])], DOMAIN meta \cup more, held \cup {t[1]})
    BY <1>9, <1>10, ChainTake
  <2> QED BY <1>2, <1>10, <2>1
<1>12. DOMAIN (meta') = DOMAIN meta \cup more
  BY <1>2
<1>13. MemInv'
  <2>1. Chained(Tail(t), free_next', meta', DOMAIN (meta'), held')
    BY <1>11, <1>12
  <2>2. \E x : Chained(x, free_next', meta', DOMAIN (meta'), held')
    BY <2>1
  <2>3. (\E x : Chained(x, free_next, meta, DOMAIN meta, held))'
    BY <2>2 DEF Chained, Link
  <2>4. (DOMAIN meta = Objects(slab_cnt, obj_sz, obj_cnt))'
    BY <1>2, <1>8, <1>12 DEF Objects
  <2>5. Roomy(obj_sz, obj_cnt)' /\ (slab_cnt \in Nat \ {0})'
    BY <1>2, <1>3 DEF Roomy
  <2> QED BY <1>2, <2>3, <2>4, <2>5 DEF MemInv
<1> QED
  BY <1>2, <1>10, <1>13 DEF first

\* argo_mem_pool_put: the object is the first of the list.
LEMMA MemPut ==
    ASSUME MemInv, NEW loc, Mem!Put(loc)
    PROVE  MemInv' /\ UNCHANGED slab_cnt /\ held' = held \ {loc}
<1>1. /\ state = "live" /\ loc \in held
      /\ free_next' = meta[loc] /\ meta' = [meta EXCEPT ![loc] = free_next] /\ held' = held \ {loc}
      /\ UNCHANGED <<state, obj_sz, obj_cnt, slab_cnt>>
  BY DEF Mem!Put
<1>2. PICK s : Chained(s, free_next, meta, DOMAIN meta, held)
  BY <1>1 DEF MemInv
<1>3. Chained(<<loc>> \o s, free_next', meta', DOMAIN meta, held')
  <2>1. Chained(<<loc>> \o s, meta[loc], [meta EXCEPT ![loc] = free_next], DOMAIN meta, held \ {loc})
    BY <1>1, <1>2, ChainPut
  <2> QED BY <1>1, <2>1
<1>4. DOMAIN (meta') = DOMAIN meta
  BY <1>1
<1>5. MemInv'
  <2>1. Chained(<<loc>> \o s, free_next', meta', DOMAIN (meta'), held')
    BY <1>3, <1>4
  <2>2. \E t : Chained(t, free_next', meta', DOMAIN (meta'), held')
    BY <2>1
  <2>3. (\E t : Chained(t, free_next, meta, DOMAIN meta, held))'
    BY <2>2 DEF Chained, Link
  <2>4. (DOMAIN meta = Objects(slab_cnt, obj_sz, obj_cnt))' /\ Roomy(obj_sz, obj_cnt)' /\ (slab_cnt \in Nat \ {0})'
    BY <1>1, <1>4 DEF Objects, Roomy, MemInv
  <2> QED BY <1>1, <2>3, <2>4 DEF MemInv
<1> QED
  BY <1>1, <1>5

\* The test program calls the same functions of the pool.
LEMMA TestCreates == ASSUME NEW sz, NEW cnt, MemTest!Create(sz, cnt) PROVE Mem!Create(sz, cnt)
  BY DEF MemTest!Create, MemTest!AdjustedSz, MemTest!AdjustedCnt, MemTest!Fits, MemTest!FreeListInit,
         MemTest!Slots, MemTest!ToWord, MemTest!Wrap, MemTest!MP_METADATA_SZ, MemTest!MP_SLAB_SIZE,
         MemTest!MP_OFFSET_INVALID,
         Mem!Create, Mem!AdjustedSz, Mem!AdjustedCnt, Mem!Fits, Mem!FreeListInit,
         Mem!Slots, Mem!ToWord, Mem!Wrap, Mem!MP_METADATA_SZ, Mem!MP_SLAB_SIZE, Mem!MP_OFFSET_INVALID

\* ... which read and write the same words.
LEMMA SameWords ==
    /\ \A w : MemTest!ToLocation(w) = Mem!ToLocation(w) /\ (MemTest!IsEnd(w) <=> Mem!IsEnd(w))
    /\ \A l : MemTest!ToWord(l) = Mem!ToWord(l)
    /\ \A k, a, c : MemTest!FreeListInit(k, a, c) = Mem!FreeListInit(k, a, c)
  BY DEF MemTest!FreeListInit, MemTest!ToLocation, MemTest!IsEnd,
         MemTest!Slots, MemTest!ToWord, MemTest!MP_SLAB_SIZE, MemTest!MP_OFFSET_INVALID,
         Mem!FreeListInit, Mem!ToLocation, Mem!IsEnd,
         Mem!Slots, Mem!ToWord, Mem!MP_SLAB_SIZE, Mem!MP_OFFSET_INVALID

\* argo_mem_pool_get, when there is a free object.
LEMMA TestGets == MemTest!Get => Mem!Get
  BY SameWords DEF MemTest!Get, Mem!Get, MemTest!Take, Mem!Take

\* argo_mem_pool_get, when there is none.
LEMMA TestExpands == MemTest!GetExpand => Expand
  BY SameWords DEF MemTest!GetExpand, Expand, MemTest!Take, Mem!Take

\* argo_mem_pool_put
LEMMA TestPuts == ASSUME NEW loc, MemTest!Put(loc) PROVE Mem!Put(loc)
  BY DEF MemTest!Put, Mem!Put

\* What others do leaves the pool alone.
LEMMA MemStays == ASSUME MemInv, UNCHANGED mem_vars PROVE MemInv'
<1>1. UNCHANGED <<state, obj_sz, obj_cnt, slab_cnt, free_next, meta, held>>
  BY DEF mem_vars
<1>2. Roomy(obj_sz, obj_cnt)' <=> Roomy(obj_sz, obj_cnt)
  BY <1>1 DEF Roomy
<1>3. (\E s : Chained(s, free_next, meta, DOMAIN meta, held))' <=> \E s : Chained(s, free_next, meta, DOMAIN meta, held)
  BY <1>1 DEF Chained, Link
<1>4. (DOMAIN meta = Objects(slab_cnt, obj_sz, obj_cnt))' <=> DOMAIN meta = Objects(slab_cnt, obj_sz, obj_cnt)
  BY <1>1 DEF Objects
<1> QED BY <1>1, <1>2, <1>3, <1>4 DEF MemInv

\* argo_mem_pool_destroy
LEMMA MemDestroyed ==
    ASSUME MemInv, state = "live", state' = "destroyed", UNCHANGED <<obj_sz, obj_cnt>>
    PROVE  MemInv'
  BY DEF MemInv, Roomy

\* A pool with any caller keeps to its limit on slabs.
Limited == state = "live" => slab_cnt <= SlabsMax

\* Every call of any caller preserves the invariant ...
LEMMA MemStep == ASSUME MemInv, Limited, Mem!Next PROVE MemInv' /\ Limited'
<1>0. SlabsMax \in Nat \ {0}
  BY MemConstants
<1>1. ASSUME NEW sz \in ObjSzs, NEW cnt \in ObjCnts, Mem!Create(sz, cnt) PROVE MemInv' /\ Limited'
  <2>1. Sized(sz, cnt)
    BY MemConstants
  <2>2. MemInv' /\ slab_cnt' = 1
    BY <1>1, <2>1, MemCreate
  <2> QED BY <1>0, <2>2 DEF Limited
<1>2. CASE Mem!Get
  BY <1>2, MemGet DEF Limited
<1>3. CASE Mem!GetExpand
  <2>1. Expand /\ slab_cnt < SlabsMax /\ slab_cnt' = slab_cnt + 1 /\ state = "live"
    BY <1>3 DEF Mem!GetExpand, Expand
  <2>2. MemInv' /\ slab_cnt \in Nat
    BY <2>1, MemExpand DEF MemInv
  <2> QED BY <1>0, <2>1, <2>2 DEF Limited
<1>4. ASSUME NEW loc \in held, Mem!Put(loc) PROVE MemInv' /\ Limited'
  <2>1. MemInv' /\ UNCHANGED slab_cnt
    BY <1>4, MemPut
  <2>2. UNCHANGED state
    BY <1>4 DEF Mem!Put
  <2> QED BY <2>1, <2>2 DEF Limited
<1>5. CASE Mem!Destroy
  BY <1>5, MemDestroyed DEF Mem!Destroy, Limited
<1>6. CASE UNCHANGED mem_vars
  BY <1>6, MemStays DEF Limited, mem_vars
<1> QED
  BY <1>1, <1>2, <1>3, <1>4, <1>5, <1>6 DEF Mem!Next, Mem!GetNull, Mem!vars, mem_vars

\* A get of the test program returns an object nobody holds.
LEMMA TestGetStep ==
    ASSUME MemInv, MemTest!Get \/ MemTest!GetExpand, NEW loc,
           loc = MemTest!ToLocation(IF MemTest!IsEnd(free_next) THEN MemTest!ToWord(<<slab_cnt, 0>>)
                                                               ELSE free_next)
    PROVE  MemInv' /\ loc \notin held /\ held' = held \cup {loc}
<1>1. CASE MemTest!Get
  <2>1. Mem!Get
    BY <1>1, TestGets
  <2>2. ~Mem!IsEnd(free_next)
    BY <2>1 DEF Mem!Get
  <2>3. loc = Mem!ToLocation(free_next)
    BY <2>2, SameWords
  <2> QED BY <2>1, <2>3, MemGet
<1>2. CASE MemTest!GetExpand
  <2>1. Expand
    BY <1>2, TestExpands
  <2>2. Mem!IsEnd(free_next)
    BY <2>1 DEF Expand
  <2>3. loc = Mem!ToLocation(Mem!ToWord(<<slab_cnt, 0>>))
    BY <2>2, SameWords
  <2> QED BY <2>1, <2>3, MemExpand
<1> QED BY <1>1, <1>2

\* ... and so does every step of the test program.
LEMMA MemTestStep == ASSUME MemInv, MemTest!TestNext PROVE MemInv'
<1>1. CASE MemTest!Begin
  <2>1. \/ MemTest!Create(MemTest!OBJ_SZ, 2)
        \/ MemTest!Create(MemTest!OBJ_SZ, MemTest!OBJ_CNT)
    BY <1>1 DEF MemTest!Begin
  <2>2. Sized(MemTest!OBJ_SZ, MemTest!OBJ_CNT) /\ Sized(MemTest!OBJ_SZ, 2)
    BY MemConstants
  <2> QED BY <2>1, <2>2, TestCreates, MemCreate
<1>2. CASE MemTest!TestGet
  BY <1>2, TestGetStep DEF MemTest!TestGet
<1>3. CASE MemTest!TestPut
  BY <1>3, TestPuts, MemPut DEF MemTest!TestPut
<1>4. CASE MemTest!TestEnds
  <2>1. MemTest!Destroy \/ UNCHANGED mem_vars
    BY <1>4 DEF MemTest!TestEnds, mem_vars, MemTest!vars
  <2> QED BY <2>1, MemDestroyed, MemStays DEF MemTest!Destroy
<1>5. CASE MemTest!NextTest
  BY <1>5 DEF MemTest!NextTest, MemInv
<1>6. CASE MemTest!TestNull
  BY <1>6, MemStays DEF MemTest!TestNull, MemTest!GetNull, MemTest!vars, mem_vars
<1>7. CASE MemTest!BeginNull
  BY <1>7, MemStays DEF MemTest!BeginNull, MemTest!vars, mem_vars
<1> QED
  BY <1>1, <1>2, <1>3, <1>4, <1>5, <1>6, <1>7 DEF MemTest!TestNext

\* What the invariant says about the pool.
LEMMA MemSound == ASSUME MemInv, which = "mem" => Limited PROVE MemPoolSound
<1>1. Mem!SlabHoldsObjects
  BY DEF MemInv, Roomy, Mem!SlabHoldsObjects
<1>2. CASE state # "live"
  BY <1>1, <1>2 DEF MemPoolSound, Mem!FreeListExact, Mem!NullOnlyWhenExhausted
<1>3. CASE state = "live"
  <2>1. PICK s : Chained(s, free_next, meta, DOMAIN meta, held)
    BY <1>3 DEF MemInv
  <2>2. IsFiniteSet(DOMAIN meta) /\ Cardinality(DOMAIN meta) = slab_cnt * obj_cnt /\ slab_cnt \in Nat
    BY <1>3, ObjectsCounted DEF MemInv
  <2>3. Mem!FreeListExact
    BY <2>1, <2>2, ChainExact
  <2>4. ASSUME Limited, Mem!IsEnd(free_next), ~(slab_cnt < SlabsMax)
        PROVE  Mem!Cardinality(held) = SlabsMax * obj_cnt
    <3>1. s = <<>>
      BY <2>1, <2>4, ChainHead
    <3>2. Len(s) = 0
      BY <3>1
    <3>3. held = DOMAIN meta
      <4>1. /\ \A l \in DOMAIN meta \ held : \E i \in 1..Len(s) : s[i] = l
            /\ held \in SUBSET DOMAIN meta
        BY <2>1 DEF Chained
      <4> QED BY <3>2, <4>1
    <3>4. slab_cnt = SlabsMax
      BY <1>3, <2>2, <2>4, MemConstants DEF Limited
    <3> QED BY <2>2, <3>3, <3>4, SameSize
  <2> QED BY <1>1, <2>3, <2>4 DEF MemPoolSound, Mem!NullOnlyWhenExhausted
<1> QED BY <1>2, <1>3

\* argo_mem_pool.c, for every size and number of objects and slabs that the word
\* has room for: the objects lie within their slabs, the free list ends and is
\* exactly what nobody holds, and get fails for want of a slab only when every
\* object is in use; so also for the pools of the test program.
THEOREM MemPoolIsSound == SysSpec => []MemPoolSound
<1> DEFINE I == MemInv /\ (which = "mem" => Limited)
<1>1. SysInit => I
  BY DEF SysInit, Mem!Init, MemInv, Limited
<1>2. I /\ [SysNext]_sys_vars => I'
  <2> SUFFICES ASSUME I, [SysNext]_sys_vars PROVE I'
    OBVIOUS
  <2>1. CASE InMem /\ Mem!Next
    BY <2>1, MemStep DEF InMem
  <2>2. CASE InMemTest /\ MemTest!TestNext
    BY <2>2, MemTestStep DEF InMemTest
  <2>3. CASE UNCHANGED <<which, mem_vars>>
    <3>1. UNCHANGED <<which, state, slab_cnt>>
      BY <2>3 DEF mem_vars
    <3>2. MemInv'
      BY <2>3, MemStays
    <3> QED BY <3>1, <3>2 DEF Limited
  <2> QED
    BY <2>1, <2>2, <2>3 DEF SysNext, InPhil, InCond, InAio, InIoctl, sys_vars
<1>3. I => MemPoolSound
  BY MemSound
<1> QED
  BY <1>1, <1>2, <1>3, PTL DEF SysSpec

-----------------------------------------------------------------------------
(***************************************************************************)
(* MemPoolTests.  What a test has still to do fits what it holds: a put is *)
(* of an index that holds an object, a get into one that holds none.  Each *)
(* loop of the tests leads from some indices to others, and so do several  *)
(* loops one after the other.                                              *)
(***************************************************************************)

\* The calls of the tests that check what they hold.
Calls == {"get", "take", "put"} \X Nat

\* A call that puts what the test holds or gets into an index it has free: D are the
\* indices that hold an object before it, E those after it.
Does(c, D, E) ==
    IF c[1] = "put" THEN c[2] \in D /\ E = D \ {c[2]} ELSE c[2] \notin D /\ E = D \cup {c[2]}

\* The calls s lead from the indices D to the indices E.
Lead(s, D, E) ==
    /\ s \in Seq(Calls)
    /\ \E d : /\ d[1] = D /\ d[Len(s) + 1] = E
              /\ \A k \in 1..Len(s) : Does(s[k], d[k], d[k + 1])

\* Tuples are put together from their elements.
LEMMA Pair == ASSUME NEW S, NEW a \in S, NEW b \in S PROVE <<a>> \o <<b>> = <<a, b>>
<1> DEFINE u == <<a>> \o <<b>>
           v == <<a, b>>
<1>1. u \in Seq(S) /\ Len(u) = 2 /\ u[1] = a /\ u[2] = b
  OBVIOUS
<1>2. v \in Seq(S) /\ Len(v) = 2 /\ v[1] = a /\ v[2] = b
  OBVIOUS
<1> HIDE DEF u, v
<1>3. \A i \in 1..2 : u[i] = v[i]
  BY <1>1, <1>2
<1>4. u = v
  BY <1>1, <1>2, <1>3, SeqEqual
<1> QED BY <1>4 DEF u, v

\* No calls lead nowhere.
LEMMA LeadNowhere == ASSUME NEW D PROVE Lead(<<>>, D, D)
<1>1. <<>> \in Seq(Calls) /\ Len(<<>>) = 0
  OBVIOUS
<1> DEFINE d == [k \in 1..1 |-> D]
<1>2. d[1] = D /\ 0 + 1 = 1
  OBVIOUS
<1> HIDE DEF d
<1>3. d[Len(<<>>) + 1] = D /\ \A k \in 1..Len(<<>>) : Does(<<>>[k], d[k], d[k + 1])
  BY <1>1, <1>2
<1> QED BY <1>1, <1>2, <1>3 DEF Lead

\* The rest of the calls, after the first one.
LEMMA LeadTail ==
    ASSUME NEW s, s # <<>>, NEW D, NEW E, Lead(s, D, E)
    PROVE  /\ s[1] \in Calls /\ Len(s) > 0
           /\ \E M : Does(s[1], D, M) /\ Lead(Tail(s), M, E)
<1>1. s \in Seq(Calls) /\ Len(s) \in Nat /\ Len(s) > 0 /\ s[1] \in Calls
  BY DEF Lead
<1>2. PICK d : /\ d[1] = D /\ d[Len(s) + 1] = E
               /\ \A k \in 1..Len(s) : Does(s[k], d[k], d[k + 1])
  BY DEF Lead
<1> DEFINE t == Tail(s)
           e == [k \in 1..Len(s) |-> d[k + 1]]
<1>3. t \in Seq(Calls) /\ Len(t) = Len(s) - 1 /\ \A k \in 1..Len(t) : t[k] = s[k + 1]
  BY <1>1
<1> HIDE DEF t
<1>4. e[1] = d[2] /\ e[Len(t) + 1] = E
  BY <1>1, <1>2, <1>3
<1>5. ASSUME NEW k \in 1..Len(t) PROVE Does(t[k], e[k], e[k + 1])
  <2>1. k + 1 \in 1..Len(s) /\ k \in 1..Len(s)
    BY <1>1, <1>3
  <2>2. e[k] = d[k + 1] /\ e[k + 1] = d[(k + 1) + 1] /\ t[k] = s[k + 1]
    BY <1>3, <2>1
  <2> QED BY <1>2, <2>1, <2>2
<1> HIDE DEF e
<1>6. Lead(t, d[2], E)
  BY <1>3, <1>4, <1>5 DEF Lead
<1>7. Does(s[1], D, d[2])
  <2>1. 1 \in 1..Len(s) /\ 1 + 1 = 2
    BY <1>1
  <2> QED BY <1>2, <2>1
<1> QED BY <1>1, <1>6, <1>7 DEF t

\* Calls one after the other.
LEMMA LeadOn ==
    ASSUME NEW s, NEW t, NEW D, NEW M, NEW E, Lead(s, D, M), Lead(t, M, E)
    PROVE  Lead(s \o t, D, E)
<1> DEFINE n == Len(s)
           m == Len(t)
           u == s \o t
<1>1. s \in Seq(Calls) /\ n \in Nat /\ t \in Seq(Calls) /\ m \in Nat
  BY DEF Lead
<1>2. PICK d : d[1] = D /\ d[n + 1] = M /\ \A k \in 1..n : Does(s[k], d[k], d[k + 1])
  BY DEF Lead
<1>3. PICK e : e[1] = M /\ e[m + 1] = E /\ \A k \in 1..m : Does(t[k], e[k], e[k + 1])
  BY DEF Lead
<1>4. /\ u \in Seq(Calls) /\ Len(u) = n + m
      /\ \A k \in 1..n + m : u[k] = IF k <= n THEN s[k] ELSE t[k - n]
  BY <1>1
<1> DEFINE f == [k \in 1..n + m + 1 |-> IF k <= n + 1 THEN d[k] ELSE e[k - n]]
<1> HIDE DEF u, n, m
<1>5. \A k \in 1..n + m + 1 : (k <= n + 1 => f[k] = d[k]) /\ (k >= n + 1 => f[k] = e[k - n])
  <2> SUFFICES ASSUME NEW k \in 1..n + m + 1
               PROVE  (k <= n + 1 => f[k] = d[k]) /\ (k >= n + 1 => f[k] = e[k - n])
    OBVIOUS
  <2>1. CASE k = n + 1
    <3>1. k - n = 1
      BY <1>1, <2>1
    <3> QED BY <1>2, <1>3, <2>1, <3>1
  <2> QED BY <1>1, <2>1
<1> HIDE DEF f
<1>6. f[1] = D /\ f[n + m + 1] = E
  <2>1. 1 \in 1..n + m + 1 /\ n + m + 1 \in 1..n + m + 1 /\ (n + m + 1) - n = m + 1 /\ 1 <= n + 1
        /\ n + m + 1 >= n + 1
    BY <1>1
  <2> QED BY <1>2, <1>3, <1>5, <2>1
<1>7. ASSUME NEW k \in 1..n + m PROVE Does(u[k], f[k], f[k + 1])
  <2>1. CASE k <= n
    <3>1. k \in 1..n + m + 1 /\ k + 1 \in 1..n + m + 1 /\ k <= n + 1 /\ k + 1 <= n + 1 /\ k \in 1..n
      BY <1>1, <2>1
    <3>2. u[k] = s[k] /\ f[k] = d[k] /\ f[k + 1] = d[k + 1]
      BY <1>4, <1>5, <2>1, <3>1
    <3> QED BY <1>2, <3>1, <3>2
  <2>2. CASE k > n
    <3>1. /\ k \in 1..n + m + 1 /\ k + 1 \in 1..n + m + 1 /\ k >= n + 1 /\ k + 1 >= n + 1
          /\ k - n \in 1..m /\ (k + 1) - n = (k - n) + 1 /\ ~(k <= n)
      BY <1>1, <2>2
    <3>2. u[k] = t[k - n] /\ f[k] = e[k - n] /\ f[k + 1] = e[(k - n) + 1]
      BY <1>4, <1>5, <3>1
    <3> QED BY <1>3, <3>1, <3>2
  <2> QED BY <1>1, <2>1, <2>2
<1>8. Lead(u, D, E)
  <2>1. \A k \in 1..Len(u) : Does(u[k], f[k], f[k + 1])
    BY <1>4, <1>7
  <2>2. f[Len(u) + 1] = E
    BY <1>4, <1>6
  <2> QED BY <1>4, <1>6, <2>1, <2>2 DEF Lead
<1> QED BY <1>8 DEF u

\* One call.
LEMMA LeadOne == ASSUME NEW c \in Calls, NEW D, NEW E, Does(c, D, E) PROVE Lead(<<c>>, D, E)
<1> DEFINE d == [k \in 1..2 |-> IF k = 1 THEN D ELSE E]
<1>1. d[1] = D /\ d[2] = E
  OBVIOUS
<1>2. <<c>> \in Seq(Calls) /\ Len(<<c>>) = 1 /\ <<c>>[1] = c /\ 1 + 1 = 2
  OBVIOUS
<1> HIDE DEF d
<1>3. \A k \in 1..Len(<<c>>) : Does(<<c>>[k], d[k], d[k + 1])
  <2>1. \A k \in 1..1 : k = 1
    OBVIOUS
  <2> QED BY <1>1, <1>2, <2>1
<1> QED BY <1>1, <1>2, <1>3 DEF Lead

\* A loop of gets.
LEMMA LeadGets ==
    ASSUME NEW call \in {"get", "take"}, NEW a \in Nat, NEW b \in Nat, a <= b, NEW D,
           D \cap (a..b) = {}
    PROVE  Lead(MemTest!Each(call, a, b), D, D \cup (a..b))
<1> DEFINE n == b - a + 1
           s == [k \in 1..n |-> <<call, a + k - 1>>]
           d == [k \in 1..n + 1 |-> D \cup (a..a + k - 2)]
<1>1. n \in Nat /\ s \in Seq(Calls) /\ Len(s) = n
  BY DEF Calls
<1>2. MemTest!Each(call, a, b) = s
  BY DEF MemTest!Each
<1>3. d[1] = D /\ d[n + 1] = D \cup (a..b)
  <2>1. a..a + 1 - 2 = {} /\ a + (n + 1) - 2 = b /\ 1 \in 1..n + 1 /\ n + 1 \in 1..n + 1
    BY <1>1
  <2> QED BY <2>1
<1>4. ASSUME NEW k \in 1..n PROVE Does(s[k], d[k], d[k + 1])
  <2>1. a..a + (k + 1) - 2 = (a..a + k - 2) \cup {a + k - 1} /\ a + k - 1 \notin a..a + k - 2
    OBVIOUS
  <2>2. a + k - 1 \in a..b
    OBVIOUS
  <2>3. k \in 1..n + 1 /\ k + 1 \in 1..n + 1
    BY <1>1
  <2>4. d[k] = D \cup (a..a + k - 2) /\ d[k + 1] = D \cup (a..a + (k + 1) - 2)
    BY <2>3
  <2>5. s[k] = <<call, a + k - 1>>
    OBVIOUS
  <2> HIDE DEF s, d, n
  <2> QED BY <2>1, <2>2, <2>4, <2>5 DEF Does
<1> HIDE DEF s, d, n
<1> QED BY <1>1, <1>2, <1>3, <1>4 DEF Lead

\* Puts from a up to b.
LEMMA LeadPuts ==
    ASSUME NEW a \in Nat, NEW b \in Nat, a <= b
    PROVE  Lead(MemTest!Each("put", a, b), a..b, {})
<1> DEFINE n == b - a + 1
           s == [k \in 1..n |-> <<"put", a + k - 1>>]
           d == [k \in 1..n + 1 |-> a + k - 1 .. b]
<1>1. n \in Nat /\ s \in Seq(Calls) /\ Len(s) = n
  BY DEF Calls
<1>2. MemTest!Each("put", a, b) = s
  BY DEF MemTest!Each
<1>3. d[1] = a..b /\ d[n + 1] = {}
  <2>1. a + 1 - 1 = a /\ a + (n + 1) - 1 .. b = {} /\ 1 \in 1..n + 1 /\ n + 1 \in 1..n + 1
    BY <1>1
  <2> QED BY <2>1
<1>4. ASSUME NEW k \in 1..n PROVE Does(s[k], d[k], d[k + 1])
  <2>1. a + (k + 1) - 1 .. b = (a + k - 1 .. b) \ {a + k - 1} /\ a + k - 1 \in a + k - 1 .. b
    OBVIOUS
  <2>3. k \in 1..n + 1 /\ k + 1 \in 1..n + 1
    BY <1>1
  <2>4. d[k] = a + k - 1 .. b /\ d[k + 1] = a + (k + 1) - 1 .. b
    BY <2>3
  <2>5. s[k] = <<"put", a + k - 1>>
    OBVIOUS
  <2> HIDE DEF s, d, n
  <2> QED BY <2>1, <2>4, <2>5 DEF Does
<1> HIDE DEF s, d, n
<1> QED BY <1>1, <1>2, <1>3, <1>4 DEF Lead

\* Puts from a down to b.
LEMMA LeadPutsDown ==
    ASSUME NEW a \in Nat, NEW b \in Nat, b <= a
    PROVE  Lead(MemTest!EachDown("put", a, b), b..a, {})
<1> DEFINE n == a - b + 1
           s == [k \in 1..n |-> <<"put", a - k + 1>>]
           d == [k \in 1..n + 1 |-> b .. a - k + 1]
<1>1. n \in Nat /\ s \in Seq(Calls) /\ Len(s) = n
  BY DEF Calls
<1>2. MemTest!EachDown("put", a, b) = s
  BY DEF MemTest!EachDown
<1>3. d[1] = b..a /\ d[n + 1] = {}
  <2>1. a - 1 + 1 = a /\ b .. a - (n + 1) + 1 = {} /\ 1 \in 1..n + 1 /\ n + 1 \in 1..n + 1
    BY <1>1
  <2> QED BY <2>1
<1>4. ASSUME NEW k \in 1..n PROVE Does(s[k], d[k], d[k + 1])
  <2>1. b .. a - (k + 1) + 1 = (b .. a - k + 1) \ {a - k + 1} /\ a - k + 1 \in b .. a - k + 1
    OBVIOUS
  <2>3. k \in 1..n + 1 /\ k + 1 \in 1..n + 1
    BY <1>1
  <2>4. d[k] = b .. a - k + 1 /\ d[k + 1] = b .. a - (k + 1) + 1
    BY <2>3
  <2>5. s[k] = <<"put", a - k + 1>>
    OBVIOUS
  <2> HIDE DEF s, d, n
  <2> QED BY <2>1, <2>4, <2>5 DEF Does
<1> HIDE DEF s, d, n
<1> QED BY <1>1, <1>2, <1>3, <1>4 DEF Lead

\* One get more.
LEMMA GetOne ==
    ASSUME NEW call \in {"get", "take"}, NEW i \in Nat, NEW s, NEW D, i \notin D, NEW E,
           Lead(s, E, D)
    PROVE  Lead(s \o <<<<call, i>>>>, E, D \cup {i})
<1>1. <<call, i>> \in Calls /\ Does(<<call, i>>, D, D \cup {i})
  BY DEF Calls, Does
<1> QED BY <1>1, LeadOne, LeadOn

\* One put more.
LEMMA PutOne ==
    ASSUME NEW i \in Nat, NEW s, NEW D, i \in D, NEW E, Lead(s, E, D)
    PROVE  Lead(s \o <<<<"put", i>>>>, E, D \ {i})
<1>1. <<"put", i>> \in Calls /\ Does(<<"put", i>>, D, D \ {i})
  BY DEF Calls, Does
<1> QED BY <1>1, LeadOne, LeadOn

\* The first five tests leave no object behind.
LEMMA TestsLead == \A n \in 1..5 : Lead(MemTest!Tests[n], {}, {})
<1>0. MemTest!OBJ_CNT - 1 = 3
  BY DEF MemTest!OBJ_CNT
<1>1. Lead(MemTest!test1, {}, {})
  <2> DEFINE p == <<"take", 0>>
             q == <<"put", 0>>
  <2>1. Does(p, {}, {0}) /\ Does(q, {0}, {}) /\ p \in Calls /\ q \in Calls
    BY DEF Does, Calls
  <2> HIDE DEF p, q
  <2>2. Lead(<<p>>, {}, {0}) /\ Lead(<<q>>, {0}, {})
    BY <2>1, LeadOne
  <2>3. <<p, q>> = <<p>> \o <<q>>
    BY <2>1, Pair
  <2> QED BY <2>2, <2>3, LeadOn DEF MemTest!test1, p, q
<1>2. \A m \in Nat : Lead(MemTest!Each("get", 0, m) \o MemTest!EachDown("put", m, 0), {}, {})
  <2> SUFFICES ASSUME NEW m \in Nat
               PROVE  Lead(MemTest!Each("get", 0, m) \o MemTest!EachDown("put", m, 0), {}, {})
    OBVIOUS
  <2>1. Lead(MemTest!Each("get", 0, m), {}, {} \cup (0..m))
    BY LeadGets
  <2>2. Lead(MemTest!EachDown("put", m, 0), 0..m, {})
    BY LeadPutsDown
  <2>3. {} \cup (0..m) = 0..m
    OBVIOUS
  <2> QED BY <2>1, <2>2, <2>3, LeadOn
<1>3. Lead(MemTest!test2, {}, {}) /\ Lead(MemTest!test3, {}, {}) /\ Lead(MemTest!test4, {}, {})
  BY <1>0, <1>2 DEF MemTest!test2, MemTest!test3, MemTest!test4
<1>4. Lead(MemTest!test5, {}, {})
  <2> DEFINE A == MemTest!Each("get", 0, 3)
             B == <<<<"put", 0>>, <<"put", 3>>>>
             C == <<<<"take", 0>>, <<"take", 3>>, <<"take", 4>>, <<"take", 5>>, <<"put", 4>>, <<"put", 5>>>>
             G == MemTest!Each("take", 6, 8)
             H == <<<<"take", 4>>, <<"take", 5>>>>
             P == MemTest!Each("put", 0, 8)
  <2>1. Lead(A, {}, 0..3)
    <3>1. Lead(A, {}, {} \cup (0..3))
      BY LeadGets
    <3>2. {} \cup (0..3) = 0..3
      OBVIOUS
    <3> QED BY <3>1, <3>2
  <2>2. Lead(B, 0..3, 1..2)
    <3>1. <<<<"put", 0>>>> \in Seq(Calls) /\ <<"put", 0>> \in Calls /\ Does(<<"put", 0>>, 0..3, (0..3) \ {0})
      BY DEF Calls, Does
    <3>2. Lead(<<<<"put", 0>>>>, 0..3, (0..3) \ {0})
      BY <3>1, LeadOne
    <3>3. Lead(<<<<"put", 0>>>> \o <<<<"put", 3>>>>, 0..3, ((0..3) \ {0}) \ {3})
      BY <3>2, PutOne
    <3>4. ((0..3) \ {0}) \ {3} = 1..2
      OBVIOUS
    <3>5. <<<<"put", 0>>>> \o <<<<"put", 3>>>> = B
      <4>1. <<"put", 0>> \in Calls /\ <<"put", 3>> \in Calls
        BY DEF Calls
      <4> QED BY <4>1, Pair
    <3> QED BY <3>3, <3>4, <3>5
  <2>3. Lead(C, 1..2, 0..3)
    <3>1. <<"take", 0>> \in Calls /\ Does(<<"take", 0>>, 1..2, (1..2) \cup {0})
      BY DEF Calls, Does
    <3> DEFINE C1 == <<<<"take", 0>>>>
               C2 == C1 \o <<<<"take", 3>>>>
               C3 == C2 \o <<<<"take", 4>>>>
               C4 == C3 \o <<<<"take", 5>>>>
               C5 == C4 \o <<<<"put", 4>>>>
               C6 == C5 \o <<<<"put", 5>>>>
    <3>0. C6 = C
      <4> DEFINE a == <<"take", 0>>
                 b == <<"take", 3>>
                 c == <<"take", 4>>
                 d == <<"take", 5>>
                 e == <<"put", 4>>
                 f == <<"put", 5>>
      <4>1. a \in Calls /\ b \in Calls /\ c \in Calls /\ d \in Calls /\ e \in Calls /\ f \in Calls
        BY DEF Calls
      <4> HIDE DEF a, b, c, d, e, f
      <4>2. ((((<<a>> \o <<b>>) \o <<c>>) \o <<d>>) \o <<e>>) \o <<f>> = <<a, b, c, d, e, f>>
        <5> DEFINE u == ((((<<a>> \o <<b>>) \o <<c>>) \o <<d>>) \o <<e>>) \o <<f>>
                   v == <<a, b, c, d, e, f>>
        <5>1. /\ u \in Seq(Calls) /\ Len(u) = 6
              /\ u[1] = a /\ u[2] = b /\ u[3] = c /\ u[4] = d /\ u[5] = e /\ u[6] = f
          BY <4>1
        <5>2. /\ v \in Seq(Calls) /\ Len(v) = 6
              /\ v[1] = a /\ v[2] = b /\ v[3] = c /\ v[4] = d /\ v[5] = e /\ v[6] = f
          BY <4>1
        <5> HIDE DEF u, v
        <5>3. \A i \in 1..6 : u[i] = v[i]
          BY <5>1, <5>2
        <5>4. u = v
          BY <5>1, <5>2, <5>3, SeqEqual
        <5> QED BY <5>4 DEF u, v
      <4> QED BY <4>2, Zenon DEF a, b, c, d, e, f
    <3>2. Lead(C1, 1..2, 0..2)
      <4>1. (1..2) \cup {0} = 0..2
        OBVIOUS
      <4> QED BY <3>1, <4>1, LeadOne
    <3> HIDE DEF C1
    <3>3. Lead(C2, 1..2, 0..3)
      <4>1. (0..2) \cup {3} = 0..3 /\ 3 \notin 0..2
        OBVIOUS
      <4> QED BY <3>2, <4>1, GetOne
    <3> HIDE DEF C2
    <3>4. Lead(C3, 1..2, 0..4)
      <4>1. (0..3) \cup {4} = 0..4 /\ 4 \notin 0..3
        OBVIOUS
      <4> QED BY <3>3, <4>1, GetOne
    <3> HIDE DEF C3
    <3>5. Lead(C4, 1..2, 0..5)
      <4>1. (0..4) \cup {5} = 0..5 /\ 5 \notin 0..4
        OBVIOUS
      <4> QED BY <3>4, <4>1, GetOne
    <3> HIDE DEF C4
    <3>6. Lead(C5, 1..2, (0..3) \cup {5})
      <4>1. (0..5) \ {4} = (0..3) \cup {5} /\ 4 \in 0..5
        OBVIOUS
      <4> QED BY <3>5, <4>1, PutOne
    <3> HIDE DEF C5
    <3>7. Lead(C6, 1..2, 0..3)
      <4>1. ((0..3) \cup {5}) \ {5} = 0..3 /\ 5 \in (0..3) \cup {5}
        OBVIOUS
      <4> QED BY <3>6, <4>1, PutOne
    <3> HIDE DEF C6, C
    <3> QED BY <3>0, <3>7
  <2>4. Lead(G, 0..3, (0..3) \cup (6..8))
    <3>1. (0..3) \cap (6..8) = {}
      OBVIOUS
    <3> QED BY <3>1, LeadGets
  <2>5. Lead(H, (0..3) \cup (6..8), 0..8)
    <3> DEFINE D == (0..3) \cup (6..8)
    <3>1. <<"take", 4>> \in Calls /\ Does(<<"take", 4>>, D, D \cup {4})
      BY DEF Calls, Does
    <3>2. Lead(<<<<"take", 4>>>>, D, D \cup {4})
      BY <3>1, LeadOne
    <3>3. 5 \notin D \cup {4} /\ (D \cup {4}) \cup {5} = 0..8
      OBVIOUS
    <3> HIDE DEF D
    <3>4. Lead(<<<<"take", 4>>>> \o <<<<"take", 5>>>>, D, (D \cup {4}) \cup {5})
      BY <3>2, <3>3, GetOne
    <3>5. <<<<"take", 4>>>> \o <<<<"take", 5>>>> = H
      <4>1. <<"take", 4>> \in Calls /\ <<"take", 5>> \in Calls
        BY DEF Calls
      <4> QED BY <4>1, Pair
    <3> HIDE DEF H
    <3> QED BY <3>3, <3>4, <3>5 DEF D
  <2>6. Lead(P, 0..8, {})
    <3>1. 0 \in Nat /\ 8 \in Nat /\ 0 <= 8
      OBVIOUS
    <3> QED BY <3>1, LeadPuts
  <2>7. MemTest!test5 = ((((A \o B) \o C) \o G) \o H) \o P
    BY DEF MemTest!test5
  <2> HIDE DEF A, B, C, G, H, P
  <2>8. Lead(A \o B, {}, 1..2)
    BY <2>1, <2>2, LeadOn
  <2>9. Lead((A \o B) \o C, {}, 0..3)
    BY <2>3, <2>8, LeadOn
  <2>10. Lead(((A \o B) \o C) \o G, {}, (0..3) \cup (6..8))
    BY <2>4, <2>9, LeadOn
  <2>11. Lead((((A \o B) \o C) \o G) \o H, {}, 0..8)
    BY <2>5, <2>10, LeadOn
  <2> QED BY <2>6, <2>7, <2>11, LeadOn
<1>5. /\ MemTest!Tests[1] = MemTest!test1 /\ MemTest!Tests[2] = MemTest!test2
      /\ MemTest!Tests[3] = MemTest!test3 /\ MemTest!Tests[4] = MemTest!test4
      /\ MemTest!Tests[5] = MemTest!test5
  BY DEF MemTest!Tests
<1>6. ASSUME NEW n \in 1..5 PROVE Lead(MemTest!Tests[n], {}, {})
  <2>1. n = 1 \/ n = 2 \/ n = 3 \/ n = 4 \/ n = 5
    OBVIOUS
  <2> QED BY <1>1, <1>3, <1>4, <1>5, <2>1
<1> QED BY <1>6

\* What the last test has still to do: gets into indices that are all free.
Drops(s, D) ==
    /\ s \in Seq({"drop"} \X Nat)
    /\ \A k \in 1..Len(s) : s[k][2] \notin D
    /\ \A j, k \in 1..Len(s) : s[j][2] = s[k][2] => j = k

\* The test program: what it has still to do fits what it holds.
KeepInv ==
    /\ test \in 1..6
    /\ test # 6 => \A i \in DOMAIN ptr : ptr[i] \in DOMAIN text /\ text[ptr[i]] = i
    /\ \A i, j \in DOMAIN ptr : ptr[i] = ptr[j] => i = j
    /\ {ptr[i] : i \in DOMAIN ptr} = held
    /\ state = "none" => DOMAIN ptr = {}
    /\ state = "live" => IF test = 6 THEN Drops(todo, DOMAIN ptr) ELSE \E E : Lead(todo, DOMAIN ptr, E)

\* test6 gets into 50 indices.
LEMMA LastDrops == Drops(MemTest!Tests[6], {}) /\ Len(MemTest!Tests) = 6
<1> DEFINE s == [k \in 1..50 |-> <<"drop", k - 1>>]
<1>1. MemTest!Tests[6] = MemTest!test6 /\ Len(MemTest!Tests) = 6
  BY DEF MemTest!Tests
<1>2. MemTest!test6 = s
  <2>1. MemTest!DROPS - 1 = 49 /\ 49 - 0 + 1 = 50 /\ \A k \in 1..50 : 0 + k - 1 = k - 1
    BY DEF MemTest!DROPS
  <2>2. MemTest!test6 = [k \in 1..50 |-> <<"drop", 0 + k - 1>>]
    BY <2>1 DEF MemTest!test6, MemTest!Each
  <2> QED BY <2>1, <2>2
<1>3. s \in Seq({"drop"} \X Nat) /\ Len(s) = 50
  OBVIOUS
<1>4. \A k \in 1..50 : s[k][2] = k - 1
  OBVIOUS
<1> HIDE DEF s
<1>5. \A j, k \in 1..50 : s[j][2] = s[k][2] => j = k
  <2> SUFFICES ASSUME NEW j \in 1..50, NEW k \in 1..50, s[j][2] = s[k][2] PROVE j = k
    OBVIOUS
  <2>1. j - 1 = k - 1
    BY <1>4
  <2> QED BY <2>1
<1>6. Drops(s, {})
  BY <1>3, <1>5 DEF Drops
<1> QED BY <1>1, <1>2, <1>6

\* The rest of its gets, whether the first one returned an object or not.
LEMMA DropsTail ==
    ASSUME NEW s, s # <<>>, NEW D, Drops(s, D)
    PROVE  /\ s[1] = <<"drop", s[1][2]>> /\ s[1][2] \notin D
           /\ Drops(Tail(s), D) /\ Drops(Tail(s), D \cup {s[1][2]})
<1> DEFINE t == Tail(s)
<1>1. s \in Seq({"drop"} \X Nat) /\ Len(s) \in Nat /\ Len(s) > 0
  BY DEF Drops
<1>2. s[1] \in {"drop"} \X Nat /\ 1 \in 1..Len(s)
  BY <1>1
<1>3. s[1] = <<"drop", s[1][2]>>
  BY <1>2
<1>4. t \in Seq({"drop"} \X Nat) /\ Len(t) = Len(s) - 1 /\ \A k \in 1..Len(t) : t[k] = s[k + 1]
  BY <1>1
<1> HIDE DEF t
<1>5. \A k \in 1..Len(t) : t[k][2] \notin D /\ t[k][2] # s[1][2]
  <2> SUFFICES ASSUME NEW k \in 1..Len(t) PROVE t[k][2] \notin D /\ t[k][2] # s[1][2]
    OBVIOUS
  <2>1. k + 1 \in 1..Len(s) /\ k + 1 # 1
    BY <1>1, <1>4
  <2> QED BY <1>2, <1>4, <2>1 DEF Drops
<1>6. ASSUME NEW j \in 1..Len(t), NEW k \in 1..Len(t), t[j][2] = t[k][2] PROVE j = k
  <2>1. j + 1 \in 1..Len(s) /\ k + 1 \in 1..Len(s)
    BY <1>1, <1>4
  <2>2. s[j + 1][2] = s[k + 1][2]
    BY <1>4, <1>6
  <2>3. j + 1 = k + 1
    BY <2>1, <2>2 DEF Drops
  <2> QED BY <2>3
<1>7. Drops(t, D) /\ Drops(t, D \cup {s[1][2]})
  BY <1>4, <1>5, <1>6 DEF Drops
<1> QED BY <1>2, <1>3, <1>7 DEF t, Drops

\* A get of a new object.
LEMMA KeepGet == ASSUME MemInv, KeepInv, MemTest!TestGet PROVE KeepInv'
<1> DEFINE i == todo[1][2]
           c == todo[1][1]
           loc == MemTest!ToLocation(IF MemTest!IsEnd(free_next) THEN MemTest!ToWord(<<slab_cnt, 0>>)
                                                                 ELSE free_next)
           D == DOMAIN ptr
<1>1. /\ todo # <<>> /\ c # "put"
      /\ MemTest!Get \/ MemTest!GetExpand
      /\ ptr' = MemTest!With(ptr, i, loc)
      /\ text' = IF c = "drop" THEN text ELSE MemTest!With(text, loc, i)
      /\ todo' = Tail(todo) /\ UNCHANGED <<test, result>>
  BY DEF MemTest!TestGet, MemTest!Call, MemTest!Index
<1>2. state = "live" /\ UNCHANGED state
  BY <1>1 DEF MemTest!Get, MemTest!GetExpand
<1>3. loc \notin held /\ held' = held \cup {loc}
  BY <1>1, TestGetStep
<1> HIDE DEF loc
<1>4. ptr' = [z \in D \cup {i} |-> IF z = i THEN loc ELSE ptr[z]]
  BY <1>1 DEF MemTest!With
<1>5. /\ i \notin D
      /\ IF test = 6 THEN Drops(Tail(todo), D \cup {i}) ELSE \E E : Lead(Tail(todo), D \cup {i}, E)
      /\ test # 6 => c # "drop"
  <2>1. CASE test = 6
    <3>1. Drops(todo, D)
      BY <1>2, <2>1 DEF KeepInv
    <3>2. i \notin D /\ Drops(Tail(todo), D \cup {i})
      BY <1>1, <3>1, DropsTail
    <3> QED BY <2>1, <3>2
  <2>2. CASE test # 6
    <3>1. PICK E : Lead(todo, D, E)
      BY <1>2, <2>2 DEF KeepInv
    <3>2. todo[1] \in Calls /\ \E M : Does(todo[1], D, M) /\ Lead(Tail(todo), M, E)
      BY <1>1, <3>1, LeadTail
    <3>3. i \notin D /\ Lead(Tail(todo), D \cup {i}, E)
      BY <1>1, <3>2 DEF Does
    <3>4. c # "drop"
      BY <3>2 DEF Calls
    <3> QED BY <2>2, <3>3, <3>4
  <2> QED BY <2>1, <2>2
<1> HIDE DEF i, c, D
<1>6. /\ DOMAIN (ptr') = D \cup {i} /\ ptr'[i] = loc /\ \A j \in D : ptr'[j] = ptr[j] /\ ptr[j] \in held
  <2>1. \A j \in D : ptr[j] \in held
    BY DEF KeepInv, D
  <2> QED BY <1>4, <1>5, <2>1
<1>7. \A j \in D \cup {i}, k \in D \cup {i} : ptr'[j] = ptr'[k] => j = k
  BY <1>3, <1>6 DEF KeepInv, D
<1>8. {ptr'[j] : j \in D \cup {i}} = held'
  BY <1>3, <1>6 DEF KeepInv, D
<1>9. test # 6 => \A j \in D \cup {i} : ptr'[j] \in DOMAIN (text') /\ text'[ptr'[j]] = j
  <2> SUFFICES ASSUME test # 6, NEW j \in D \cup {i}
               PROVE  ptr'[j] \in DOMAIN (text') /\ text'[ptr'[j]] = j
    OBVIOUS
  <2>1. text' = [z \in DOMAIN text \cup {loc} |-> IF z = loc THEN i ELSE text[z]]
    BY <1>1, <1>5 DEF MemTest!With
  <2>2. CASE j = i
    BY <1>6, <2>1, <2>2
  <2>3. CASE j # i
    <3>1. ptr[j] \in DOMAIN text /\ text[ptr[j]] = j /\ ptr'[j] = ptr[j] /\ ptr[j] # loc
      BY <1>3, <1>6, <2>3 DEF KeepInv, D
    <3> QED BY <2>1, <3>1
  <2> QED BY <2>2, <2>3
<1>10. (IF test = 6 THEN Drops(todo, DOMAIN ptr) ELSE \E E : Lead(todo, DOMAIN ptr, E))'
  <2>1. test' = test /\ todo' = Tail(todo) /\ DOMAIN (ptr') = D \cup {i}
    BY <1>1, <1>6
  <2>2. Drops(todo, DOMAIN ptr)' <=> Drops(Tail(todo), D \cup {i})
    BY <2>1 DEF Drops
  <2>3. (\E E : Lead(todo, DOMAIN ptr, E))' <=> \E E : Lead(Tail(todo), D \cup {i}, E)
    BY <2>1 DEF Lead, Does
  <2> QED BY <1>5, <2>1, <2>2, <2>3
<1>11. (test \in 1..6)' /\ test' = test
  BY <1>1 DEF KeepInv
<1> QED BY <1>2, <1>6, <1>7, <1>8, <1>9, <1>10, <1>11 DEF KeepInv

\* A put of an object the test holds.
LEMMA KeepPut == ASSUME KeepInv, MemTest!TestPut PROVE KeepInv'
<1> DEFINE i == todo[1][2]
           D == DOMAIN ptr
<1>1. /\ todo # <<>> /\ todo[1][1] = "put" /\ MemTest!Put(ptr[i])
      /\ todo' = Tail(todo) /\ ptr' = [j \in D \ {i} |-> ptr[j]]
      /\ UNCHANGED <<test, text, result>>
  BY DEF MemTest!TestPut, MemTest!Call, MemTest!Index
<1>2. state = "live" /\ UNCHANGED state /\ held' = held \ {ptr[i]}
  BY <1>1 DEF MemTest!Put
<1>3. test # 6
  <2> SUFFICES ASSUME test = 6 PROVE FALSE
    OBVIOUS
  <2>1. Drops(todo, D)
    BY <1>2 DEF KeepInv
  <2>2. todo[1] = <<"drop", i>>
    BY <1>1, <2>1, DropsTail
  <2> QED BY <1>1, <2>2
<1>4. PICK E : Lead(todo, D, E)
  BY <1>2, <1>3 DEF KeepInv
<1>5. \E M : Does(todo[1], D, M) /\ Lead(Tail(todo), M, E)
  BY <1>1, <1>4, LeadTail
<1>6. i \in D /\ Lead(Tail(todo), D \ {i}, E)
  BY <1>1, <1>5 DEF Does
<1> HIDE DEF i, D
<1>7. DOMAIN (ptr') = D \ {i} /\ \A j \in D \ {i} : ptr'[j] = ptr[j]
  BY <1>1
<1>8. \A j, k \in D \ {i} : ptr'[j] = ptr'[k] => j = k
  BY <1>7 DEF KeepInv, D
<1>9. {ptr'[j] : j \in D \ {i}} = held'
  <2>1. /\ \A j, k \in D : ptr[j] = ptr[k] => j = k
        /\ {ptr[j] : j \in D} = held
    BY DEF KeepInv, D
  <2> QED BY <1>2, <1>6, <1>7, <2>1
<1>10. \A j \in D \ {i} : ptr'[j] \in DOMAIN (text') /\ text'[ptr'[j]] = j
  BY <1>1, <1>3, <1>7 DEF KeepInv, D
<1>11. (\E F : Lead(todo, DOMAIN ptr, F))'
  <2>1. todo' = Tail(todo) /\ DOMAIN (ptr') = D \ {i}
    BY <1>1, <1>7
  <2>2. \E F : Lead(Tail(todo), D \ {i}, F)
    BY <1>6
  <2> QED BY <2>1, <2>2 DEF Lead, Does
<1>12. (test \in 1..6)' /\ test' = test
  BY <1>1 DEF KeepInv
<1> QED BY <1>2, <1>3, <1>7, <1>8, <1>9, <1>10, <1>11, <1>12 DEF KeepInv

\* What others do leaves the test alone.
LEMMA KeepStays ==
    ASSUME KeepInv, UNCHANGED <<test, ptr, text, held, state, todo>>
    PROVE  KeepInv'
<1>1. Drops(todo, DOMAIN ptr)' <=> Drops(todo, DOMAIN ptr)
  BY DEF Drops
<1>2. (\E E : Lead(todo, DOMAIN ptr, E))' <=> \E E : Lead(todo, DOMAIN ptr, E)
  BY DEF Lead, Does
<1> QED BY <1>1, <1>2 DEF KeepInv

\* Every step of the test program preserves the invariant.
LEMMA KeepStep == ASSUME MemInv, KeepInv, MemTest!TestNext PROVE KeepInv'
<1>1. CASE MemTest!Begin
  <2>1. \/ MemTest!Create(MemTest!OBJ_SZ, 2)
        \/ MemTest!Create(MemTest!OBJ_SZ, MemTest!OBJ_CNT)
    BY <1>1 DEF MemTest!Begin
  <2>2. Sized(MemTest!OBJ_SZ, MemTest!OBJ_CNT) /\ Sized(MemTest!OBJ_SZ, 2)
    BY MemConstants
  <2>3. state' = "live" /\ held' = {}
    BY <2>1, <2>2, TestCreates, MemCreate
  <2>4. state = "none" /\ todo' = MemTest!Tests[test] /\ UNCHANGED <<test, ptr, text>>
    BY <1>1 DEF MemTest!Begin
  <2>5. DOMAIN ptr = {} /\ test \in 1..6
    BY <2>4 DEF KeepInv
  <2>6. IF test = 6 THEN Drops(MemTest!Tests[test], {}) ELSE Lead(MemTest!Tests[test], {}, {})
    <3>1. test # 6 => test \in 1..5
      BY <2>5
    <3> QED BY <3>1, LastDrops, TestsLead
  <2>7. (IF test = 6 THEN Drops(todo, DOMAIN ptr) ELSE \E E : Lead(todo, DOMAIN ptr, E))'
    <3>1. Drops(todo, DOMAIN ptr)' <=> Drops(MemTest!Tests[test], {})
      BY <2>4, <2>5 DEF Drops
    <3>2. (\E E : Lead(todo, DOMAIN ptr, E))' <=> \E E : Lead(MemTest!Tests[test], {}, E)
      BY <2>4, <2>5 DEF Lead, Does
    <3> QED BY <2>4, <2>6, <3>1, <3>2
  <2> QED BY <2>3, <2>4, <2>5, <2>7 DEF KeepInv
<1>2. CASE MemTest!TestGet
  BY <1>2, KeepGet
<1>3. CASE MemTest!TestPut
  BY <1>3, KeepPut
<1>4. CASE MemTest!TestEnds
  <2>1. UNCHANGED <<test, todo, ptr, text, held>>
    BY <1>4 DEF MemTest!TestEnds, MemTest!Destroy, MemTest!vars
  <2>2. CASE state' = "destroyed"
    BY <2>1, <2>2 DEF KeepInv
  <2>3. CASE UNCHANGED state
    BY <2>1, <2>3, KeepStays
  <2> QED BY <1>4, <2>2, <2>3 DEF MemTest!TestEnds, MemTest!Destroy, MemTest!vars
<1>5. CASE MemTest!NextTest
  <2>1. /\ test < Len(MemTest!Tests) /\ test' = test + 1 /\ state' = "none" /\ held' = {}
        /\ ptr' = [i \in {} |-> <<0, 0>>]
    BY <1>5 DEF MemTest!NextTest
  <2>2. test' \in 1..6
    BY <2>1, LastDrops DEF KeepInv
  <2>3. DOMAIN (ptr') = {}
    BY <2>1
  <2> QED BY <2>1, <2>2, <2>3 DEF KeepInv
<1>6. CASE MemTest!TestNull
  <2>1. /\ todo # <<>> /\ state = "live" /\ UNCHANGED <<test, ptr, text, held, state>>
        /\ todo' = IF todo[1][1] = "drop" THEN Tail(todo) ELSE <<>>
    BY <1>6 DEF MemTest!TestNull, MemTest!GetNull, MemTest!vars, MemTest!Call
  <2>2. CASE test = 6
    <3>1. Drops(todo, DOMAIN ptr)
      BY <2>1, <2>2 DEF KeepInv
    <3>2. todo' = Tail(todo) /\ Drops(Tail(todo), DOMAIN ptr)
      <4>1. todo[1] = <<"drop", todo[1][2]>> /\ Drops(Tail(todo), DOMAIN ptr)
        BY <2>1, <3>1, DropsTail
      <4>2. todo[1][1] = "drop"
        BY <4>1
      <4> QED BY <2>1, <4>1, <4>2
    <3>3. Drops(todo, DOMAIN ptr)'
      BY <2>1, <3>2 DEF Drops
    <3> QED BY <2>1, <2>2, <3>3 DEF KeepInv
  <2>3. CASE test # 6
    <3>1. PICK E : Lead(todo, DOMAIN ptr, E)
      BY <2>1, <2>3 DEF KeepInv
    <3>2. todo[1] \in Calls
      BY <2>1, <3>1, LeadTail
    <3>3. todo' = <<>>
      BY <2>1, <3>2 DEF Calls
    <3>4. Lead(<<>>, DOMAIN ptr, DOMAIN ptr)
      BY LeadNowhere
    <3>5. (\E F : Lead(todo, DOMAIN ptr, F))'
      <4>1. \E F : Lead(todo', DOMAIN (ptr'), F)
        BY <2>1, <3>3, <3>4, Zenon
      <4> QED BY <4>1 DEF Lead, Does
    <3> QED BY <2>1, <2>3, <3>5 DEF KeepInv
  <2> QED BY <2>2, <2>3
<1>7. CASE MemTest!BeginNull
  BY <1>7, KeepStays DEF MemTest!BeginNull, MemTest!vars
<1> QED
  BY <1>1, <1>2, <1>3, <1>4, <1>5, <1>6, <1>7 DEF MemTest!TestNext

\* argo_test_mem_pool.c: whatever the gets return, an object a test holds has what
\* the test wrote into it, no two indices share one, and the objects of the test
\* are those the pool counts as in use.
THEOREM TestsKeep == SysSpec => []TestsKeepTheirObjects
<1> DEFINE I == /\ MemInv
                /\ IF which = "memtest" THEN KeepInv ELSE DOMAIN ptr = {}
                /\ which = "mem" => Limited
<1>1. SysInit => I
  BY DEF SysInit, Mem!Init, MemTest!TestInit, MemInv, Limited, KeepInv
<1>2. I /\ [SysNext]_sys_vars => I'
  <2> SUFFICES ASSUME I, [SysNext]_sys_vars PROVE I'
    OBVIOUS
  <2>1. CASE InMem /\ Mem!Next
    <3>1. UNCHANGED <<which, ptr>> /\ which = "mem"
      BY <2>1 DEF InMem, test_vars
    <3> QED BY <2>1, <3>1, MemStep
  <2>2. CASE InMemTest /\ MemTest!TestNext
    BY <2>2, MemTestStep, KeepStep DEF InMemTest
  <2>3. CASE UNCHANGED <<which, mem_vars, test_vars>>
    <3>1. UNCHANGED <<which, state, slab_cnt, held, test, ptr, text, todo>>
      BY <2>3 DEF mem_vars, test_vars
    <3>2. MemInv' /\ Limited' = Limited
      BY <2>3, <3>1, MemStays DEF Limited
    <3>3. KeepInv => KeepInv'
      BY <3>1, KeepStays
    <3> QED BY <3>1, <3>2, <3>3
  <2> QED
    BY <2>1, <2>2, <2>3 DEF SysNext, InPhil, InCond, InAio, InIoctl, sys_vars
<1>3. I => TestsKeepTheirObjects
  BY DEF TestsKeepTheirObjects, MemTest!TestsKeepTheirObjects, KeepInv
<1> QED
  BY <1>1, <1>2, <1>3, PTL DEF SysSpec

=============================================================================
