---------------------------- MODULE ProxiesProofs ----------------------------
(***************************************************************************)
(* Proofs about the two models of MCProxies: the parent of proxy_old, for  *)
(* any number of workers, pids, faults and failed forks, and a connection  *)
(* of the splice proxy, for any number of bytes and any pipe.              *)
(***************************************************************************)
EXTENDS MCProxies, FiniteSetTheorems, SequenceTheorems, TLAPS

-----------------------------------------------------------------------------
(***************************************************************************)
(* The parent (Supervisor).  WorkersTabled is not inductive: that a slot   *)
(* may be overwritten follows from where the loops are and from what they  *)
(* look for, and the count needs every worker not yet reaped in the table. *)
(***************************************************************************)

\* A worker that served, or was killed before it did.
Gone == {"crashed", "finished", "stopping", "stopped", "resumed", "reaped"}
ProcStates == {"none", "fresh", "handling", "running"} \cup Gone

SupTyped ==
    /\ parent \in {"create", "create_record", "wait", "restart", "restart_record",
                   "ended", "signalled", "killed"}
    /\ index \in 0..NumChild
    /\ forked \in Pids \cup {0}
    /\ dead \in Pids \cup {0}
    /\ table \in [Slots -> Pids \cup {0, -1}]
    /\ active \in Int
    /\ proc \in [Pids -> ProcStates]
    /\ everStopped \in BOOLEAN

\* fork's result is pending exactly while it is to be recorded; the slot it is
\* for is one never filled, or holds the worker that is being replaced, which is
\* not one that runs.
Loops ==
    /\ parent \in {"create_record", "restart_record"} => forked # 0 /\ index < NumChild
    /\ parent \in {"create", "wait", "restart", "ended"} => forked = 0
    /\ parent \in {"create", "create_record"} => \A i \in Slots : i >= index => table[i] = 0
    /\ parent = "restart_record" => table[index] = dead
    /\ parent \in {"restart", "restart_record"} =>
          dead # 0 /\ proc[dead] \in (IF everStopped THEN Gone ELSE {"reaped"})

\* No pid is in two places.
Distinct ==
    /\ \A i, j \in Slots : table[i] = table[j] /\ table[i] \in Pids => i = j
    /\ \A i \in Slots : table[i] \in Pids => proc[table[i]] # "none" /\ table[i] # forked
    /\ forked # 0 => proc[forked] # "none"

\* Where the parent looks for a worker.
InTable(p) == p = forked \/ \E i \in Scanned : table[i] = p

\* The parent has every worker it has not reaped in its hands; a worker that was
\* stopped and replaced is the only exception.
Tabled ==
    \A p \in Pids :
        \/ InTable(p)
        \/ proc[p] \in {"none", "reaped"}
        \/ everStopped /\ proc[p] \in Gone

\* WUNTRACED makes no difference as long as nobody stops a worker.
NeverStopped ==
    ~everStopped => \A p \in Pids : proc[p] \notin {"stopping", "stopped"}

SupInv == SupTyped /\ Loops /\ Distinct /\ Tabled /\ NeverStopped

\* A worker gets older: it is never again none, fresh or reaped, and it is
\* running or in the inherited handler only if it was fresh before.
Ages(p) ==
    \/ proc'[p] = proc[p]
    \/ /\ proc[p] \notin {"none", "reaped"}
       /\ proc'[p] \in (Gone \cup {"running", "handling"}) \ {"reaped"}
       /\ proc'[p] \in {"running", "handling"} => proc[p] = "fresh"

\* What the workers do, signals and faults included.
WorkerStep == \E p \in Pids : InheritedHandler(p) \/ Ready(p) \/ Fault(p) \/ Resume(p) \/ AcceptFails(p)

\* A signal to the parent, handled or not.
ParentDies == ParentSignal \/ ParentKilled

\* What a step of the workers, or a signal, leaves behind.
WorkersAge ==
    /\ proc' \in [Pids -> ProcStates]
    /\ \A p \in Pids : Ages(p)
    /\ everStopped' \in BOOLEAN /\ (everStopped => everStopped')
    /\ NeverStopped'

\* kill() ends or interrupts a worker, or is kept for later.
LEMMA KillAges ==
    ASSUME SupInv, NEW tab, NEW changed, KillAllChildren(tab, changed), everStopped' = everStopped,
           \A p \in DOMAIN changed : p \in Pids => proc[p] = "handling" /\ changed[p] = "crashed"
    PROVE  WorkersAge
<1> DEFINE hit == IF SentBy(tab) \cap {0, -1} # {} THEN Pids ELSE SentBy(tab)
<1>1. ASSUME NEW p \in Pids
      PROVE  proc'[p] = CASE p \in DOMAIN changed -> changed[p]
                          [] p \in hit /\ proc[p] \in {"running", "resumed"} -> "crashed"
                          [] p \in hit /\ proc[p] = "fresh" -> "handling"
                          [] OTHER -> proc[p]
  BY DEF KillAllChildren
<1> HIDE DEF hit
<1>2. ASSUME NEW p \in Pids
      PROVE  \/ proc'[p] = proc[p]
             \/ proc[p] \in {"running", "resumed", "handling"} /\ proc'[p] = "crashed"
             \/ proc[p] = "fresh" /\ proc'[p] = "handling"
  BY <1>1
<1>3. proc \in [Pids -> ProcStates] /\ everStopped \in BOOLEAN
  BY DEF SupInv, SupTyped
<1>4. \E f : proc' = [p \in Pids |-> f[p]]
  BY DEF KillAllChildren
<1>5. proc' \in [Pids -> ProcStates]
  BY <1>2, <1>3, <1>4 DEF ProcStates, Gone
<1>6. \A p \in Pids : Ages(p)
  BY <1>2 DEF Ages, Gone
<1>7. NeverStopped'
  BY <1>2 DEF SupInv, NeverStopped
<1> QED
  BY <1>3, <1>5, <1>6, <1>7 DEF WorkersAge

\* Ready, faults, signals and the parent's handler only let workers get older.
LEMMA StepAges ==
    ASSUME SupInv, WorkerStep \/ ParentDies
    PROVE  /\ WorkersAge /\ UNCHANGED <<index, forked, dead, table, active>>
           /\ parent' = parent \/ parent' \in {"signalled", "killed"}
<1> USE DEF loops, signals
<1>1. CASE ParentSignal
  BY <1>1, KillAges DEF ParentSignal
<1>4. CASE ParentKilled
  <2>1. proc' = proc /\ everStopped' = everStopped
    BY <1>4 DEF ParentKilled
  <2>2. proc \in [Pids -> ProcStates] /\ everStopped \in BOOLEAN
    BY DEF SupInv, SupTyped
  <2> QED BY <1>4, <2>1, <2>2 DEF ParentKilled, WorkersAge, Ages, SupInv, NeverStopped
<1>2. ASSUME NEW p \in Pids, InheritedHandler(p)
      PROVE  /\ WorkersAge /\ UNCHANGED <<index, forked, dead, table, active>>
             /\ parent' = parent
  BY <1>2, KillAges DEF InheritedHandler
<1>3. ASSUME NEW p \in Pids, Ready(p) \/ Fault(p) \/ Resume(p) \/ AcceptFails(p)
      PROVE  /\ WorkersAge /\ UNCHANGED <<index, forked, dead, table, active>>
             /\ parent' = parent
  <2>1. proc \in [Pids -> ProcStates] /\ everStopped \in BOOLEAN
    BY DEF SupInv, SupTyped
  <2>2. /\ proc' = [proc EXCEPT ![p] = proc'[p]]
        /\ UNCHANGED <<index, forked, dead, table, active, parent>>
    BY <1>3, <2>1 DEF Ready, Fault, Resume, AcceptFails, Moves
  <2>3. /\ Ages(p) /\ proc'[p] \in ProcStates
        /\ proc'[p] \in {"stopping", "stopped"} =>
              everStopped' \/ proc[p] \in {"stopping", "stopped"}
    BY <1>3, <2>1 DEF Ready, Fault, Resume, AcceptFails, Moves, Ages, Gone, ProcStates
  <2>4. everStopped' \in BOOLEAN /\ (everStopped => everStopped')
    BY <1>3, <2>1 DEF Ready, Fault, Resume, AcceptFails
  <2>5. proc' \in [Pids -> ProcStates] /\ \A q \in Pids \ {p} : proc'[q] = proc[q]
    BY <2>1, <2>2, <2>3
  <2>6. \A q \in Pids : Ages(q)
    BY <2>3, <2>5 DEF Ages
  <2>7. NeverStopped'
    BY <2>3, <2>4, <2>5 DEF SupInv, NeverStopped
  <2> QED BY <2>2, <2>4, <2>5, <2>6, <2>7 DEF WorkersAge
<1> QED
  BY <1>1, <1>2, <1>3, <1>4 DEF WorkerStep, ParentDies

\* What the workers do does not disturb what the parent knows.
LEMMA AgedInv ==
    ASSUME SupInv, WorkersAge, UNCHANGED <<index, forked, dead, table, active>>,
           parent' = parent \/ parent' \in {"signalled", "killed"}
    PROVE  SupInv' /\ Unreaped' = Unreaped /\ Failed' = Failed
<1> USE DEF SupInv, WorkersAge
<1>1. SupTyped'
  BY DEF SupTyped, Slots
<1>2. Loops'
  BY DEF SupTyped, Loops, Ages, Gone, Slots
<1>3. Distinct'
  <2>1. \A p \in Pids : proc[p] # "none" => proc'[p] # "none"
    BY DEF Ages, Gone
  <2> QED BY <2>1 DEF SupTyped, Distinct, Slots
<1>4. Tabled'
  <2>1. ASSUME NEW p \in Pids PROVE InTable(p) <=> InTable(p)'
    BY DEF InTable, Scanned
  <2>2. ASSUME NEW p \in Pids, ~InTable(p) 
        PROVE  proc'[p] \in {"none", "reaped"} \/ (everStopped' /\ proc'[p] \in Gone)
    BY <2>2 DEF Tabled, Ages, Gone, SupTyped
  <2> QED BY <2>1, <2>2 DEF Tabled
<1>5. Unreaped' = Unreaped
  BY DEF Unreaped, Ages, Gone
<1>6. Failed' = Failed
  BY DEF Failed, Slots
<1> QED
  BY <1>1, <1>2, <1>3, <1>4, <1>5, <1>6

\* fork hands out a pid that was never used.
LEMMA ForkInv ==
    ASSUME SupInv, NEW record,
           \/ parent = "create" /\ record = "create_record" /\ index < NumChild
           \/ parent = "restart" /\ record = "restart_record" /\ index < NumChild /\ table[index] = dead,
           Fork(record)
    PROVE  SupInv'
<1> USE SupervisorConstants DEF SupInv
<1>1. PICK p \in Pids : /\ proc[p] = "none" /\ forked' = p
                        /\ proc' = [proc EXCEPT ![p] = "fresh"]
  BY DEF Fork, NextPids
<1>2. /\ UNCHANGED <<index, dead, table, active, everStopped>> /\ parent' = record /\ forked = 0
  BY DEF Fork, signals, Loops
<1>3. proc'[p] = "fresh" /\ \A q \in Pids \ {p} : proc'[q] = proc[q]
  BY <1>1 DEF SupTyped
<1>4. 0 \notin Pids
  OBVIOUS
<1>5. SupTyped'
  BY <1>1, <1>2 DEF SupTyped, Slots, ProcStates, Gone
<1>6. Loops'
  BY <1>1, <1>2, <1>3, <1>4 DEF Loops, SupTyped, Slots, Gone
<1>7. Distinct'
  BY <1>1, <1>2, <1>3, <1>4 DEF Distinct, SupTyped, Slots
<1>8. Tabled'
  <2>1. ASSUME NEW q \in Pids \ {p} PROVE InTable(q) => InTable(q)'
    BY <1>2, <1>4 DEF InTable, Scanned
  <2> QED BY <1>1, <1>2, <1>3, <2>1 DEF Tabled, InTable, Gone
<1>9. NeverStopped'
  BY <1>2, <1>3 DEF NeverStopped
<1> QED BY <1>5, <1>6, <1>7, <1>8, <1>9

\* A slot is given a new value: what was there is no worker that runs, and what
\* comes there was nowhere else in the table.
LEMMA SlotWritten ==
    ASSUME SupInv, NEW v \in Pids \cup {-1},
           \/ parent \in {"create", "restart"} /\ v = -1
           \/ parent \in {"create_record", "restart_record"} /\ v = forked,
           index < NumChild,
           parent \in {"restart", "restart_record"} => table[index] = dead,
           table' = [table EXCEPT ![index] = v], forked' = 0, index' = index + 1,
           parent' = (IF parent \in {"create", "create_record"} THEN "create" ELSE "restart"),
           UNCHANGED <<dead, proc, everStopped>>, active' \in Int
    PROVE  SupInv'
<1> USE SupervisorConstants DEF SupInv
<1>1. index \in Scanned /\ index \in Slots /\ Scanned \subseteq Slots
  BY DEF SupTyped, Scanned, Slots
<1>2. table'[index] = v /\ \A i \in Slots \ {index} : table'[i] = table[i]
  BY <1>1 DEF SupTyped
<1>3. 0 \notin Pids /\ -1 \notin Pids
  OBVIOUS
<1>4. SupTyped'
  BY <1>1 DEF SupTyped
<1>5. Loops'
  <2>1. parent' = "create" => \A i \in Slots : i >= index' => table'[i] = 0
    BY <1>1, <1>2 DEF Loops, SupTyped, Slots
  <2> QED BY <2>1 DEF Loops, SupTyped
<1>6. Distinct'
  <2>1. \A i \in Slots : table'[i] \in Pids => proc[table'[i]] # "none"
    BY <1>2 DEF Distinct, SupTyped, Loops
  <2>2. \A i \in Slots \ {index} : table[i] \in Pids => table[i] # v
    BY <1>3 DEF Distinct
  <2>3. \A i, j \in Slots : table'[i] = table'[j] /\ table'[i] \in Pids => i = j
    BY <1>2, <2>2 DEF Distinct
  <2> QED BY <1>3, <2>1, <2>3 DEF Distinct, Slots
<1>7. Tabled'
  <2> SUFFICES ASSUME NEW p \in Pids
               PROVE  \/ InTable(p)' \/ proc[p] \in {"none", "reaped"}
                      \/ everStopped /\ proc[p] \in Gone
    BY DEF Tabled
  <2>1. CASE p = v
    BY <1>1, <1>2, <2>1 DEF InTable, Scanned
  <2>2. ASSUME NEW i \in Scanned, i # index, table[i] = p PROVE InTable(p)'
    BY <1>1, <1>2, <2>2 DEF InTable, Scanned
  <2>3. CASE table[index] = p
    <3>1. parent \in {"restart", "restart_record"}
      BY <1>1, <1>3, <2>3 DEF Loops, SupTyped
    <3> QED BY <2>3, <3>1 DEF Loops
  <2>4. CASE p = forked /\ p # v
    BY <1>3, <2>4 DEF Loops
  <2> QED BY <2>1, <2>2, <2>3, <2>4 DEF Tabled, InTable
<1>8. NeverStopped'
  BY DEF NeverStopped
<1> QED BY <1>4, <1>5, <1>6, <1>7, <1>8

\* Every step of the parent keeps the invariant.
LEMMA ParentInv ==
    ASSUME SupInv, ParentStep
    PROVE  SupInv'
<1> USE SupervisorConstants DEF loops, signals
<1>1. active \in Int /\ active + 1 \in Int /\ active - 1 \in Int /\ forked \in Pids \cup {0}
      /\ table \in [Slots -> Pids \cup {0, -1}] /\ index \in 0..NumChild
  BY DEF SupInv, SupTyped
<1>2. CASE Create
  <2>1. CASE Fork("create_record")
    BY <1>2, <2>1, ForkInv DEF Create
  <2>2. CASE ForkFails /\ active' = active + 1
    <3>1. parent = "create" /\ index < NumChild /\ forked = 0
      BY <1>2 DEF Create, SupInv, Loops
    <3>2. /\ table' = [table EXCEPT ![index] = -1] /\ index' = index + 1
          /\ UNCHANGED <<parent, forked, dead, proc, everStopped>> /\ active' \in Int
      BY <1>1, <2>2 DEF ForkFails
    <3> QED BY <3>1, <3>2, SlotWritten
  <2> QED BY <1>2, <2>1, <2>2 DEF Create
<1>3. CASE CreateRecord
  <2>1. parent = "create_record" /\ index < NumChild /\ forked \in Pids
    BY <1>1, <1>3 DEF CreateRecord, SupInv, Loops
  <2>2. /\ table' = [table EXCEPT ![index] = forked] /\ index' = index + 1 /\ forked' = 0
        /\ parent' = "create" /\ UNCHANGED <<dead, proc, everStopped>> /\ active' \in Int
    BY <1>1, <1>3 DEF CreateRecord, Record
  <2> QED BY <2>1, <2>2, SlotWritten
<1>4. CASE Restart
  <2>1. CASE Fork("restart_record")
    BY <1>4, <2>1, ForkInv DEF Restart
  <2>2. CASE ForkFails /\ UNCHANGED active
    <3>1. parent = "restart" /\ index < NumChild /\ forked = 0 /\ table[index] = dead
      BY <1>4 DEF Restart, SupInv, Loops
    <3>2. /\ table' = [table EXCEPT ![index] = -1] /\ index' = index + 1
          /\ UNCHANGED <<parent, forked, dead, proc, everStopped>> /\ active' \in Int
      BY <1>1, <2>2 DEF ForkFails
    <3> QED BY <3>1, <3>2, SlotWritten
  <2> QED BY <1>4, <2>1, <2>2 DEF Restart
<1>5. CASE RestartRecord
  <2>1. parent = "restart_record" /\ index < NumChild /\ forked \in Pids /\ table[index] = dead
    BY <1>1, <1>5 DEF RestartRecord, SupInv, Loops
  <2>2. /\ table' = [table EXCEPT ![index] = forked] /\ index' = index + 1 /\ forked' = 0
        /\ parent' = "restart" /\ UNCHANGED <<dead, proc, everStopped>> /\ active' \in Int
    BY <1>1, <1>5 DEF RestartRecord, Record
  <2> QED BY <2>1, <2>2, SlotWritten
<1>6. CASE CreateDone \/ WaitEnds
  BY <1>6 DEF CreateDone, WaitEnds, SupInv, SupTyped, Loops, Distinct, Tabled, InTable,
              NeverStopped, Slots, Scanned
<1>7. CASE RestartSkip
  <2>1. UNCHANGED <<forked, dead, table, active, proc, everStopped>>
    BY <1>7 DEF RestartSkip
  <2>2. parent' \in {"restart", "wait"} /\ parent = "restart" /\ index' \in 0..NumChild
    BY <1>1, <1>7 DEF RestartSkip
  <2>3. SupTyped' /\ Loops' /\ NeverStopped'
    BY <2>1, <2>2 DEF SupInv, SupTyped, Loops, NeverStopped, Slots
  <2>4. Distinct' /\ Tabled'
    BY <2>1 DEF SupInv, Distinct, Tabled, InTable, Slots, Scanned
  <2> QED BY <2>3, <2>4 DEF SupInv
<1>8. ASSUME NEW p \in Pids, WaitDied(p) \/ WaitFinished(p) PROVE SupInv'
  <2>1. /\ UNCHANGED <<forked, table, everStopped>> /\ parent = "wait" /\ forked = 0
        /\ active' \in Int
    BY <1>1, <1>8 DEF WaitDied, WaitFinished, SupInv, Loops
  <2>2. /\ proc[p] \in {"crashed", "stopping", "finished"}
        /\ proc' = [proc EXCEPT ![p] = proc'[p]]
        /\ proc'[p] = (IF proc[p] = "stopping" THEN "stopped" ELSE "reaped")
    BY <1>8 DEF WaitDied, WaitFinished, SupInv, SupTyped
  <2>3. \A q \in Pids \ {p} : proc'[q] = proc[q]
    BY <2>2 DEF SupInv, SupTyped
  <2>4. \/ parent' = "restart" /\ dead' = p /\ index' = 0
        \/ parent' = "wait" /\ dead' = dead /\ index' = index
    BY <1>8 DEF WaitDied, WaitFinished
  <2>5. SupTyped'
    BY <2>1, <2>2, <2>4 DEF SupInv, SupTyped, Slots, ProcStates, Gone
  <2>6. Loops'
    BY <2>1, <2>2, <2>3, <2>4 DEF SupInv, SupTyped, Loops, Slots, Gone, NeverStopped
  <2>7. Distinct'
    BY <2>1, <2>2, <2>3 DEF SupInv, SupTyped, Distinct, Slots
  <2>8. Tabled'
    BY <2>1, <2>2, <2>3 DEF SupInv, SupTyped, Tabled, InTable, Scanned, Gone, NeverStopped
  <2>9. NeverStopped'
    BY <2>1, <2>2, <2>3 DEF SupInv, NeverStopped
  <2> QED BY <2>5, <2>6, <2>7, <2>8, <2>9 DEF SupInv
<1> QED
  BY <1>2, <1>3, <1>4, <1>5, <1>6, <1>7, <1>8 DEF ParentStep

\* The parent's invariant holds in every reachable state.
LEMMA StepSup == SupInv /\ [Next]_vars => SupInv'
<1> SUFFICES ASSUME SupInv, [Next]_vars PROVE SupInv'
  OBVIOUS
<1>1. CASE ParentStep
  BY <1>1, ParentInv
<1>2. CASE WorkerStep \/ ParentDies
  BY <1>2, StepAges, AgedInv
<1>3. CASE UNCHANGED vars
  BY <1>3 DEF vars, loops, signals, SupInv, SupTyped, Loops, Distinct, Tabled, InTable,
              NeverStopped, Slots, Scanned
<1> QED
  BY <1>1, <1>2, <1>3 DEF Next, WorkerStep, ParentDies

\* Before the first fork there is nothing to know.
LEMMA InitSup == Init => SupInv
<1> SUFFICES ASSUME Init PROVE SupInv
  OBVIOUS
<1>1. 0 \notin Pids /\ NumChild \in Nat
  BY SupervisorConstants
<1>2. SupTyped
  <2>1. everStopped \in BOOLEAN
    BY DEF Init
  <2> QED BY <1>1, <2>1 DEF Init, SupTyped, ProcStates
<1>3. Loops /\ Distinct
  BY <1>1 DEF Init, Loops, Distinct
<1>4. Tabled /\ NeverStopped
  BY DEF Init, Tabled, NeverStopped
<1> QED BY <1>2, <1>3, <1>4 DEF SupInv

\* The two sets the count is about are finite.
LEMMA CountedSets ==
    /\ IsFiniteSet(Unreaped) /\ Cardinality(Unreaped) \in Nat
    /\ IsFiniteSet(Failed) /\ Cardinality(Failed) \in Nat
<1>1. IsFiniteSet(Slots)
  BY SupervisorConstants, FS_Interval DEF Slots
<1>2. IsFiniteSet(Unreaped) /\ IsFiniteSet(Failed)
  BY <1>1, SupervisorConstants, FS_Subset DEF Unreaped, Failed
<1> QED BY <1>2, FS_CardinalityType

\* A fork that fails marks one more slot.
LEMMA OneMoreFailed ==
    ASSUME SupInv, index < NumChild, table[index] # -1, table' = [table EXCEPT ![index] = -1]
    PROVE  Cardinality(Failed') = Cardinality(Failed) + 1
<1>1. index \in Slots /\ index \notin Failed
  BY SupervisorConstants DEF SupInv, SupTyped, Failed, Slots
<1>2. Failed' = Failed \cup {index}
  BY <1>1 DEF SupInv, SupTyped, Failed, Slots
<1> QED BY <1>1, <1>2, CountedSets, FS_AddElement

\* Recording a worker marks no slot.
LEMMA SameFailed ==
    ASSUME SupInv, index < NumChild, table[index] # -1, forked \in Pids,
           table' = [table EXCEPT ![index] = forked]
    PROVE  Failed' = Failed
BY SupervisorConstants DEF SupInv, SupTyped, Failed, Slots

\* fork makes one more worker.
LEMMA OneMoreWorker ==
    ASSUME SupInv, NEW record, Fork(record)
    PROVE  Cardinality(Unreaped') = Cardinality(Unreaped) + 1 /\ Failed' = Failed
<1>1. PICK p \in Pids : proc[p] = "none" /\ proc' = [proc EXCEPT ![p] = "fresh"]
  BY DEF Fork, NextPids
<1>2. p \notin Unreaped /\ Unreaped' = Unreaped \cup {p}
  BY <1>1 DEF SupInv, SupTyped, Unreaped
<1>3. Failed' = Failed
  BY DEF Fork, Failed, Slots
<1> QED BY <1>2, <1>3, CountedSets, FS_AddElement

\* The count follows every fork, every failure and every worker that is reaped.
LEMMA StepActive == SupInv /\ ActiveExact /\ [Next]_vars => ActiveExact'
<1> SUFFICES ASSUME SupInv, ActiveExact, [Next]_vars, ~everStopped', parent' \notin {"signalled", "killed"}
             PROVE  active' + (IF forked' # 0 /\ parent' = "create_record" THEN 1 ELSE 0)
                      = Cardinality(Unreaped') + Cardinality(Failed')
                          + (IF Replacing' THEN 1 ELSE 0)
  BY DEF ActiveExact
<1> DEFINE Exact == active + (IF forked # 0 /\ parent = "create_record" THEN 1 ELSE 0)
                      = Cardinality(Unreaped) + Cardinality(Failed)
                          + (IF Replacing THEN 1 ELSE 0)
<1>1. SupInv'
  BY StepSup
<1>2. /\ ~everStopped /\ parent \notin {"signalled", "killed"} /\ Exact
  <2>1. everStopped => everStopped'
    BY DEF SupInv, SupTyped, Next, ParentStep, Create, CreateRecord, CreateDone, WaitDied, WaitFinished, WaitEnds,
           Restart, RestartRecord, RestartSkip, Fork, ForkFails, Record, ParentSignal, ParentKilled,
           InheritedHandler, Ready, Fault, Resume, AcceptFails, vars, loops, signals
  <2>2. parent \in {"signalled", "killed"} => parent' = parent
    BY DEF Next, ParentStep, Create, CreateRecord, CreateDone, WaitDied, WaitFinished, WaitEnds,
           Restart, RestartRecord, RestartSkip, ParentSignal, ParentKilled, Over,
           InheritedHandler, Ready, Fault, Resume, AcceptFails, vars
  <2> QED BY <2>1, <2>2 DEF ActiveExact
<1>3. /\ active \in Int /\ Cardinality(Unreaped) \in Nat /\ Cardinality(Failed) \in Nat
      /\ index \in 0..NumChild /\ NumChild \in Nat /\ 0 \notin Pids /\ -1 \notin Pids
      /\ forked \in Pids \cup {0} /\ dead \in Pids \cup {0}
      /\ table \in [Slots -> Pids \cup {0, -1}] /\ Scanned \subseteq Slots
      /\ proc \in [Pids -> ProcStates]
  BY CountedSets, SupervisorConstants DEF SupInv, SupTyped, Scanned, Slots
<1>4. ASSUME Unreaped' = Unreaped, Failed' = Failed, Replacing' = Replacing,
             UNCHANGED <<active, forked, parent>>
      PROVE  Exact'
  BY <1>2, <1>4
<1>5. CASE WorkerStep \/ ParentDies
  <2>1. /\ UNCHANGED <<index, forked, dead, table, active>> /\ WorkersAge
        /\ parent' = parent
    BY <1>5, StepAges
  <2>2. Unreaped' = Unreaped /\ Failed' = Failed
    BY <2>1, AgedInv
  <2>3. Replacing' = Replacing
    BY <2>1 DEF Replacing, Scanned
  <2> QED BY <1>4, <2>1, <2>2, <2>3
<1>6. CASE Create
  <2>1. parent = "create" /\ forked = 0 /\ index < NumChild /\ table[index] = 0 /\ ~Replacing
    BY <1>3, <1>6 DEF Create, SupInv, Loops, Slots, Replacing, Scanned
  <2>2. CASE Fork("create_record")
    <3>1. forked' # 0 /\ parent' = "create_record" /\ active' = active
      BY <1>3, <2>2 DEF Fork, NextPids
    <3>2. ~Replacing'
      BY <3>1 DEF Replacing
    <3> QED BY <1>2, <1>3, <2>1, <2>2, <3>1, <3>2, OneMoreWorker
  <2>3. CASE ForkFails /\ active' = active + 1
    <3>1. /\ UNCHANGED <<parent, forked>> /\ Unreaped' = Unreaped
          /\ table' = [table EXCEPT ![index] = -1]
      BY <2>3 DEF ForkFails, Unreaped
    <3>2. ~Replacing'
      BY <2>1, <3>1 DEF Replacing
    <3> QED BY <1>2, <1>3, <2>1, <2>3, <3>1, <3>2, OneMoreFailed
  <2> QED BY <1>6, <2>2, <2>3 DEF Create
<1>7. CASE CreateRecord
  <2>1. /\ parent = "create_record" /\ forked # 0 /\ index < NumChild /\ table[index] = 0
        /\ ~Replacing
    BY <1>3, <1>7 DEF CreateRecord, SupInv, Loops, Slots, Replacing, Scanned
  <2>2. /\ parent' = "create" /\ active' = active + 1 /\ Unreaped' = Unreaped
        /\ table' = [table EXCEPT ![index] = forked]
    BY <1>7 DEF CreateRecord, Record, Unreaped
  <2>3. Failed' = Failed /\ ~Replacing'
    BY <1>3, <2>1, <2>2, SameFailed DEF Replacing
  <2> QED BY <1>2, <1>3, <2>1, <2>2, <2>3
<1>8. CASE CreateDone
  <2>1. /\ parent = "create" /\ parent' = "wait" /\ active' = active
        /\ Unreaped' = Unreaped /\ Failed' = Failed
    BY <1>8 DEF CreateDone, Unreaped, Failed, Slots
  <2> QED BY <1>2, <2>1 DEF Replacing
<1>9. ASSUME NEW p \in Pids, WaitDied(p) \/ WaitFinished(p) PROVE Exact'
  <2>1. /\ parent = "wait" /\ Failed' = Failed /\ forked = 0 /\ forked' = 0 /\ table' = table
    BY <1>9 DEF WaitDied, WaitFinished, Failed, Slots, SupInv, Loops, loops
  <2>2. proc[p] \in {"crashed", "finished"} /\ proc' = [proc EXCEPT ![p] = "reaped"]
    BY <1>2, <1>9 DEF WaitDied, WaitFinished, SupInv, NeverStopped
  <2>3. p \in Unreaped /\ Unreaped' = Unreaped \ {p}
    BY <1>3, <2>2 DEF Unreaped
  <2>4. Cardinality(Unreaped') = Cardinality(Unreaped) - 1
    BY <2>3, CountedSets, FS_RemoveElement
  <2>5. CASE WaitDied(p)
    <3>1. parent' = "restart" /\ dead' = p /\ index' = 0 /\ active' = active
      BY <2>5 DEF WaitDied
    <3>2. \E i \in Scanned : table[i] = p
      BY <1>2, <1>3, <2>1, <2>2 DEF SupInv, Tabled, InTable
    <3>3. Replacing'
      BY <2>1, <3>1, <3>2 DEF Replacing, Scanned
    <3> QED BY <1>2, <1>3, <2>1, <2>4, <3>1, <3>3 DEF Replacing
  <2>6. CASE WaitFinished(p)
    <3>1. parent' = "wait" /\ active' = active - 1
      BY <2>1, <2>6 DEF WaitFinished
    <3> QED BY <1>2, <1>3, <2>1, <2>4, <3>1 DEF Replacing
  <2> QED BY <1>9, <2>5, <2>6
<1>10. CASE WaitEnds
  <2>1. /\ parent = "wait" /\ parent' = "ended" /\ active' = active
        /\ Unreaped' = Unreaped /\ Failed' = Failed
    BY <1>10 DEF WaitEnds, Unreaped, Failed, Slots
  <2> QED BY <1>2, <2>1 DEF Replacing
<1>11. ASSUME parent \in {"restart", "restart_record"}, parent' = "restart", index < NumChild,
              index' = index + 1, dead' = dead, table[index] = dead, dead # 0,
              NEW v, table' = [table EXCEPT ![index] = v]
       PROVE  ~Replacing'
  <2>1. dead \in Pids /\ index \in Slots
    BY <1>3, <1>11, SupervisorConstants DEF Slots
  <2>2. \A i \in Slots : i # index => table[i] # dead /\ table'[i] = table[i]
    BY <1>3, <1>11, <2>1 DEF SupInv, Distinct
  <2>3. ASSUME NEW i \in Scanned, i >= index + 1 PROVE table'[i] # dead
    BY <1>3, <2>2, <2>3 DEF Scanned
  <2> QED BY <1>11, <2>3 DEF Replacing, Scanned
<1>12. CASE Restart
  <2>1. parent = "restart" /\ forked = 0 /\ index < NumChild /\ table[index] = dead /\ dead # 0
    BY <1>12 DEF Restart, SupInv, Loops
  <2>2. Replacing
    BY <1>3, <2>1 DEF Replacing, Scanned
  <2>3. CASE Fork("restart_record")
    <3>1. parent' = "restart_record" /\ active' = active
      BY <2>3 DEF Fork
    <3> QED BY <1>2, <1>3, <2>1, <2>2, <2>3, <3>1, OneMoreWorker DEF Replacing
  <2>4. CASE ForkFails /\ UNCHANGED active
    <3>1. /\ UNCHANGED <<parent, forked, dead>> /\ Unreaped' = Unreaped /\ index' = index + 1
          /\ table' = [table EXCEPT ![index] = -1]
      BY <2>4 DEF ForkFails, Unreaped
    <3>2. ~Replacing'
      BY <1>11, <2>1, <3>1
    <3>3. Cardinality(Failed') = Cardinality(Failed) + 1
      BY <1>3, <2>1, <3>1, OneMoreFailed
    <3> QED BY <1>2, <1>3, <2>1, <2>2, <2>4, <3>1, <3>2, <3>3
  <2> QED BY <1>12, <2>3, <2>4 DEF Restart
<1>13. CASE RestartRecord
  <2>1. /\ parent = "restart_record" /\ forked # 0 /\ index < NumChild /\ table[index] = dead
        /\ dead # 0
    BY <1>13 DEF RestartRecord, SupInv, Loops
  <2>2. /\ parent' = "restart" /\ active' = active /\ Unreaped' = Unreaped /\ dead' = dead
        /\ table' = [table EXCEPT ![index] = forked] /\ index' = index + 1
    BY <1>13 DEF RestartRecord, Record, Unreaped
  <2>3. Failed' = Failed
    BY <1>3, <2>1, <2>2, SameFailed
  <2>4. ~Replacing'
    BY <1>11, <2>1, <2>2
  <2> QED BY <1>2, <1>3, <2>1, <2>2, <2>3, <2>4 DEF Replacing
<1>14. CASE RestartSkip
  <2>1. /\ parent = "restart" /\ UNCHANGED <<forked, dead, table, active>> /\ forked = 0
        /\ Unreaped' = Unreaped /\ Failed' = Failed
    BY <1>14 DEF RestartSkip, Unreaped, Failed, Slots, SupInv, Loops
  <2>2. Replacing' = Replacing
    <3>1. CASE index < NumChild
      <4>1. table[index] # dead /\ index' = index + 1 /\ parent' = parent
        BY <1>14, <3>1 DEF RestartSkip
      <4>2. \A i \in Scanned : (i >= index /\ table[i] = dead) <=> (i >= index + 1 /\ table[i] = dead)
        BY <1>3, <4>1 DEF Scanned
      <4> QED BY <2>1, <4>1, <4>2 DEF Replacing, Scanned
    <3>2. CASE ~(index < NumChild)
      <4>1. parent' = "wait"
        BY <1>14, <3>2 DEF RestartSkip
      <4>2. ~Replacing
        BY <1>3, <3>2 DEF Replacing, Scanned
      <4> QED BY <4>1, <4>2 DEF Replacing
    <3> QED BY <3>1, <3>2
  <2>3. parent' # "create_record"
    BY <1>14 DEF RestartSkip
  <2> QED BY <1>2, <2>1, <2>2, <2>3
<1>15. CASE UNCHANGED vars
  <2>1. /\ Unreaped' = Unreaped /\ Failed' = Failed /\ Replacing' = Replacing
        /\ UNCHANGED <<active, forked, parent>>
    BY <1>15 DEF vars, loops, Unreaped, Failed, Slots, Replacing, Scanned
  <2> QED BY <1>4, <2>1
<1> QED
  BY <1>5, <1>6, <1>7, <1>8, <1>9, <1>10, <1>12, <1>13, <1>14, <1>15
     DEF Next, WorkerStep, ParentDies, ParentStep

\* The signal handler reaches every worker in the table.
LEMMA StepShutdown == SupInv /\ ShutdownReachesAll /\ [Next]_vars => ShutdownReachesAll'
<1> SUFFICES ASSUME SupInv, ShutdownReachesAll, [Next]_vars, parent' = "signalled",
                    NEW p \in Pids, proc'[p] \in {"fresh", "running"}
             PROVE  p = forked'
  BY DEF ShutdownReachesAll
<1>1. CASE ParentSignal
  <2>1. proc[p] \in {"fresh", "running"} /\ forked' = forked
    BY <1>1, StepAges DEF ParentDies, WorkersAge, Ages, Gone, SupInv, SupTyped
  <2>2. ASSUME NEW i \in Scanned, table[i] = p PROVE FALSE
    <3>1. p \in SentBy(table)
      BY <2>2 DEF SentBy
    <3>2. proc'[p] \notin {"fresh", "running"}
      BY <1>1, <2>1, <3>1 DEF ParentSignal, KillAllChildren
    <3> QED BY <3>2
  <2> QED BY <2>1, <2>2 DEF SupInv, Tabled, InTable, Gone
<1>2. CASE WorkerStep
  <2>1. proc[p] \in {"fresh", "running"} /\ forked' = forked /\ parent' = parent
    <3>1. parent' = parent
      BY <1>2 DEF WorkerStep, InheritedHandler, Ready, Fault, Resume, AcceptFails
    <3> QED BY <1>2, <3>1, StepAges DEF WorkersAge, Ages, Gone, SupInv, SupTyped
  <2> QED BY <2>1 DEF ShutdownReachesAll
<1>3. ~ParentStep /\ ~ParentKilled
  BY DEF ParentKilled, ParentStep, Create, CreateRecord, CreateDone, WaitDied, WaitFinished, WaitEnds, Restart,
         RestartRecord, RestartSkip, Fork, ForkFails, Record
<1>4. CASE UNCHANGED vars
  BY <1>4 DEF vars, loops, ShutdownReachesAll
<1> QED
  BY <1>1, <1>2, <1>3, <1>4 DEF Next, WorkerStep

\* The parent's part of ProxiesSpec has the invariant.
LEMMA SupervisorInvariant == ProxiesSpec => [](SupInv /\ ActiveExact /\ ShutdownReachesAll)
<1>1. Init => ActiveExact /\ ShutdownReachesAll
  <2> SUFFICES ASSUME Init PROVE ActiveExact /\ ShutdownReachesAll
    OBVIOUS
  <2>1. Unreaped = {} /\ Failed = {} /\ ~Replacing /\ active = 0 /\ parent = "create"
    BY DEF Init, Unreaped, Failed, Replacing
  <2> QED BY <2>1, FS_EmptySet DEF ActiveExact, ShutdownReachesAll
<1>2. [ProxiesNext]_proxies_vars => [Next]_vars
  BY DEF ProxiesNext, InParent, InTunnel, proxies_vars
<1> QED
  BY <1>1, <1>2, InitSup, StepSup, StepActive, StepShutdown, PTL DEF ProxiesSpec, ProxiesInit

\* For any number of workers, through failed forks, crashes and restarts, the
\* parent can find every worker that runs, and its count is exact as long as no
\* worker was stopped.
THEOREM WorkersAreAccounted == ProxiesSpec => []WorkersAccounted
<1>1. SupInv => WorkersTabled
  BY DEF SupInv, SupTyped, Tabled, InTable, WorkersTabled, Gone
<1> QED
  BY <1>1, SupervisorInvariant, PTL DEF WorkersAccounted

\* A parent that dies by a signal it handles (not SIGTERM, not SIGKILL) has passed
\* it on: the only worker that still serves is the one it was forking.
THEOREM ShutdownReaches == ProxiesSpec => []ShutdownReachesAll
BY SupervisorInvariant, PTL

-----------------------------------------------------------------------------
(***************************************************************************)
(* The tunnel (SpliceTunnel).  BytesIntact needs that recv finds an empty  *)
(* buffer; that the end comes last, that a peer that closed stays silent.  *)
(***************************************************************************)
TunnelTyped ==
    /\ pc \in {"accept", "queue", "connect", "dropped", "setup", "poll", "recv", "send",
               "splice_in", "splice_out", "close_pipe", "release", "done"}
    /\ why \in {"running", "connect", "error", "client_closed", "server_closed"}
    /\ open \subseteq {"client", "info", "os", "pipe"}
    /\ fromClient \in Seq(Nat) /\ buf \in Seq(Nat) /\ toServer \in Seq(Nat)
    /\ fromServer \in Seq(Nat) /\ pipe \in Seq(Nat) /\ toClient \in Seq(Nat)
    /\ cSent \in Nat /\ sSent \in Nat /\ cClosed \in BOOLEAN /\ sClosed \in BOOLEAN
    /\ short \in BOOLEAN

Closing == {"close_pipe", "release", "done"}

\* recv is called only when everything received before was sent, bytes stay in
\* the pipe between two splices only after a short one, and a tunnel that ended
\* because a peer closed will get no more from that peer.
InOrder ==
    /\ pc \notin Closing \cup {"send"} => buf = <<>>
    /\ why # "running" => pc \in Closing
    /\ why = "client_closed" => cClosed /\ buf = <<>> /\ fromClient = <<>>
    /\ pc \notin Closing \cup {"splice_out"} => pipe = <<>> \/ short
    /\ why = "server_closed" => sClosed /\ fromServer = <<>> /\ (pipe = <<>> \/ short)

\* What is still held on the way out.
Holding ==
    /\ pc = "accept" => open = {}
    /\ pc = "release" => "pipe" \notin open
    /\ pc \in {"queue", "connect", "dropped"} => open = {"client", "info"}
    /\ pc = "setup" => "pipe" \notin open
    /\ why = "connect" => pc = "done" /\ open \subseteq {"os"}
    /\ pc = "done" /\ why # "connect" => open = {}

TunnelInv == TunnelTyped /\ InOrder /\ Holding /\ Tunnel!BytesIntact

\* The way of the bytes has no brackets.
LEMMA Associative ==
    ASSUME NEW a \in Seq(Nat), NEW b \in Seq(Nat), NEW c \in Seq(Nat)
    PROVE  (a \o b) \o c = a \o (b \o c)
OBVIOUS

\* What a splice, recv or send does to two neighbours on the way of the bytes:
\* the first k bytes of one go to the end of the other, and nothing else happens.
LEMMA BytesMove ==
    ASSUME NEW a \in Seq(Nat), NEW b \in Seq(Nat), NEW k \in 1..Len(b)
    PROVE  /\ Tunnel!First(b, k) \in Seq(Nat) /\ Tunnel!Rest(b, k) \in Seq(Nat)
           /\ a \o Tunnel!First(b, k) \in Seq(Nat)
           /\ Tunnel!First(b, k) \o Tunnel!Rest(b, k) = b
           /\ (a \o Tunnel!First(b, k)) \o Tunnel!Rest(b, k) = a \o b
<1>1. Len(b) \in Nat /\ \A i \in 1..Len(b) : b[i] \in Nat
  BY LenProperties, ElementOfSeq
<1>2. Tunnel!First(b, k) \in Seq(Nat)
  BY <1>1, SubSeqProperties DEF Tunnel!First
<1>3. Tunnel!Rest(b, k) \in Seq(Nat)
  BY <1>1, SubSeqProperties DEF Tunnel!Rest
<1>4. Tunnel!First(b, k) \o Tunnel!Rest(b, k) = SubSeq(b, 1, Len(b))
  BY <1>1, ConcatAdjacentSubSeq DEF Tunnel!First, Tunnel!Rest
<1>5. SubSeq(b, 1, Len(b)) = b
  BY SubSeqFull
<1>6. a \o Tunnel!First(b, k) \in Seq(Nat)
  BY <1>2, ConcatProperties
<1>7. (a \o Tunnel!First(b, k)) \o Tunnel!Rest(b, k) = a \o (Tunnel!First(b, k) \o Tunnel!Rest(b, k))
  BY <1>2, <1>3, Associative, ZenonT(60)
<1> QED BY <1>2, <1>3, <1>4, <1>5, <1>6, <1>7

\* One more byte at the end of the stream.
LEMMA OneMoreByte ==
    ASSUME NEW n \in Nat, NEW a \in Seq(Nat), NEW c \in Seq(Nat), a \o c = Tunnel!Bytes(n)
    PROVE  a \o Append(c, n + 1) = Tunnel!Bytes(n + 1)
<1> DEFINE last == <<n + 1>>
<1>1. last \in Seq(Nat) /\ n + 1 \in Nat /\ Tunnel!Bytes(n) \in Seq(Nat)
  <2>1. a \o c \in Seq(Nat)
    BY ConcatProperties
  <2>2. Tunnel!Bytes(n) \in Seq(Nat)
    BY <2>1
  <2> QED BY <2>2
<1>2. Append(c, n + 1) = c \o last
  BY <1>1, AppendIsConcat
<1>3. Append(Tunnel!Bytes(n), n + 1) = Tunnel!Bytes(n) \o last
  BY <1>1, AppendIsConcat
<1>4. Append(Tunnel!Bytes(n), n + 1) = Tunnel!Bytes(n + 1)
  BY DEF Tunnel!Bytes
<1> HIDE DEF last
<1>5. (a \o c) \o last = a \o (c \o last)
  BY <1>1, Associative
<1> QED BY <1>2, <1>3, <1>4, <1>5

\* s is the numbers k + 1, k + 2, ...
From(s, k) == s \in Seq(Nat) /\ \A i \in 1..Len(s) : s[i] = k + i

\* A whole stream is numbered from 1.
LEMMA FromZero ==
    ASSUME NEW n \in Nat, NEW s
    PROVE  s = Tunnel!Bytes(n) <=> From(s, 0) /\ Len(s) = n
<1>1. ASSUME s = Tunnel!Bytes(n) PROVE From(s, 0) /\ Len(s) = n
  BY <1>1 DEF From, Tunnel!Bytes
<1>2. ASSUME From(s, 0), Len(s) = n PROVE s = Tunnel!Bytes(n)
  <2>1. s = [i \in 1..Len(s) |-> s[i]]
    BY <1>2 DEF From
  <2> QED BY <1>2, <2>1 DEF From, Tunnel!Bytes
<1> QED BY <1>1, <1>2

\* Two neighbours are numbered one after the other.
LEMMA FromConcat ==
    ASSUME NEW a \in Seq(Nat), NEW b \in Seq(Nat), NEW k \in Nat
    PROVE  /\ a \o b \in Seq(Nat) /\ Len(a \o b) = Len(a) + Len(b)
           /\ From(a \o b, k) <=> From(a, k) /\ From(b, k + Len(a))
<1> DEFINE ab == a \o b
<1>1. /\ ab \in Seq(Nat) /\ Len(ab) = Len(a) + Len(b) /\ Len(a) \in Nat /\ Len(b) \in Nat
      /\ \A i \in 1..Len(a) + Len(b) : ab[i] = IF i <= Len(a) THEN a[i] ELSE b[i - Len(a)]
  BY ConcatProperties, LenProperties
<1> HIDE DEF ab
<1>2. \A i \in 1..Len(a) : ab[i] = a[i]
  BY <1>1
<1>3. \A i \in 1..Len(b) : ab[Len(a) + i] = b[i]
  <2> TAKE i \in 1..Len(b)
  <2>1. Len(a) + i \in 1..Len(a) + Len(b) /\ ~(Len(a) + i <= Len(a)) /\ Len(a) + i - Len(a) = i
    BY <1>1
  <2> QED BY <1>1, <2>1
<1>4. ASSUME From(ab, k) PROVE From(a, k) /\ From(b, k + Len(a))
  <2>1. ASSUME NEW i \in 1..Len(a) PROVE a[i] = k + i
    BY <1>1, <1>2, <1>4 DEF From
  <2>2. ASSUME NEW i \in 1..Len(b) PROVE b[i] = k + Len(a) + i
    <3>1. Len(a) + i \in 1..Len(ab) /\ k + (Len(a) + i) = k + Len(a) + i
      BY <1>1
    <3> QED BY <1>3, <1>4, <3>1 DEF From
  <2> QED BY <2>1, <2>2 DEF From
<1>5. ASSUME From(a, k), From(b, k + Len(a)), NEW i \in 1..Len(ab) PROVE ab[i] = k + i
  <2>1. CASE i <= Len(a)
    BY <1>1, <1>2, <1>5, <2>1 DEF From
  <2>2. CASE ~(i <= Len(a))
    <3>1. i - Len(a) \in 1..Len(b) /\ k + Len(a) + (i - Len(a)) = k + i
      BY <1>1, <2>2
    <3>2. ab[i] = b[i - Len(a)]
      BY <1>1, <2>2
    <3> QED BY <1>5, <3>1, <3>2 DEF From
  <2> QED BY <2>1, <2>2
<1>6. ASSUME From(a, k), From(b, k + Len(a)) PROVE From(ab, k)
  BY <1>1, <1>5, <1>6 DEF From
<1> QED BY <1>1, <1>4, <1>6 DEF ab

\* Counting from the second byte on.
LEMMA FromShifted ==
    ASSUME NEW s, NEW k \in Nat, From(s, k + 1)
    PROVE  From(Tunnel!Shifted(s), k) /\ Len(Tunnel!Shifted(s)) = Len(s)
<1>1. Len(s) \in Nat /\ \A i \in 1..Len(s) : s[i] - 1 = k + i
  BY LenProperties DEF From
<1>2. Tunnel!Shifted(s) = [i \in 1..Len(s) |-> k + i]
  BY <1>1 DEF Tunnel!Shifted
<1> QED BY <1>1, <1>2 DEF From

\* The window over the server's bytes moves on: all of them get a number less.
LEMMA WindowMoves ==
    ASSUME TunnelTyped, Tunnel!BytesIntact, toClient # <<>>, sSent' = sSent,
           toClient' = Tunnel!Shifted(Tail(toClient)), pipe' = Tunnel!Shifted(pipe),
           fromServer' = Append(Tunnel!Shifted(fromServer), sSent)
    PROVE  /\ toClient' \in Seq(Nat) /\ pipe' \in Seq(Nat) /\ fromServer' \in Seq(Nat)
           /\ toClient' \o pipe' \o fromServer' = Tunnel!Bytes(sSent)
<1> DEFINE ab == toClient \o pipe
           d == Tunnel!Shifted(fromServer)
           xy == toClient' \o pipe'
           k == Len(toClient) + Len(pipe)
<1>0. /\ toClient \in Seq(Nat) /\ pipe \in Seq(Nat) /\ fromServer \in Seq(Nat) /\ sSent \in Nat
      /\ toClient \o pipe \o fromServer = Tunnel!Bytes(sSent)
  BY DEF TunnelTyped, Tunnel!BytesIntact
<1>1. Len(toClient) \in Nat \ {0} /\ Len(pipe) \in Nat /\ Len(fromServer) \in Nat
  BY <1>0, EmptySeq, LenProperties
<1>2. From(ab, 0) /\ From(fromServer, k) /\ k + Len(fromServer) = sSent
  <2>1. ab \in Seq(Nat) /\ Len(ab) = k
    BY <1>0, FromConcat
  <2> HIDE DEF ab
  <2>2. ab \o fromServer = Tunnel!Bytes(sSent)
    BY <1>0 DEF ab
  <2>3. From(ab \o fromServer, 0) /\ Len(ab \o fromServer) = sSent
    BY <1>0, <2>2, FromZero
  <2>4. From(ab, 0) /\ From(fromServer, 0 + Len(ab)) /\ Len(ab \o fromServer) = Len(ab) + Len(fromServer)
    BY <1>0, <2>1, <2>3, FromConcat
  <2> QED BY <1>1, <2>1, <2>3, <2>4
<1>3. From(toClient, 0) /\ From(pipe, Len(toClient))
  BY <1>0, <1>1, <1>2, FromConcat
<1>4. From(Tail(toClient), 1) /\ Len(Tail(toClient)) = Len(toClient) - 1
  <2>1. /\ Tail(toClient) \in Seq(Nat) /\ Len(Tail(toClient)) = Len(toClient) - 1
        /\ \A i \in 1..Len(toClient) - 1 : Tail(toClient)[i] = toClient[i + 1]
    BY <1>0, <1>1
  <2> QED BY <1>1, <1>3, <2>1 DEF From
<1>5. From(toClient', 0) /\ Len(toClient') = Len(toClient) - 1
  <2>1. 0 \in Nat /\ From(Tail(toClient), 0 + 1)
    BY <1>4
  <2> QED BY <1>4, <2>1, FromShifted
<1>6. From(pipe', Len(toClient) - 1) /\ Len(pipe') = Len(pipe)
  <2>1. Len(toClient) - 1 \in Nat /\ Len(toClient) - 1 + 1 = Len(toClient)
    BY <1>1
  <2> QED BY <1>3, <2>1, FromShifted
<1>7. From(d, k - 1) /\ Len(d) = Len(fromServer)
  <2>1. k - 1 \in Nat /\ k - 1 + 1 = k
    BY <1>1
  <2> QED BY <1>2, <2>1, FromShifted
<1> HIDE DEF d
<1>8. From(fromServer', k - 1) /\ Len(fromServer') = Len(fromServer) + 1
  <2>1. /\ fromServer' \in Seq(Nat) /\ Len(fromServer') = Len(d) + 1 /\ fromServer'[Len(d) + 1] = sSent
        /\ \A i \in 1..Len(d) : fromServer'[i] = d[i]
    <3>1. fromServer' = Append(d, sSent)
      BY DEF d
    <3> QED BY <1>0, <1>7, <3>1, AppendProperties DEF From
  <2>2. ASSUME NEW i \in 1..Len(fromServer) + 1 PROVE fromServer'[i] = k - 1 + i
    <3>1. CASE i <= Len(fromServer)
      <4>1. i \in 1..Len(d) /\ fromServer'[i] = d[i]
        BY <1>1, <1>7, <2>1, <3>1
      <4>2. d[i] = k - 1 + i
        BY <1>7, <4>1 DEF From
      <4> QED BY <4>1, <4>2
    <3>2. CASE i = Len(fromServer) + 1
      BY <1>1, <1>2, <1>7, <2>1, <3>2
    <3>3. i <= Len(fromServer) \/ i = Len(fromServer) + 1
      BY <1>1
    <3> QED BY <3>1, <3>2, <3>3
  <2> QED BY <1>7, <2>1, <2>2 DEF From
<1>9. From(xy, 0) /\ Len(xy) = k - 1
  <2>1. 0 + Len(toClient') = Len(toClient) - 1 /\ toClient' \in Seq(Nat) /\ pipe' \in Seq(Nat)
    BY <1>1, <1>5, <1>6 DEF From
  <2>2. /\ Len(xy) = Len(toClient') + Len(pipe')
        /\ From(xy, 0) <=> From(toClient', 0) /\ From(pipe', 0 + Len(toClient'))
    BY <2>1, FromConcat
  <2> HIDE DEF xy
  <2>3. From(xy, 0) /\ Len(xy) = Len(toClient) - 1 + Len(pipe)
    BY <1>5, <1>6, <2>1, <2>2
  <2> QED BY <1>1, <2>3
<1> HIDE DEF xy
<1>10. From(xy \o fromServer', 0) /\ Len(xy \o fromServer') = sSent
  <2>1. 0 + Len(xy) = k - 1 /\ xy \in Seq(Nat) /\ fromServer' \in Seq(Nat)
    BY <1>1, <1>8, <1>9 DEF From
  <2>2. /\ Len(xy \o fromServer') = Len(xy) + Len(fromServer')
        /\ From(xy \o fromServer', 0) <=> From(xy, 0) /\ From(fromServer', 0 + Len(xy))
    BY <2>1, FromConcat
  <2> QED BY <1>1, <1>2, <1>8, <1>9, <2>1, <2>2
<1>11. xy \o fromServer' = Tunnel!Bytes(sSent)
  BY <1>0, <1>10, FromZero
<1> QED BY <1>5, <1>6, <1>8, <1>11 DEF From, xy

\* Control: every step keeps the types, the order and what is held.
LEMMA StepTunnelControl == TunnelInv /\ [Tunnel!Next]_tunnel_vars => (TunnelTyped /\ InOrder /\ Holding)'
<1> SUFFICES ASSUME TunnelInv, [Tunnel!Next]_tunnel_vars PROVE (TunnelTyped /\ InOrder /\ Holding)'
  OBVIOUS
<1> USE DEF TunnelInv, TunnelTyped, InOrder, Holding, Closing, Tunnel!up, Tunnel!down, Tunnel!Leave
<1>1. CASE Tunnel!Accept
  BY <1>1 DEF Tunnel!Accept
<1>2. CASE Tunnel!WorkQAdd
  BY <1>2 DEF Tunnel!WorkQAdd
<1>3. CASE Tunnel!TransparentConnect
  BY <1>3 DEF Tunnel!TransparentConnect
<1>4. CASE Tunnel!SetUp
  BY <1>4 DEF Tunnel!SetUp
<1>5. CASE Tunnel!Poll
  BY <1>5 DEF Tunnel!Poll
<1>6. CASE Tunnel!Recv
  <2>1. ASSUME NEW k \in 1..Len(fromClient), fromClient # <<>>,
               buf' = Tunnel!First(fromClient, k), fromClient' = Tunnel!Rest(fromClient, k)
        PROVE  buf' \in Seq(Nat) /\ fromClient' \in Seq(Nat)
    BY <2>1, BytesMove
  <2> QED BY <1>6, <2>1 DEF Tunnel!Recv
<1>7. CASE Tunnel!Send
  <2>1. ASSUME NEW k \in 1..Len(buf),
               toServer' = toServer \o Tunnel!First(buf, k), buf' = Tunnel!Rest(buf, k)
        PROVE  buf' \in Seq(Nat) /\ toServer' \in Seq(Nat)
    BY <2>1, BytesMove
  <2> QED BY <1>7, <2>1 DEF Tunnel!Send
<1>8. CASE Tunnel!SpliceIn
  <2>1. ASSUME NEW k \in 1..Tunnel!Smaller(SpliceSize, Len(fromServer)),
               pipe' = pipe \o Tunnel!First(fromServer, k), fromServer' = Tunnel!Rest(fromServer, k)
        PROVE  pipe' \in Seq(Nat) /\ fromServer' \in Seq(Nat)
    <3>1. k \in 1..Len(fromServer)
      BY TunnelConstants DEF Tunnel!Smaller
    <3> QED BY <2>1, <3>1, BytesMove
  <2> QED BY <1>8, <2>1 DEF Tunnel!SpliceIn
<1>9. CASE Tunnel!SpliceOut
  <2>1. ASSUME NEW k \in 1..Tunnel!Smaller(SpliceSize, Len(pipe)),
               toClient' = toClient \o Tunnel!First(pipe, k), pipe' = Tunnel!Rest(pipe, k)
        PROVE  toClient' \in Seq(Nat) /\ pipe' \in Seq(Nat) /\ (k < Len(pipe) \/ pipe' = <<>>)
    <3>1. k \in 1..Len(pipe)
      BY TunnelConstants DEF Tunnel!Smaller
    <3>2. k = Len(pipe) => pipe' = <<>>
      BY <2>1, <3>1 DEF Tunnel!Rest
    <3> QED BY <2>1, <3>1, <3>2, BytesMove
  <2>2. /\ toClient' \in Seq(Nat) /\ pipe' \in Seq(Nat) /\ (short' \/ pipe' = <<>>)
        /\ short' \in BOOLEAN
    BY <1>9, <2>1 DEF Tunnel!SpliceOut
  <2> QED BY <1>9, <2>2 DEF Tunnel!SpliceOut
<1>10. CASE Tunnel!Fails
  BY <1>10 DEF Tunnel!Fails
<1>11. CASE Tunnel!ClosePipe
  BY <1>11 DEF Tunnel!ClosePipe
<1>12. CASE Tunnel!Release
  BY <1>12 DEF Tunnel!Release
<1>13. CASE Tunnel!ClientSends
  <2>1. fromClient' \in Seq(Nat) /\ cSent' \in Nat
    BY <1>13, AppendProperties DEF Tunnel!ClientSends
  <2> QED BY <1>13, <2>1 DEF Tunnel!ClientSends
<1>14. CASE Tunnel!ServerSends
  <2>1. /\ UNCHANGED <<pc, open, fromClient, buf, toServer, cSent, cClosed, sClosed, short, why>>
        /\ ~sClosed
    BY <1>14 DEF Tunnel!ServerSends
  <2>2. CASE sSent' = sSent + 1 /\ fromServer' = Append(fromServer, sSent') /\ UNCHANGED <<pipe, toClient>>
    <3>1. fromServer' \in Seq(Nat) /\ sSent' \in Nat
      BY <2>2, AppendProperties
    <3> QED BY <2>1, <2>2, <3>1
  <2>3. CASE /\ toClient # <<>> /\ toClient' = Tunnel!Shifted(Tail(toClient)) /\ sSent' = sSent
             /\ pipe' = Tunnel!Shifted(pipe) /\ fromServer' = Append(Tunnel!Shifted(fromServer), sSent)
    <3>1. toClient' \in Seq(Nat) /\ pipe' \in Seq(Nat) /\ fromServer' \in Seq(Nat)
      BY <2>3, WindowMoves
    <3>2. pipe = <<>> => pipe' = <<>>
      BY <2>3 DEF Tunnel!Shifted
    <3>3. TunnelTyped'
      BY <2>1, <2>3, <3>1
    <3>4. InOrder'
      BY <2>1, <3>2
    <3>5. Holding'
      BY <2>1
    <3> QED BY <3>3, <3>4, <3>5
  <2> QED BY <1>14, <2>2, <2>3 DEF Tunnel!ServerSends
<1>15. CASE Tunnel!ClientCloses
  BY <1>15 DEF Tunnel!ClientCloses
<1>16. CASE Tunnel!ServerCloses
  BY <1>16 DEF Tunnel!ServerCloses
<1>17. CASE UNCHANGED tunnel_vars
  BY <1>17 DEF tunnel_vars
<1> QED
  BY <1>1, <1>2, <1>3, <1>4, <1>5, <1>6, <1>7, <1>8, <1>9, <1>10, <1>11, <1>12, <1>13, <1>14,
     <1>15, <1>16, <1>17 DEF Tunnel!Next, Tunnel!Step

\* Data: a step moves bytes between neighbours, or a peer adds one at the end.
LEMMA StepTunnelBytes == TunnelInv /\ [Tunnel!Next]_tunnel_vars => Tunnel!BytesIntact'
<1> SUFFICES ASSUME TunnelInv, [Tunnel!Next]_tunnel_vars PROVE Tunnel!BytesIntact'
  OBVIOUS
<1> DEFINE Up == toServer \o buf \o fromClient = Tunnel!Bytes(cSent)
           Down == toClient \o pipe \o fromServer = Tunnel!Bytes(sSent)
<1>1. Up /\ Down
  BY DEF TunnelInv, Tunnel!BytesIntact
<1>2. /\ fromClient \in Seq(Nat) /\ buf \in Seq(Nat) /\ toServer \in Seq(Nat)
      /\ fromServer \in Seq(Nat) /\ pipe \in Seq(Nat) /\ toClient \in Seq(Nat)
      /\ cSent \in Nat /\ sSent \in Nat
  BY DEF TunnelInv, TunnelTyped
<1>3. UNCHANGED <<toServer, buf, fromClient, cSent>> => Up'
  BY <1>1
<1>4. UNCHANGED <<toClient, pipe, fromServer, sSent>> => Down'
  BY <1>1
<1>5. CASE Tunnel!Recv
  <2>1. Down'
    BY <1>4, <1>5 DEF Tunnel!Recv, Tunnel!down
  <2>2. ASSUME NEW k \in 1..Len(fromClient),
               buf' = Tunnel!First(fromClient, k), fromClient' = Tunnel!Rest(fromClient, k),
               UNCHANGED <<toServer, cSent>>
        PROVE  Up'
    <3>1. buf = <<>> /\ toServer \o <<>> = toServer
      BY <1>2, <1>5, ConcatEmptySeq DEF TunnelInv, InOrder, Closing, Tunnel!Recv
    <3>2. (toServer \o buf') \o fromClient' = toServer \o fromClient
      BY <1>2, <2>2, BytesMove, ZenonT(60)
    <3> QED BY <1>1, <2>2, <3>1, <3>2
  <2> QED BY <1>3, <1>5, <2>1, <2>2 DEF Tunnel!Recv, Tunnel!BytesIntact
<1>6. CASE Tunnel!Send
  <2>1. Down'
    BY <1>4, <1>6 DEF Tunnel!Send, Tunnel!down
  <2>2. PICK k \in 1..Len(buf) :
           toServer' = toServer \o Tunnel!First(buf, k) /\ buf' = Tunnel!Rest(buf, k)
    BY <1>6 DEF Tunnel!Send
  <2>3. toServer' \o buf' = toServer \o buf
    BY <1>2, <2>2, BytesMove
  <2>4. fromClient' = fromClient /\ cSent' = cSent
    BY <1>6 DEF Tunnel!Send
  <2> QED BY <1>1, <2>1, <2>3, <2>4 DEF Tunnel!BytesIntact
<1>7. CASE Tunnel!SpliceIn
  <2>1. Up' /\ sSent' = sSent /\ toClient' = toClient
    BY <1>3, <1>7 DEF Tunnel!SpliceIn, Tunnel!up
  <2>2. ASSUME NEW k \in 1..Tunnel!Smaller(SpliceSize, Len(fromServer)),
               pipe' = pipe \o Tunnel!First(fromServer, k), fromServer' = Tunnel!Rest(fromServer, k)
        PROVE  Down'
    <3>1. k \in 1..Len(fromServer)
      BY <1>2, TunnelConstants DEF Tunnel!Smaller
    <3>2. pipe' \o fromServer' = pipe \o fromServer /\ pipe' \in Seq(Nat) /\ fromServer' \in Seq(Nat)
      <4>1. /\ pipe \o Tunnel!First(fromServer, k) \in Seq(Nat) /\ Tunnel!Rest(fromServer, k) \in Seq(Nat)
            /\ (pipe \o Tunnel!First(fromServer, k)) \o Tunnel!Rest(fromServer, k) = pipe \o fromServer
        BY <1>2, <3>1, BytesMove, ZenonT(60)
      <4> QED BY <2>2, <4>1, ZenonT(60)
    <3>3. (toClient \o pipe') \o fromServer' = toClient \o (pipe' \o fromServer')
      BY <1>2, <3>2, Associative, ZenonT(60)
    <3>4. (toClient \o pipe) \o fromServer = toClient \o (pipe \o fromServer)
      BY <1>2, Associative, ZenonT(60)
    <3> QED BY <1>1, <2>1, <3>2, <3>3, <3>4
  <2> QED BY <1>4, <1>7, <2>1, <2>2 DEF Tunnel!SpliceIn, Tunnel!BytesIntact
<1>8. CASE Tunnel!SpliceOut
  <2>1. Up' /\ sSent' = sSent /\ fromServer' = fromServer
    BY <1>3, <1>8 DEF Tunnel!SpliceOut, Tunnel!up
  <2>2. PICK k \in 1..Tunnel!Smaller(SpliceSize, Len(pipe)) :
           toClient' = toClient \o Tunnel!First(pipe, k) /\ pipe' = Tunnel!Rest(pipe, k)
    BY <1>8 DEF Tunnel!SpliceOut
  <2>3. k \in 1..Len(pipe)
    BY <1>2, TunnelConstants DEF Tunnel!Smaller
  <2>4. toClient' \o pipe' = toClient \o pipe
    <3>1. (toClient \o Tunnel!First(pipe, k)) \o Tunnel!Rest(pipe, k) = toClient \o pipe
      BY <1>2, <2>3, BytesMove, ZenonT(60)
    <3> QED BY <2>2, <3>1, ZenonT(60)
  <2> QED BY <1>1, <2>1, <2>4 DEF Tunnel!BytesIntact
<1>9. CASE Tunnel!ClientSends
  <2>1. /\ Down' /\ cSent' = cSent + 1 /\ fromClient' = Append(fromClient, cSent + 1)
        /\ toServer' = toServer /\ buf' = buf
    BY <1>4, <1>9 DEF Tunnel!ClientSends, Tunnel!down
  <2>2. toServer \o buf \o Append(fromClient, cSent + 1) = Tunnel!Bytes(cSent + 1)
    <3> DEFINE before == toServer \o buf
    <3>1. before \in Seq(Nat) /\ before \o fromClient = Tunnel!Bytes(cSent)
      BY <1>1, <1>2, ConcatProperties
    <3> HIDE DEF before
    <3>2. before \o Append(fromClient, cSent + 1) = Tunnel!Bytes(cSent + 1)
      BY <1>2, <3>1, OneMoreByte
    <3> QED BY <3>2 DEF before
  <2> QED BY <2>1, <2>2 DEF Tunnel!BytesIntact
<1>10. CASE Tunnel!ServerSends
  <2>0. Up'
    BY <1>3, <1>10 DEF Tunnel!ServerSends, Tunnel!up
  <2>1. CASE /\ sSent' = sSent + 1 /\ fromServer' = Append(fromServer, sSent + 1)
             /\ toClient' = toClient /\ pipe' = pipe
    <3> DEFINE before == toClient \o pipe
    <3>1. before \in Seq(Nat) /\ before \o fromServer = Tunnel!Bytes(sSent)
      BY <1>1, <1>2, ConcatProperties
    <3>2. before' = before
      BY <2>1
    <3> HIDE DEF before
    <3>3. before \o Append(fromServer, sSent + 1) = Tunnel!Bytes(sSent + 1)
      BY <1>2, <3>1, OneMoreByte
    <3>4. before' \o fromServer' = Tunnel!Bytes(sSent')
      BY <2>1, <3>2, <3>3
    <3> QED BY <2>0, <3>4 DEF before, Tunnel!BytesIntact
  <2>2. CASE /\ toClient # <<>> /\ toClient' = Tunnel!Shifted(Tail(toClient)) /\ sSent' = sSent
             /\ pipe' = Tunnel!Shifted(pipe) /\ fromServer' = Append(Tunnel!Shifted(fromServer), sSent)
    <3>1. toClient' \o pipe' \o fromServer' = Tunnel!Bytes(sSent)
      BY <2>2, WindowMoves DEF TunnelInv
    <3>2. Down'
      BY <2>2, <3>1
    <3> QED BY <2>0, <3>2 DEF Tunnel!BytesIntact
  <2> QED BY <1>10, <2>1, <2>2 DEF Tunnel!ServerSends
<1>11. CASE UNCHANGED <<toServer, buf, fromClient, cSent, toClient, pipe, fromServer, sSent>>
  BY <1>3, <1>4, <1>11 DEF Tunnel!BytesIntact
<1> QED
  BY <1>5, <1>6, <1>7, <1>8, <1>9, <1>10, <1>11
     DEF Tunnel!Next, Tunnel!Step, Tunnel!Accept, Tunnel!WorkQAdd, Tunnel!TransparentConnect,
         Tunnel!SetUp, Tunnel!Poll, Tunnel!Fails, Tunnel!ClosePipe, Tunnel!Release,
         Tunnel!ClientCloses, Tunnel!ServerCloses, Tunnel!up, Tunnel!down, tunnel_vars

\* The tunnel's part of ProxiesSpec has the invariant.
LEMMA TunnelInvariant == ProxiesSpec => []TunnelInv
<1>1. ProxiesInit => TunnelInv
  <2>0. Tunnel!Init => TunnelTyped
    <3> SUFFICES ASSUME Tunnel!Init PROVE TunnelTyped
      OBVIOUS
    <3>1. <<>> \in Seq(Nat)
      BY EmptySeq
    <3>2. cClosed \in BOOLEAN /\ sClosed \in BOOLEAN /\ short \in BOOLEAN
      BY DEF Tunnel!Init
    <3> QED BY <3>1, <3>2 DEF Tunnel!Init, TunnelTyped
  <2>1. Tunnel!Init => InOrder /\ Holding
    BY DEF Tunnel!Init, InOrder, Holding, Closing
  <2>2. Tunnel!Init => Tunnel!BytesIntact
    BY DEF Tunnel!Init, Tunnel!BytesIntact, Tunnel!Bytes
  <2> QED BY <2>0, <2>1, <2>2 DEF ProxiesInit, TunnelInv
<1>2. [ProxiesNext]_proxies_vars => [Tunnel!Next]_tunnel_vars
  BY DEF ProxiesNext, InParent, InTunnel, proxies_vars
<1>3. TunnelInv /\ [Tunnel!Next]_tunnel_vars => TunnelInv'
  BY StepTunnelControl, StepTunnelBytes DEF TunnelInv
<1> QED
  BY <1>1, <1>2, <1>3, PTL DEF ProxiesSpec

\* However the kernel cuts recv, send and splice, nothing is lost, duplicated
\* or reordered while the tunnel runs.  The end of the client's stream comes after
\* its bytes; the server's does so if no splice to the client was ever short.
THEOREM TunnelKeepsBytes == ProxiesSpec => []TunnelBytesIntact
<1>1. TunnelInv => TunnelBytesIntact
  <2> SUFFICES ASSUME TunnelInv PROVE TunnelBytesIntact
    OBVIOUS
  <2>1. ASSUME why = "client_closed" PROVE toServer = Tunnel!Bytes(cSent)
    <3>1. toServer \o <<>> \o <<>> = Tunnel!Bytes(cSent)
      BY <2>1 DEF TunnelInv, InOrder, Tunnel!BytesIntact
    <3> QED BY <3>1, ConcatEmptySeq DEF TunnelInv, TunnelTyped
  <2>2. ASSUME why = "server_closed", ~short PROVE toClient = Tunnel!Bytes(sSent)
    <3>1. toClient \o <<>> \o <<>> = Tunnel!Bytes(sSent)
      BY <2>2 DEF TunnelInv, InOrder, Tunnel!BytesIntact
    <3> QED BY <3>1, ConcatEmptySeq DEF TunnelInv, TunnelTyped
  <2> QED BY <2>1, <2>2 DEF TunnelInv, InOrder, TunnelBytesIntact, Tunnel!CloseComesLast
<1> QED
  BY <1>1, TunnelInvariant, PTL

\* A tunnel that is over has given back its sockets, pipe and proxy_info, except
\* the server's socket when connect() failed, and the client's socket and
\* proxy_info when the work queue refused the item.
THEOREM TunnelReleases == ProxiesSpec => []EverythingReleased
<1>1. TunnelInv => EverythingReleased
  <2> SUFFICES ASSUME TunnelInv, pc \in {"done", "dropped"} PROVE open \subseteq Tunnel!KeptAtEnd
    BY DEF EverythingReleased, Tunnel!EverythingReleased
  <2>1. CASE pc = "dropped"
    BY <2>1 DEF TunnelInv, Holding, Tunnel!KeptAtEnd
  <2>2. CASE pc = "done" /\ why = "connect"
    BY <2>2 DEF TunnelInv, Holding, Tunnel!KeptAtEnd
  <2>3. CASE pc = "done" /\ why # "connect"
    BY <2>3 DEF TunnelInv, Holding, Tunnel!KeptAtEnd
  <2> QED BY <2>1, <2>2, <2>3
<1> QED
  BY <1>1, TunnelInvariant, PTL

==============================================================================
