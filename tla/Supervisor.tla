----------------------------- MODULE Supervisor ------------------------------
(***************************************************************************)
(* The pre-forking parent of himproxy/proxy_old (proxy_main.c,             *)
(* proxy_core.c, proxy_signal_handler.c; himproxy itself has the same      *)
(* code): it forks the workers, keeps their pids in g_child_table,         *)
(* restarts the ones that die, and on a signal sends it on to them before  *)
(* it dies itself.                                                         *)
(*                                                                         *)
(* A signal to the parent is one whose default action ends the process:    *)
(* most of these have a handler, SIGTERM and SIGKILL have none.  SIGCHLD   *)
(* is ignored once its handler has run; SIGTSTP, SIGTTIN, SIGTTOU and      *)
(* SIGCONT are modelled for the workers only.  A worker between fork and   *)
(* register_all_signal_handler still has the parent's handler and a copy   *)
(* of the parent's table; it is not stopped there.  A pid is not used      *)
(* twice.                                                                  *)
(***************************************************************************)
EXTENDS Integers, FiniteSets

CONSTANTS
    NumChild,          \* child_count of the configuration
    MaxChild,          \* MAX_CHILD
    Pids,              \* pids fork may return
    MaxFaults,         \* bound: workers that crash, exit, are stopped or signalled
    MaxForkFailures    \* bound: forks that fail

\* create_multiple_child clamps the number to 1..MaxChild while the loops over
\* the table take it as it is: the model is about numbers where both agree.
ASSUME SupervisorConstants ==
    /\ MaxChild \in Nat /\ NumChild \in 1..MaxChild
    /\ IsFiniteSet(Pids) /\ Pids \subseteq Nat \ {0}

VARIABLES
    parent,       \* where the parent is; "ended" by itself, "signalled" by a signal
                  \* it handles or "killed" by one it does not
    index,        \* i of create_multiple_child and handle_child_exit
    forked,       \* what fork returned and start_child has not recorded yet
    dead,         \* the pid handle_child_exit looks for
    table,        \* g_child_table: 0 is a slot never filled, -1 a failed fork
    active,       \* g_active_child_count
    proc,         \* each process
    inherited,    \* each worker's copy of the table
    pending,      \* stopped workers that were sent a signal
    everStopped,  \* whether a worker was ever stopped
    faults, failures

loops == <<index, forked, dead>>
signals == <<pending, everStopped>>
vars == <<parent, loops, table, active, proc, inherited, signals, faults, failures>>

Slots == 0..MaxChild - 1
Scanned == 0..NumChild - 1
\* The kernel hands out pids in order.
NextPids == {p \in Pids : proc[p] = "none" /\ \A q \in Pids : q < p => proc[q] # "none"}
Unreaped == {p \in Pids : proc[p] \notin {"none", "reaped"}}
Failed == {i \in Slots : table[i] = -1}

Init ==
    /\ parent = "create" /\ index = 0 /\ forked = 0 /\ dead = 0
    /\ table = [i \in Slots |-> 0]
    /\ active = 0
    /\ proc = [p \in Pids |-> "none"]
    /\ inherited = [p \in Pids |-> table]
    /\ pending = {} /\ everStopped = FALSE
    /\ faults = 0 /\ failures = 0

(***************************************************************************)
(* start_child: fork, and the record of its result in two steps            *)
(***************************************************************************)
Fork(record) ==
    /\ \E p \in NextPids :
          /\ forked' = p
          /\ proc' = [proc EXCEPT ![p] = "fresh"]
          /\ inherited' = [inherited EXCEPT ![p] = table]
    /\ parent' = record
    /\ UNCHANGED <<index, dead, table, active, signals, faults, failures>>

ForkFails ==
    /\ failures < MaxForkFailures
    /\ failures' = failures + 1
    /\ table' = [table EXCEPT ![index] = -1]
    /\ index' = index + 1
    /\ UNCHANGED <<parent, forked, dead, proc, inherited, signals, faults>>

\* Bug: the new worker is not recorded in its slot.
RecordMissed(return) ==
    /\ forked' = 0
    /\ index' = index + 1
    /\ parent' = return
    /\ UNCHANGED <<dead, table, proc, inherited, signals, faults, failures>>

Record(return) ==
    /\ table' = [table EXCEPT ![index] = forked]
    /\ forked' = 0
    /\ index' = index + 1
    /\ parent' = return
    /\ UNCHANGED <<dead, proc, inherited, signals, faults, failures>>

\* create_multiple_child counts a fork that failed too: start_child returns -1.
Create ==
    /\ parent = "create" /\ index < NumChild
    /\ Fork("create_record") \/ (ForkFails /\ active' = active + 1)

CreateRecord == parent = "create_record" /\ Record("create") /\ active' = active + 1

CreateDone ==
    /\ parent = "create" /\ index = NumChild
    /\ parent' = "wait"
    /\ UNCHANGED <<loops, table, active, proc, inherited, signals, faults, failures>>

(***************************************************************************)
(* wait_for_child                                                          *)
(***************************************************************************)
\* waitpid reports a status above 0: the worker crashed, or, as WUNTRACED asks
\* for, was stopped.
WaitDied(p) ==
    /\ parent = "wait" /\ active > 0
    /\ \/ proc[p] = "crashed" /\ proc' = [proc EXCEPT ![p] = "reaped"]
       \/ proc[p] = "stopping" /\ proc' = [proc EXCEPT ![p] = "stopped"]
    /\ dead' = p /\ index' = 0
    /\ parent' = "restart"
    /\ UNCHANGED <<forked, table, active, inherited, signals, faults, failures>>

\* Status 0: the worker is not replaced, and its pid stays in the table.
WaitFinished(p) ==
    /\ parent = "wait" /\ active > 0
    /\ proc[p] = "finished"
    /\ proc' = [proc EXCEPT ![p] = "reaped"]
    /\ active' = active - 1
    /\ UNCHANGED <<parent, loops, table, inherited, signals, faults, failures>>

\* The loop ends with the count, or when waitpid finds no child (ECHILD).
WaitEnds ==
    /\ parent = "wait"
    /\ active <= 0 \/ Unreaped = {}
    /\ parent' = "ended"
    /\ UNCHANGED <<loops, table, active, proc, inherited, signals, faults, failures>>

(***************************************************************************)
(* handle_child_exit                                                       *)
(***************************************************************************)
\* Bug: the last slot is not looked at.
RestartShort ==
    /\ parent = "restart" /\ index < NumChild - 1
    /\ table[index] = dead
    /\ Fork("restart_record") \/ (ForkFails /\ UNCHANGED active)

Restart ==
    /\ parent = "restart" /\ index < NumChild
    /\ table[index] = dead
    /\ Fork("restart_record") \/ (ForkFails /\ UNCHANGED active)

RestartRecord == parent = "restart_record" /\ Record("restart") /\ UNCHANGED active

\* A slot that does not hold the pid; after the last one, back to waitpid.
RestartSkip ==
    /\ parent = "restart"
    /\ IF index < NumChild
         THEN table[index] # dead /\ index' = index + 1 /\ UNCHANGED parent
         ELSE parent' = "wait" /\ UNCHANGED index
    /\ UNCHANGED <<forked, dead, table, active, proc, inherited, signals, faults, failures>>

(***************************************************************************)
(* Signals                                                                 *)
(***************************************************************************)
\* Bug: the loop of kill_all_children stops one slot early.
SentByShort(tab) == {tab[i] : i \in 0..NumChild - 2}

\* The pids kill_all_children calls kill with: 0 is the whole process group,
\* -1 every process there is.
SentBy(tab) == {tab[i] : i \in Scanned}

\* The workers kill reaches: one that set up its handlers dies by the signal, a
\* fresh one runs the parent's handler, a stopped one keeps the signal.
KillAllChildren(tab, changed) ==
    LET sent == SentBy(tab)
        hit == IF sent \cap {0, -1} # {} THEN Pids ELSE sent
    IN  /\ proc' = [p \in Pids |->
                     CASE p \in DOMAIN changed -> changed[p]
                       [] p \in hit /\ proc[p] \in {"running", "resumed"} -> "crashed"
                       [] p \in hit /\ proc[p] = "fresh" -> "handling"
                       [] OTHER -> proc[p]]
        /\ pending' = pending \cup {p \in hit : p \in Pids /\ proc[p] \in {"stopping", "stopped"}}

Over == {"ended", "signalled", "killed"}

\* parent_signal_handler, for the signals of register_all_signal_handler: the
\* children first, then the parent itself.
ParentSignal ==
    /\ parent \notin Over
    /\ KillAllChildren(table, [p \in {} |-> ""])
    /\ parent' = "signalled"
    /\ UNCHANGED <<loops, table, active, inherited, everStopped, faults, failures>>

\* SIGTERM, which is not registered, or SIGKILL: the workers get nothing.
ParentKilled ==
    /\ parent \notin Over
    /\ parent' = "killed"
    /\ UNCHANGED <<loops, table, active, proc, inherited, signals, faults, failures>>

\* The same handler in a worker that has not replaced it yet.  (A signal to the
\* group reaches the parent too: ParentSignal may happen at any time.)
InheritedHandler(p) ==
    /\ proc[p] = "handling"
    /\ KillAllChildren(inherited[p], [q \in {p} |-> "crashed"])
    /\ UNCHANGED <<parent, loops, table, active, inherited, everStopped, faults, failures>>

(***************************************************************************)
(* The workers                                                             *)
(***************************************************************************)
Moves(p, from, to) == proc[p] \in from /\ proc' = [proc EXCEPT ![p] = to]

\* start_proxy: register_all_signal_handler(child_signal_handler)
Ready(p) ==
    /\ Moves(p, {"fresh"}, "running")
    /\ UNCHANGED <<parent, loops, table, active, inherited, signals, faults, failures>>

\* A worker is killed or crashes, a fresh one with the parent's handler in between
\* unless the signal is SIGTERM or SIGKILL; exits with 0 because it could not
\* start; is stopped; or gets a SIGCONT while it runs.
Fault(p) ==
    /\ faults < MaxFaults
    /\ faults' = faults + 1
    /\ \/ Moves(p, {"fresh", "running", "resumed"}, "crashed") /\ UNCHANGED everStopped
       \/ Moves(p, {"fresh"}, "handling") /\ UNCHANGED everStopped
       \/ Moves(p, {"running"}, "finished") /\ UNCHANGED everStopped
       \/ Moves(p, {"running", "resumed"}, "stopping") /\ everStopped' = TRUE
       \/ Moves(p, {"running"}, "resumed") /\ UNCHANGED everStopped
    /\ UNCHANGED <<parent, loops, table, active, inherited, pending, failures>>

\* SIGCONT has a handler too: child_signal_handler closes the listening socket
\* and the pollers, and the worker goes on without them; a signal that waited
\* ends it.
Resume(p) ==
    /\ Moves(p, {"stopping", "stopped"}, IF p \in pending THEN "crashed" ELSE "resumed")
    /\ UNCHANGED <<parent, loops, table, active, inherited, signals, faults, failures>>

\* start_proxy: accept on the socket the handler closed fails, and the worker
\* exits with 0.
AcceptFails(p) ==
    /\ Moves(p, {"resumed"}, "finished")
    /\ UNCHANGED <<parent, loops, table, active, inherited, signals, faults, failures>>

ParentStep ==
    \/ Create \/ CreateRecord \/ CreateDone
    \/ \E p \in Pids : WaitDied(p) \/ WaitFinished(p)
    \/ WaitEnds \/ Restart \/ RestartRecord \/ RestartSkip

Next ==
    \/ ParentStep \/ ParentSignal \/ ParentKilled
    \/ \E p \in Pids : InheritedHandler(p) \/ Ready(p) \/ Fault(p) \/ Resume(p) \/ AcceptFails(p)

Spec == Init /\ [][Next]_vars

\* The parent keeps running; nothing is assumed of the workers or of signals.
FairSpec == Spec /\ WF_vars(ParentStep)

-----------------------------------------------------------------------------
(* Properties *)

\* The parent can find every worker that runs: it is in the table, or fork has
\* just returned it.  Only one that was stopped, and replaced as if it had died,
\* is out of reach.
WorkersTabled ==
    \A p \in Pids : proc[p] \in {"fresh", "running"} =>
        p = forked \/ \E i \in Scanned : table[i] = p

\* The worker that waitpid reaped and that is still to be replaced.
Replacing == parent = "restart" /\ \E i \in Scanned : i >= index /\ table[i] = dead

\* g_active_child_count is exact as long as no worker was stopped: the workers
\* not yet reaped, one for each fork that failed and one for the worker that is
\* being replaced.
ActiveExact ==
    ~everStopped /\ parent \notin {"signalled", "killed"} =>
        active + (IF forked # 0 /\ parent = "create_record" THEN 1 ELSE 0)
          = Cardinality(Unreaped) + Cardinality(Failed) + (IF Replacing THEN 1 ELSE 0)

\* proxy_main.c, proxy_core.c: the table and the count the parent keeps tell
\* the truth about its workers, through forks that fail, crashes and restarts.
WorkersAccounted == WorkersTabled /\ ActiveExact

\* A parent that dies by a signal it handles has passed it on: the only worker
\* that still serves is the one it was forking at that moment.  (After SIGTERM
\* or SIGKILL the workers go on without a parent; one that was stopped keeps the
\* signal until it is continued.)
ShutdownReachesAll ==
    parent = "signalled" => \A p \in Pids : proc[p] \in {"fresh", "running"} => p = forked

\* A worker that crashed is replaced, or its slot marked, as long as the parent
\* lives.
CrashedIsReplaced ==
    \A i \in Scanned : \A p \in Pids :
        (table[i] = p /\ proc[p] = "crashed")
            ~> (table[i] # p \/ parent \in Over)

==============================================================================
