------------------------------- MODULE CondVar -------------------------------
(***************************************************************************)
(* other/condvar.c: two threads increment a counter, a third waits on a    *)
(* condition variable until it reaches count_limit and then adds 100 to    *)
(* it; main joins all three.  What a thread does between lock and unlock   *)
(* is one step; waiting gives the mutex up.                                *)
(***************************************************************************)
EXTENDS Naturals

CONSTANTS count_limit, tcount

VARIABLES
    count,      \* the shared counter
    turns,      \* number of increments each thread has made
    watcher,    \* "start", "waiting", "woken" or "done"
    joined      \* number of threads main has joined

vars == <<count, turns, watcher, joined>>

Incrementers == {2, 3}
Bonus == 100

Init ==
    /\ count = 0
    /\ turns = [t \in Incrementers |-> 0]
    /\ watcher = "start"
    /\ joined = 0

\* One turn of the loop: the signal goes out when the limit is hit exactly.
incrementCount(t) ==
    /\ turns[t] < tcount
    /\ turns' = [turns EXCEPT ![t] = @ + 1]
    /\ count' = count + 1
    /\ watcher' = IF count' = count_limit /\ watcher = "waiting" THEN "woken" ELSE watcher
    /\ UNCHANGED joined

\* Bug: the counter is tested before the mutex is taken.
watchCount_tests_unlocked ==
    /\ watcher \in {"start", "tested"}
    /\ watcher' = CASE watcher = "tested" -> "waiting"
                    [] count < count_limit -> "tested"
                    [] OTHER -> "done"
    /\ UNCHANGED <<count, turns, joined>>

\* The test of the loop, under the mutex, and the wait.
watchCount ==
    /\ watcher = "start"
    /\ watcher' = IF count < count_limit THEN "waiting" ELSE "done"
    /\ UNCHANGED <<count, turns, joined>>

\* pthread_cond_wait may return without a signal.
SpuriousWake ==
    /\ watcher = "waiting"
    /\ watcher' = "woken"
    /\ UNCHANGED <<count, turns, joined>>

\* The wait returns: the body adds 100 without another look at the counter,
\* and only then the loop tests again.
WatchReturns ==
    /\ watcher = "woken"
    /\ count' = count + Bonus
    /\ watcher' = IF count' < count_limit THEN "waiting" ELSE "done"
    /\ UNCHANGED <<turns, joined>>

\* pthread_join, first the watcher, then the two others.
Join ==
    /\ joined < 3
    /\ (joined = 0 => watcher = "done") /\ (joined > 0 => turns[joined + 1] = tcount)
    /\ joined' = joined + 1
    /\ UNCHANGED <<count, turns, watcher>>

Next == (\E t \in Incrementers : incrementCount(t)) \/ watchCount \/ SpuriousWake \/ WatchReturns \/ Join

==============================================================================
