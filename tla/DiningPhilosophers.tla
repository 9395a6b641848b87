------------------------- MODULE DiningPhilosophers --------------------------
(***************************************************************************)
(* src/system/diningphilo/dinphilo.c: one thread per philosopher, one      *)
(* semaphore per fork, and a semaphore (lock) that admits one philosopher  *)
(* fewer than there are to the table.  Each semaphore operation is a step. *)
(***************************************************************************)
EXTENDS Naturals, FiniteSets

CONSTANT N   \* num_philosophers

ASSUME NAssumption == N \in Nat /\ N >= 2

VARIABLES
    lock,    \* the value of the semaphore lock
    forks,   \* the values of the semaphores forks
    pc       \* the next operation of each philosopher

vars == <<lock, forks, pc>>

Philosophers == 0..N - 1
Left(i) == i
Right(i) == (i + 1) % N

\* initialize_semaphores, and the threads not yet past their first think().
initialize_lock == lock = N - 1

Init ==
    /\ initialize_lock
    /\ forks = [f \in Philosophers |-> 1]
    /\ pc = [i \in Philosophers |-> "wait_lock"]

Goto(i, from, to) == pc[i] = from /\ pc' = [pc EXCEPT ![i] = to]

\* sem_wait and sem_post on one fork
Take(f) == forks[f] > 0 /\ forks' = [forks EXCEPT ![f] = @ - 1]
Release(f) == forks' = [forks EXCEPT ![f] = @ + 1]

\* Bug: the semaphore is tried but not taken.
WaitLockUntaken(i) == Goto(i, "wait_lock", "wait_left") /\ lock > 0 /\ UNCHANGED <<forks, lock>>

WaitLock(i) ==
    /\ Goto(i, "wait_lock", "wait_left")
    /\ lock > 0
    /\ lock' = lock - 1
    /\ UNCHANGED forks

WaitLeft(i) == Goto(i, "wait_left", "wait_right") /\ Take(Left(i)) /\ UNCHANGED lock

WaitRight(i) == Goto(i, "wait_right", "eat") /\ Take(Right(i)) /\ UNCHANGED lock

\* eat(), then the left fork goes back.
PostLeft(i) == Goto(i, "eat", "post_right") /\ Release(Left(i)) /\ UNCHANGED lock

PostRight(i) == Goto(i, "post_right", "post_lock") /\ Release(Right(i)) /\ UNCHANGED lock

\* Bug: the seat at the table is not given back.
PostLockMissing(i) == Goto(i, "post_lock", "done") /\ UNCHANGED <<forks, lock>>

PostLock(i) ==
    /\ Goto(i, "post_lock", "done")
    /\ lock' = lock + 1
    /\ UNCHANGED forks

philosopher(i) ==
    \/ WaitLock(i) \/ WaitLeft(i) \/ WaitRight(i)
    \/ PostLeft(i) \/ PostRight(i) \/ PostLock(i)

Next == \E i \in Philosophers : philosopher(i)

Spec == Init /\ [][Next]_vars

\* Threads keep running.  Each philosopher eats once, so nobody can be overtaken
\* for ever at a semaphore and weak fairness is enough.
FairSpec == Spec /\ \A i \in Philosophers : WF_vars(philosopher(i))

-----------------------------------------------------------------------------
(* Properties *)

\* Every variable has its type: no fork is ever on the table twice.
TypeOK ==
    /\ lock \in 0..N - 1
    /\ forks \in [Philosophers -> 0..1]
    /\ pc \in [Philosophers -> {"wait_lock", "wait_left", "wait_right", "eat",
                                "post_right", "post_lock", "done"}]

Holds(i, f) ==
    \/ f = Left(i) /\ pc[i] \in {"wait_right", "eat"}
    \/ f = Right(i) /\ pc[i] \in {"eat", "post_right"}

\* A fork is in one hand at most, and not on the table meanwhile: neighbours
\* never eat at the same time.
ForksExclusive ==
    \A i \in Philosophers : \A f \in Philosophers :
        Holds(i, f) => forks[f] = 0 /\ \A j \in Philosophers : Holds(j, f) => j = i

Seated == {i \in Philosophers : pc[i] \notin {"wait_lock", "done"}}

\* One seat stays free, so the philosophers never all wait for the fork of
\* their right neighbour.
NoCircularWait ==
    /\ lock + Cardinality(Seated) = N - 1
    /\ \E i \in Philosophers : pc[i] # "wait_right"

==============================================================================
