----------------------------- MODULE IoctlDriver -----------------------------
(***************************************************************************)
(* system/ioctl: driver_ioctl.c keeps a code and a val behind two ioctls   *)
(* without a lock; user_ioctl.c is one call of either.  Loading the module *)
(* takes four resources one after another and gives back those it has when *)
(* the next fails.  The two assignments of TEST_SET, and the two reads of  *)
(* TEST_GET, are steps of their own.                                       *)
(***************************************************************************)
EXTENDS Naturals

CONSTANTS
    Users,          \* processes running user_ioctl.c, once each
    Inputs          \* numbers a user may type

VARIABLES
    code, val,      \* the module's two variables
    module,         \* "out", "loading", "loaded", "failed" or "unloading"
    taken,          \* how many of Resources the module has, in that order
    failedAt,       \* the call of driver_ioctl_init that failed, 0 before one does
    user,           \* "new", "get", "get_val", "set", "set_val", "done"
    io,             \* a user's structure
    pairs,          \* the pairs that were there at first or were set
    raced,          \* the last TEST_SET to start overlapped another one
    mixed           \* users whose TEST_GET overlapped a TEST_SET or read after a race

vars == <<code, val, module, taken, failedAt, user, io, pairs, raced, mixed>>

\* The region, the cdev, the class and the device.
Resources == 4
First == <<20020, 10010>>

Init ==
    /\ code = First[1] /\ val = First[2]
    /\ module = "out" /\ taken = 0 /\ failedAt = 0
    /\ user = [u \in Users |-> "new"]
    /\ io = [u \in Users |-> <<0, 0>>]
    /\ pairs = {First} /\ raced = FALSE /\ mixed = {}

-----------------------------------------------------------------------------
(* Loading and unloading *)

\* Loading gives the variables their first values again.
insmod ==
    /\ module = "out"
    /\ module' = "loading"
    /\ code' = First[1] /\ val' = First[2] /\ raced' = FALSE
    /\ UNCHANGED <<taken, failedAt, user, io, pairs, mixed>>

\* Bug: unregister_chrdev_region is forgotten after class_create or device_create.
GivenBack_forgets_region(n) == IF n <= 2 THEN 0 ELSE n - 2

\* How many resources are given back when the call with this number fails: none
\* after cdev_add, and all of them after class_create and device_create.
GivenBack(n) == IF n <= 2 THEN 0 ELSE n - 1

\* One of the calls of driver_ioctl_init.
driver_ioctl_init ==
    /\ module = "loading"
    /\ LET n == taken + 1
       IN \/ /\ taken' = n
             /\ module' = IF n = Resources THEN "loaded" ELSE "loading"
             /\ UNCHANGED failedAt
          \/ /\ taken' = taken - GivenBack(n)
             /\ module' = "failed" /\ failedAt' = n
    /\ UNCHANGED <<code, val, user, io, pairs, raced, mixed>>

\* A call of driver_ioctl_exit; the module is in use while a file is open.
driver_ioctl_exit ==
    /\ module \in {"loaded", "unloading"}
    /\ \A u \in Users : user[u] \in {"new", "done"}
    /\ taken' = taken - 1
    /\ module' = IF taken = 1 THEN "out" ELSE "unloading"
    /\ UNCHANGED <<code, val, failedAt, user, io, pairs, raced, mixed>>

-----------------------------------------------------------------------------
(* user_ioctl.c and driver_ioctl *)

\* main of user_ioctl.c up to the ioctl: wrong arguments, a device that cannot
\* be opened, an unknown operation, get, or set with two numbers.
UserMain(u) ==
    /\ user[u] = "new"
    /\ \/ /\ user' = [user EXCEPT ![u] = "done"]
          /\ UNCHANGED io
       \/ /\ module = "loaded"
          /\ user' = [user EXCEPT ![u] = "get"]
          /\ UNCHANGED io
       \/ /\ module = "loaded"
          /\ \E c, v \in Inputs : io' = [io EXCEPT ![u] = <<c, v>>]
          /\ user' = [user EXCEPT ![u] = "set"]
    /\ UNCHANGED <<code, val, module, taken, failedAt, pairs, raced, mixed>>

Setting == {u \in Users : user[u] = "set_val"}
Getting == {u \in Users : user[u] = "get_val"}

\* Bug: the result of copy_from_user is ignored.
SetCode_ignores_failure(u) ==
    /\ user[u] = "set"
    /\ \E c \in {io[u][1], 0} : code' = c
    /\ raced' = (Setting # {}) /\ mixed' = mixed \cup Getting
    /\ pairs' = pairs \cup {io[u]}
    /\ user' = [user EXCEPT ![u] = "set_val"]
    /\ UNCHANGED <<val, module, taken, failedAt, io>>

\* TEST_SET: a failing copy_from_user changes nothing.
SetCode(u) ==
    /\ user[u] = "set"
    /\ \/ /\ code' = io[u][1]
          /\ raced' = (Setting # {}) /\ mixed' = mixed \cup Getting
          /\ pairs' = pairs \cup {io[u]}
          /\ user' = [user EXCEPT ![u] = "set_val"]
       \/ /\ user' = [user EXCEPT ![u] = "done"]
          /\ UNCHANGED <<code, pairs, raced, mixed>>
    /\ UNCHANGED <<val, module, taken, failedAt, io>>

SetVal(u) ==
    /\ user[u] = "set_val"
    /\ val' = io[u][2]
    /\ user' = [user EXCEPT ![u] = "done"]
    /\ UNCHANGED <<code, module, taken, failedAt, io, pairs, raced, mixed>>

\* TEST_GET: a failing copy_to_user leaves the user's structure as it was.
GetCode(u) ==
    /\ user[u] = "get"
    /\ \/ /\ io' = [io EXCEPT ![u][1] = code]
          /\ mixed' = (IF raced \/ Setting # {} THEN mixed \cup {u} ELSE mixed)
          /\ user' = [user EXCEPT ![u] = "get_val"]
       \/ /\ user' = [user EXCEPT ![u] = "failed"]
          /\ UNCHANGED <<io, mixed>>
    /\ UNCHANGED <<code, val, module, taken, failedAt, pairs, raced>>

GetVal(u) ==
    /\ user[u] = "get_val"
    /\ io' = [io EXCEPT ![u][2] = val]
    /\ user' = [user EXCEPT ![u] = "got"]
    /\ UNCHANGED <<code, val, module, taken, failedAt, pairs, raced, mixed>>

\* The result is shown, after a failure too, and the process ends.
UserEnds(u) ==
    /\ user[u] \in {"failed", "got"}
    /\ user' = [user EXCEPT ![u] = "done"]
    /\ UNCHANGED <<code, val, module, taken, failedAt, io, pairs, raced, mixed>>

driver_ioctl(u) == SetCode(u) \/ SetVal(u) \/ GetCode(u) \/ GetVal(u)

Next ==
    \/ insmod \/ driver_ioctl_init \/ driver_ioctl_exit
    \/ \E u \in Users : UserMain(u) \/ driver_ioctl(u) \/ UserEnds(u)

-----------------------------------------------------------------------------
(* Properties *)

\* What the users see, each word of it set by somebody.
Words(w) == \E p, q \in pairs : w = <<p[1], q[2]>>

\* driver_ioctl.c: without a lock overlapping calls tear a pair, and this is how
\* far it goes.  A TEST_SET that starts alone and stays alone leaves its pair, also
\* after others raced; a TEST_GET that overlaps no TEST_SET and follows no race
\* returns a pair somebody set; and each word is always one that somebody set.  A
\* module that is unloaded, or whose loading failed, holds nothing, but for the
\* region after cdev_add failed.
PairsAreWhole ==
    /\ Setting = {} /\ ~raced => <<code, val>> \in pairs
    /\ \A u \in Users : user[u] = "got" =>
          Words(io[u]) /\ (u \notin mixed => io[u] \in pairs)
    /\ Words(<<code, val>>)
    /\ module = "out" => taken = 0
    /\ module = "failed" => taken = IF failedAt = 2 THEN 1 ELSE 0

==============================================================================
