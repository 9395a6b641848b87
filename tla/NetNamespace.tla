---------------------------- MODULE NetNamespace -----------------------------
(***************************************************************************)
(* system/linux_namespace: each instance of the program clones a child     *)
(* into namespaces of its own, joins the two by a veth pair and takes the  *)
(* next number from a file that all instances share; the child gives its   *)
(* end of the pair an address with that number.  Parent and child share    *)
(* memory (CLONE_VM): what orders the child's reads of g_vethid and        *)
(* g_netcnt after the parent's writes is a sleep of one second.            *)
(***************************************************************************)
EXTENDS Integers

CONSTANTS Instances     \* processes that run the program

VARIABLES
    file,       \* NETWORK_COUNT_FILE: its number, or 0 while it has none
    pc,         \* the parent: "spawn", "veth", "open", "read", "write", "wait", "end"
    cnt, ret,   \* the variables of parent_get_netcnt
    g_vethid,   \* whether the veth pair was named
    g_netcnt,
    child,      \* "none", "sleep", "shell" or "done"
    addr        \* what the child's address was made from: <<g_vethid, g_netcnt>>

vars == <<file, pc, cnt, ret, g_vethid, g_netcnt, child, addr>>

FirstCount == 2

Init ==
    /\ file = 0
    /\ pc = [i \in Instances |-> "spawn"]
    /\ cnt = [i \in Instances |-> 0] /\ ret = [i \in Instances |-> 0]
    /\ g_vethid = [i \in Instances |-> FALSE] /\ g_netcnt = [i \in Instances |-> 0]
    /\ child = [i \in Instances |-> "none"]
    /\ addr = [i \in Instances |-> <<FALSE, 0>>]

Goto(i, there) == pc' = [pc EXCEPT ![i] = there]

\* clone; without a child main exits.
parent_spawn_child(i) ==
    /\ pc[i] = "spawn"
    /\ \/ Goto(i, "veth") /\ child' = [child EXCEPT ![i] = "sleep"]
       \/ Goto(i, "end") /\ UNCHANGED child
    /\ UNCHANGED <<file, cnt, ret, g_vethid, g_netcnt, addr>>

\* The name of the pair is the time in seconds; ip link makes the pair.
parent_init_veth_pair(i) ==
    /\ pc[i] = "veth"
    /\ g_vethid' = [g_vethid EXCEPT ![i] = TRUE]
    /\ Goto(i, "open")
    /\ UNCHANGED <<file, cnt, ret, g_netcnt, child, addr>>

\* parent_get_netcnt returns, and the result goes to g_netcnt.
Returns(i, n) ==
    /\ g_netcnt' = [g_netcnt EXCEPT ![i] = n]
    /\ Goto(i, "wait")

\* The three parts of parent_get_netcnt: open, read, and seek and write.
NetcntOpen(i) ==
    /\ pc[i] = "open"
    /\ (Goto(i, "read") /\ UNCHANGED g_netcnt) \/ Returns(i, -1)
    /\ UNCHANGED <<file, cnt, ret, g_vethid, child, addr>>

\* A file without a number gives the first one, which is stored as it is: the
\* second instance gets it too.
NetcntRead(i) ==
    /\ pc[i] = "read"
    /\ \/ /\ ret' = [ret EXCEPT ![i] = IF file = 0 THEN FirstCount ELSE file]
          /\ cnt' = [cnt EXCEPT ![i] = IF file = 0 THEN FirstCount ELSE file + 1]
          /\ Goto(i, "write")
          /\ UNCHANGED g_netcnt
       \/ Returns(i, -1) /\ UNCHANGED <<ret, cnt>>
    /\ UNCHANGED <<file, g_vethid, child, addr>>

\* Nobody looks at the result of write.
NetcntWrite(i) ==
    /\ pc[i] = "write"
    /\ file' \in {file, cnt[i]}
    /\ Returns(i, ret[i])
    /\ UNCHANGED <<cnt, ret, g_vethid, child, addr>>

\* A second after the clone, wherever the parent is by then.
child_fn(i) ==
    /\ child[i] = "sleep"
    /\ child' = [child EXCEPT ![i] = "shell"]
    /\ addr' = [addr EXCEPT ![i] = <<g_vethid[i], g_netcnt[i]>>]
    /\ UNCHANGED <<file, pc, cnt, ret, g_vethid, g_netcnt>>

\* The command q ends the child.
child_cmd_loop(i) ==
    /\ child[i] = "shell"
    /\ child' = [child EXCEPT ![i] = "done"]
    /\ UNCHANGED <<file, pc, cnt, ret, g_vethid, g_netcnt, addr>>

\* waitpid in main
Wait(i) ==
    /\ pc[i] = "wait" /\ child[i] = "done"
    /\ Goto(i, "end")
    /\ UNCHANGED <<file, cnt, ret, g_vethid, g_netcnt, child, addr>>

Next ==
    \E i \in Instances :
        \/ parent_spawn_child(i) \/ parent_init_veth_pair(i)
        \/ NetcntOpen(i) \/ NetcntRead(i) \/ NetcntWrite(i) \/ Wait(i)
        \/ child_fn(i) \/ child_cmd_loop(i)

Spec == Init /\ [][Next]_vars

-----------------------------------------------------------------------------
(* Properties *)

\* parent.c:24, "This function does synchronize the access to the critical
\* section viz. NETWORK_COUNT_FILE": what an instance read from the file is
\* still there when it writes its successor, so that no count is lost or given
\* out twice to instances that overlap.
NetcntSynchronized ==
    \A i \in Instances : pc[i] = "write" =>
        file = (IF cnt[i] = ret[i] THEN 0 ELSE ret[i])

==============================================================================
