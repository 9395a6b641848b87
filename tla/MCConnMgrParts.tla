--------------------------- MODULE MCConnMgrParts ----------------------------
(***************************************************************************)
(* One run for the two parts of conn_mgr below the pool, which share       *)
(* nothing: a behaviour is one of the queue (ConnMgrQueue) or of threads   *)
(* that make connections (ConnMgrConn), and leaves the other's variables   *)
(* at their initial values.                                                *)
(***************************************************************************)
EXTENDS ConnMgrQueue

CONSTANTS Callers, Timeout, MaxCalls, MaxInterrupts

ASSUME ConnConstants == Timeout \in Nat

VARIABLES
    which,
    pc, fd, tcp, conn, ret, errno, waited, elapsed, interrupts, calls

Conn == INSTANCE ConnMgrConn

conn_vars == <<pc, fd, tcp, conn, ret, errno, waited, elapsed, interrupts, calls>>
parts_vars == <<which, vars, conn_vars>>

PartsInit == which \in {"queue", "conn"} /\ Init /\ Conn!Init

\* The part that runs, and what stays as it is.
InQueue == which = "queue" /\ UNCHANGED <<which, conn_vars>>
InConn == which = "conn" /\ UNCHANGED <<which, vars>>

PartsNext == (InQueue /\ Next) \/ (InConn /\ Conn!Next)

\* The fairness of ConnMgrConn: a running thread goes on, and time passes.
PartsSpec ==
    /\ PartsInit /\ [][PartsNext]_parts_vars
    /\ \A t \in Callers : WF_parts_vars(InConn /\ Conn!Step(t))

-----------------------------------------------------------------------------
(* Properties of the connections *)

\* conn_mgr_conn.c: after the call the socket is open exactly if the caller
\* holds a connection, an established connection is in blocking mode again,
\* and the connect took no longer than the timeout for each time poll was entered.
ConnNewSound ==
    Conn!NoLeakedSocket /\ Conn!EstablishedIsBlocking /\ Conn!TimeBounded

\* conn_mgr_conn.c: conn_mgr_conn_new comes back, whatever the peer does.
NewReturns ==
    \A t \in Callers : pc[t] = "set_nonblocking" ~> pc[t] \in {"read_errno", "using"}

==============================================================================
