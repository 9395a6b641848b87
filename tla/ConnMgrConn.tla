----------------------------- MODULE ConnMgrConn -----------------------------
(***************************************************************************)
(* conn_mgr_conn_new and conn_mgr_conn_destroy of src/networking/conn_mgr  *)
(* (conn_mgr_conn.c): a TCP connect with a timeout, on a socket that is    *)
(* made non-blocking for the connect and blocking again afterwards.        *)
(*                                                                         *)
(* A caller makes one connection at a time; conn_mgr_conn_errno is one     *)
(* variable for all of them (conn_mgr_conn.h).  Each system call is a step *)
(* of its own and may fail where the code looks at its result.  The state  *)
(* of the TCP handshake (tcp) belongs to the kernel, which also decides    *)
(* whether poll reports POLLOUT along with the error of a refused connect. *)
(* Time passes in ticks while a caller is inside poll.                     *)
(***************************************************************************)
EXTENDS Integers

CONSTANTS
    Callers,        \* the threads that make connections
    Timeout,        \* the connect timeout, in ticks
    MaxCalls,       \* bound: calls each caller makes
    MaxInterrupts   \* bound: signals that interrupt the poll of one call

VARIABLES
    pc,          \* where each caller is
    fd,          \* its socket: "none", "blocking" or "nonblocking"
    tcp,         \* the handshake: "closed", "connecting", "established", "refused"
    conn,        \* whether it holds a conn object
    ret,         \* ret of tcp_connect_with_timeout: 0 or -1
    errno,       \* conn_mgr_conn_errno
    waited,      \* ticks in the current call of poll
    elapsed,     \* ticks since connect
    interrupts,  \* EINTRs of this call
    calls        \* calls made

vars == <<pc, fd, tcp, conn, ret, errno, waited, elapsed, interrupts, calls>>

PCs == {"idle", "set_nonblocking", "connect", "poll", "set_blocking",
        "check_ret", "malloc", "read_errno", "using"}
Errors == {"SOCKET", "SETNONBLOCKING", "CONNECT", "POLL", "TIMEDOUT",
           "CONNECTING", "SETBLOCKING", "MEM_ALLOC"}

Init ==
    /\ pc = [t \in Callers |-> "idle"]
    /\ fd = [t \in Callers |-> "none"]
    /\ tcp = [t \in Callers |-> "closed"]
    /\ conn = [t \in Callers |-> FALSE]
    /\ ret = [t \in Callers |-> 0]
    /\ errno = "SUCCESS"
    /\ waited = [t \in Callers |-> 0]
    /\ elapsed = [t \in Callers |-> 0]
    /\ interrupts = [t \in Callers |-> 0]
    /\ calls = [t \in Callers |-> 0]

Goto(t, there) == pc' = [pc EXCEPT ![t] = there]
clock == <<waited, elapsed, interrupts>>

\* socket(); on failure the call returns NULL at once.
Socket(t) ==
    /\ pc[t] = "idle"
    /\ calls[t] < MaxCalls
    /\ calls' = [calls EXCEPT ![t] = @ + 1]
    /\ ret' = [ret EXCEPT ![t] = 0]
    /\ waited' = [waited EXCEPT ![t] = 0]
    /\ elapsed' = [elapsed EXCEPT ![t] = 0]
    /\ interrupts' = [interrupts EXCEPT ![t] = 0]
    /\ \/ /\ fd' = [fd EXCEPT ![t] = "blocking"]
          /\ Goto(t, "set_nonblocking")
          /\ UNCHANGED errno
       \/ /\ errno' = "SOCKET"
          /\ Goto(t, "read_errno")
          /\ UNCHANGED fd
    /\ UNCHANGED <<tcp, conn>>

\* set_socket_non_blocking: either fcntl may fail.
SetNonBlocking(t) ==
    /\ pc[t] = "set_nonblocking"
    /\ \/ /\ fd' = [fd EXCEPT ![t] = "nonblocking"]
          /\ Goto(t, "connect")
          /\ UNCHANGED <<errno, ret>>
       \/ /\ errno' = "SETNONBLOCKING"
          /\ ret' = [ret EXCEPT ![t] = -1]
          /\ Goto(t, "check_ret")
          /\ UNCHANGED fd
    /\ UNCHANGED <<tcp, conn, clock, calls>>

\* connect() succeeds at once, is in progress, or fails.  The failure branch
\* sets the error code and leaves ret at 0.
Connect(t) ==
    /\ pc[t] = "connect"
    /\ \/ /\ tcp' = [tcp EXCEPT ![t] = "established"]
          /\ Goto(t, "set_blocking")
          /\ UNCHANGED errno
       \/ /\ tcp' = [tcp EXCEPT ![t] = "connecting"]
          /\ Goto(t, "poll")
          /\ UNCHANGED errno
       \/ /\ errno' = "CONNECT"
          /\ Goto(t, "check_ret")
          /\ UNCHANGED tcp
    /\ UNCHANGED <<fd, conn, ret, clock, calls>>

\* The peer answers the handshake.
Handshake(t) ==
    /\ tcp[t] = "connecting"
    /\ \E answer \in {"established", "refused"} : tcp' = [tcp EXCEPT ![t] = answer]
    /\ UNCHANGED <<pc, fd, conn, ret, errno, clock, calls>>

\* Time passes inside poll.
Tick(t) ==
    /\ pc[t] = "poll"
    /\ waited[t] < Timeout
    /\ waited' = [waited EXCEPT ![t] = @ + 1]
    /\ elapsed' = [elapsed EXCEPT ![t] = @ + 1]
    /\ UNCHANGED <<pc, fd, tcp, conn, ret, errno, interrupts, calls>>

\* poll fails with EINTR: the loop calls it again with the whole timeout.
PollInterrupted(t) ==
    /\ pc[t] = "poll"
    /\ interrupts[t] < MaxInterrupts
    /\ interrupts' = [interrupts EXCEPT ![t] = @ + 1]
    /\ waited' = [waited EXCEPT ![t] = 0]
    /\ UNCHANGED <<pc, fd, tcp, conn, ret, errno, elapsed, calls>>

\* poll_for_connect ends with an error code and -1.
PollFails(t, code) ==
    /\ errno' = code
    /\ ret' = [ret EXCEPT ![t] = -1]

\* poll fails for a reason other than a signal.
PollError(t) ==
    /\ pc[t] = "poll"
    /\ PollFails(t, "POLL")
    /\ Goto(t, "set_blocking")
    /\ UNCHANGED <<fd, tcp, conn, clock, calls>>

\* Bug: poll is called with a timeout of -1.
PollReturnsNoTimeout(t) ==
    /\ pc[t] = "poll"
    /\ \/ tcp[t] \in {"established", "refused"} /\ UNCHANGED <<errno, ret>>
       \/ tcp[t] = "refused" /\ PollFails(t, "CONNECTING")
    /\ Goto(t, "set_blocking")
    /\ UNCHANGED <<fd, tcp, conn, clock, calls>>

\* poll times out, or reports the answer of the peer: POLLOUT, or only the error
\* of a refused connect.
PollReturns(t) ==
    /\ pc[t] = "poll"
    /\ \/ waited[t] = Timeout /\ tcp[t] = "connecting" /\ PollFails(t, "TIMEDOUT")
       \/ tcp[t] \in {"established", "refused"} /\ UNCHANGED <<errno, ret>>
       \/ tcp[t] = "refused" /\ PollFails(t, "CONNECTING")
    /\ Goto(t, "set_blocking")
    /\ UNCHANGED <<fd, tcp, conn, clock, calls>>

\* set_socket_blocking runs whatever poll_for_connect returned, and its own
\* failure overwrites the error code.
SetBlocking(t) ==
    /\ pc[t] = "set_blocking"
    /\ \/ /\ fd' = [fd EXCEPT ![t] = "blocking"]
          /\ UNCHANGED <<errno, ret>>
       \/ /\ errno' = "SETBLOCKING"
          /\ ret' = [ret EXCEPT ![t] = -1]
          /\ UNCHANGED fd
    /\ Goto(t, "check_ret")
    /\ UNCHANGED <<tcp, conn, clock, calls>>

\* Bug: the error exit forgets close(fd).
CheckRetLeaks(t) ==
    /\ pc[t] = "check_ret"
    /\ Goto(t, IF ret[t] < 0 THEN "read_errno" ELSE "malloc")
    /\ UNCHANGED <<fd, tcp, conn, ret, errno, clock, calls>>

\* conn_mgr_conn_new looks at the result of tcp_connect_with_timeout.
CheckRet(t) ==
    /\ pc[t] = "check_ret"
    /\ IF ret[t] < 0
         THEN /\ fd' = [fd EXCEPT ![t] = "none"]
              /\ tcp' = [tcp EXCEPT ![t] = "closed"]
              /\ Goto(t, "read_errno")
         ELSE Goto(t, "malloc") /\ UNCHANGED <<fd, tcp>>
    /\ UNCHANGED <<conn, ret, errno, clock, calls>>

\* The conn object is allocated last; without memory the socket is closed.
Malloc(t) ==
    /\ pc[t] = "malloc"
    /\ \/ /\ errno' = "SUCCESS"
          /\ conn' = [conn EXCEPT ![t] = TRUE]
          /\ Goto(t, "using")
          /\ UNCHANGED <<fd, tcp>>
       \/ /\ errno' = "MEM_ALLOC"
          /\ fd' = [fd EXCEPT ![t] = "none"]
          /\ tcp' = [tcp EXCEPT ![t] = "closed"]
          /\ Goto(t, "read_errno")
          /\ UNCHANGED conn
    /\ UNCHANGED <<ret, clock, calls>>

\* The caller, told NULL, looks up why (test_conn of test/test.c).
ReadErrno(t) ==
    /\ pc[t] = "read_errno"
    /\ Goto(t, "idle")
    /\ UNCHANGED <<fd, tcp, conn, ret, errno, clock, calls>>

\* conn_mgr_conn_destroy
Destroy(t) ==
    /\ pc[t] = "using"
    /\ fd' = [fd EXCEPT ![t] = "none"]
    /\ tcp' = [tcp EXCEPT ![t] = "closed"]
    /\ conn' = [conn EXCEPT ![t] = FALSE]
    /\ errno' = "SUCCESS"
    /\ Goto(t, "idle")
    /\ UNCHANGED <<ret, clock, calls>>

\* Every caller has made its calls.
Finished == (\A t \in Callers : pc[t] = "idle" /\ calls[t] = MaxCalls) /\ UNCHANGED vars

\* What a caller does once conn_mgr_conn_new has begun.
Step(t) ==
    \/ SetNonBlocking(t) \/ Connect(t) \/ Tick(t) \/ PollReturns(t)
    \/ SetBlocking(t) \/ CheckRet(t) \/ Malloc(t)

Next ==
    \/ \E t \in Callers :
         \/ Socket(t) \/ Step(t) \/ PollInterrupted(t) \/ PollError(t) \/ Handshake(t)
         \/ ReadErrno(t) \/ Destroy(t)
    \/ Finished

Spec == Init /\ [][Next]_vars

\* A running thread goes on running and time passes; nothing is assumed of the
\* peer, of signals and errors, of new calls or of what the caller does with the result.
FairSpec == Spec /\ \A t \in Callers : WF_vars(Step(t))

-----------------------------------------------------------------------------
(* Properties *)

\* No path leaks the socket: once the call is over it is open exactly if the
\* caller holds a conn object.
NoLeakedSocket ==
    \A t \in Callers : pc[t] \in {"idle", "read_errno", "using"} =>
        (fd[t] # "none" <=> conn[t])

\* The caller never gets an established connection that is still in the
\* non-blocking mode the connect needed.
EstablishedIsBlocking ==
    \A t \in Callers : conn[t] /\ tcp[t] = "established" => fd[t] = "blocking"

\* One connect takes no longer than the timeout for each time poll was entered.
TimeBounded == \A t \in Callers : elapsed[t] <= (interrupts[t] + 1) * Timeout

\* conn_mgr_conn_new comes back, whatever the peer does.
NewReturns ==
    \A t \in Callers : pc[t] = "set_nonblocking" ~> pc[t] \in {"read_errno", "using"}

\* conn_mgr_conn.c:35, "On failure, NULL and conn_mgr_conn_errno is set": a
\* connect that failed at once is not reported as a success.
FailureReturnsNull == \A t \in Callers : conn[t] => tcp[t] # "closed"

==============================================================================
