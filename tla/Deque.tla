-------------------------------- MODULE Deque --------------------------------
(***************************************************************************)
(* What conn_mgr_queue.h promises its callers: a sequence that grows at    *)
(* either end and shrinks at its head, and that a push may leave unchanged *)
(* when there is no memory for the new item.                               *)
(***************************************************************************)
EXTENDS Sequences

CONSTANTS Data, NULL

VARIABLES
    contents,   \* the data in the queue, head first
    popped      \* what the last operation returned

Init == contents = <<>> /\ popped = NULL

PushHead(d) == contents' = <<d>> \o contents /\ popped' = NULL
PushTail(d) == contents' = Append(contents, d) /\ popped' = NULL
NoMemory    == contents' = contents /\ popped' = NULL

PopHead ==
    IF contents = <<>>
      THEN contents' = contents /\ popped' = NULL
      ELSE contents' = Tail(contents) /\ popped' = Head(contents)

Next == (\E d \in Data : PushHead(d) \/ PushTail(d)) \/ NoMemory \/ PopHead

Spec == Init /\ [][Next]_<<contents, popped>>

==============================================================================
