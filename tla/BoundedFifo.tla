----------------------------- MODULE BoundedFifo -----------------------------
(***************************************************************************)
(* What the shared-memory queue is for: values come out in the order they  *)
(* went in, each to one consumer, and at most Size are inside.             *)
(***************************************************************************)
EXTENDS Naturals, Sequences

CONSTANTS Values, Consumers, Size, NULL

VARIABLES
    contents,    \* the values inside, oldest first
    delivered    \* the value each consumer is handling, or NULL

Init == contents = <<>> /\ delivered = [c \in Consumers |-> NULL]

Put(v) ==
    /\ Len(contents) < Size
    /\ contents' = Append(contents, v)
    /\ UNCHANGED delivered

Get(c) ==
    /\ contents # <<>>
    /\ contents' = Tail(contents)
    /\ delivered' = [delivered EXCEPT ![c] = Head(contents)]

Handled(c) ==
    /\ delivered' = [delivered EXCEPT ![c] = NULL]
    /\ UNCHANGED contents

Next ==
    \/ \E v \in Values : Put(v)
    \/ \E c \in Consumers : Get(c) \/ Handled(c)

Spec == Init /\ [][Next]_<<contents, delivered>>

==============================================================================
