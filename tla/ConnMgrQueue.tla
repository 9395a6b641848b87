---------------------------- MODULE ConnMgrQueue -----------------------------
(***************************************************************************)
(* The queue of src/networking/conn_mgr (conn_mgr_queue.c): a singly       *)
(* linked list of heap items between a head and a tail pointer.  Its user  *)
(* (ConnMgrPool) calls it with the pool's mutex held, so each operation is *)
(* one step.                                                               *)
(*                                                                         *)
(* An item that is not in live is free: malloc may return it again, and    *)
(* its fields keep whatever they held.                                     *)
(***************************************************************************)
EXTENDS Naturals, Sequences, FiniteSets

CONSTANTS
    Items,  \* addresses malloc may return for a conn_mgr_queue_item_t
    Data,   \* the data pointers callers push
    NULL

ASSUME QueueConstants == IsFiniteSet(Items) /\ NULL \notin Items \cup Data

VARIABLES
    head, tail,   \* conn_mgr_queue_t
    next, data,   \* the fields of each item
    live,         \* the items allocated now
    popped        \* what the last operation returned to its caller

vars == <<head, tail, next, data, live, popped>>

\* conn_mgr_queue_init, on a heap of free items.
Init ==
    /\ head = NULL
    /\ tail = NULL
    /\ next = [i \in Items |-> NULL]
    /\ data = [i \in Items |-> NULL]
    /\ live = {}
    /\ popped = NULL

\* malloc returns NULL: the push ends there, and tells nobody.
PushNoMemory ==
    /\ popped' = NULL
    /\ UNCHANGED <<head, tail, next, data, live>>

PushHead(d) ==
    \E item \in Items \ live :
        /\ live' = live \cup {item}
        /\ data' = [data EXCEPT ![item] = d]
        /\ next' = [next EXCEPT ![item] = head]
        /\ head' = item
        /\ tail' = IF tail = NULL THEN item ELSE tail
        /\ popped' = NULL

\* Bug: the fresh item's next field is not cleared.
PushTailNextUnset(d) ==
    \E item \in Items \ live :
        /\ live' = live \cup {item}
        /\ data' = [data EXCEPT ![item] = d]
        /\ next' = IF tail # NULL THEN [next EXCEPT ![tail] = item] ELSE next
        /\ head' = IF tail # NULL THEN head ELSE item
        /\ tail' = item
        /\ popped' = NULL

PushTail(d) ==
    \E item \in Items \ live :
        /\ live' = live \cup {item}
        /\ data' = [data EXCEPT ![item] = d]
        /\ next' = IF tail # NULL
                     THEN [next EXCEPT ![item] = NULL, ![tail] = item]
                     ELSE [next EXCEPT ![item] = NULL]
        /\ head' = IF tail # NULL THEN head ELSE item
        /\ tail' = item
        /\ popped' = NULL

\* Bug: the tail pointer is left behind when the last item goes.
PopHeadKeepsTail ==
    IF head = NULL
      THEN popped' = NULL /\ UNCHANGED <<head, tail, next, data, live>>
      ELSE /\ popped' = data[head]
           /\ head' = next[head]
           /\ live' = live \ {head}
           /\ UNCHANGED <<tail, next, data>>

PopHead ==
    IF head = NULL
      THEN popped' = NULL /\ UNCHANGED <<head, tail, next, data, live>>
      ELSE /\ popped' = data[head]
           /\ tail' = IF next[head] = NULL THEN NULL ELSE tail
           /\ head' = next[head]
           /\ live' = live \ {head}
           /\ UNCHANGED <<next, data>>

Next ==
    \/ PushNoMemory
    \/ \E d \in Data : PushHead(d) \/ PushTail(d)
    \/ PopHead

Spec == Init /\ [][Next]_vars

-----------------------------------------------------------------------------
(* Walking the list, as conn_mgr_queue_get_length and _print do *)

\* The item after n steps of item = item->next, or NULL once the list ended.
Walk[n \in 0..Cardinality(Items)] ==
    IF n = 0 THEN head
    ELSE IF Walk[n - 1] = NULL THEN NULL ELSE next[Walk[n - 1]]

get_length == Cardinality({n \in 0..Cardinality(Items) : Walk[n] # NULL})

-----------------------------------------------------------------------------
(* Properties *)

\* Every pointer is NULL or the address of an item.
TypeOK ==
    /\ head \in Items \cup {NULL}
    /\ tail \in Items \cup {NULL}
    /\ next \in [Items -> Items \cup {NULL}]
    /\ data \in [Items -> Data \cup {NULL}]
    /\ live \subseteq Items
    /\ popped \in Data \cup {NULL}

\* s lists the allocated items in the order of their next pointers, from head
\* to tail.
Lists(s) ==
    /\ {s[k] : k \in DOMAIN s} = live
    /\ \A j, k \in DOMAIN s : s[j] = s[k] => j = k
    /\ \A k \in 1..Len(s) - 1 : next[s[k]] = s[k + 1]
    /\ Len(s) = 0 => head = NULL /\ tail = NULL
    /\ Len(s) > 0 => head = s[1] /\ tail = s[Len(s)] /\ next[tail] = NULL

\* The list is sound: no cycle, no dangling pointer, no item leaked, and the
\* tail pointer is the last item whichever end the items came and went from.
ListShape == \E n \in 0..Cardinality(Items) : \E s \in [1..n -> Items] : Lists(s)

\* The list implements the sequence its header promises: what is popped is
\* what was pushed, in order, and a failed malloc loses only the new item.
D == INSTANCE Deque WITH
         contents <- [k \in 1..get_length |-> data[Walk[k - 1]]]
ImplementsDeque == D!Spec

==============================================================================
