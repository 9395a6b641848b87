---------------------------- MODULE MemPoolTests -----------------------------
(***************************************************************************)
(* system/mem_pool/argo_test_mem_pool.c: the programs that use the pool.   *)
(* Each test is the list of its calls: a test of the result of a get and   *)
(* an early return ("get"), a get whose result is written through          *)
(* unchecked ("take") or thrown away ("drop"), and a put, each with the    *)
(* index in the test's array of pointers.  A test writes its index into    *)
(* every object.                                                           *)
(***************************************************************************)
EXTENDS MemPool, Sequences

VARIABLES
    test,       \* the test that runs
    todo,       \* the calls it has still to make
    ptr,        \* its array of pointers
    text,       \* what is written in each object
    result      \* "none", "passed", "failed" or "crashed"

test_vars == <<test, todo, ptr, text, result>>

OBJ_SZ == 8
OBJ_CNT == 4
DROPS == 50

\* Calls for the indices a to b, and from a down to b.
Each(call, a, b) == [k \in 1 .. b - a + 1 |-> <<call, a + k - 1>>]
EachDown(call, a, b) == [k \in 1 .. a - b + 1 |-> <<call, a - k + 1>>]

test1 == <<<<"take", 0>>, <<"put", 0>>>>
test2 == Each("get", 0, OBJ_CNT - 1) \o EachDown("put", OBJ_CNT - 1, 0)
test3 == Each("get", 0, 4) \o EachDown("put", 4, 0)
test4 == Each("get", 0, 8) \o EachDown("put", 8, 0)
test5 ==
    Each("get", 0, 3) \o <<<<"put", 0>>, <<"put", 3>>>>
      \o <<<<"take", 0>>, <<"take", 3>>, <<"take", 4>>, <<"take", 5>>, <<"put", 4>>, <<"put", 5>>>>
      \o Each("take", 6, 8) \o <<<<"take", 4>>, <<"take", 5>>>>
      \o Each("put", 0, 8)

\* 50 gets from a pool of slabs of two, and neither a put nor a destroy.
test6 == Each("drop", 0, DROPS - 1)

Tests == <<test1, test2, test3, test4, test5, test6>>

TestInit ==
    /\ test = 1 /\ todo = <<>>
    /\ ptr = [i \in {} |-> <<0, 0>>] /\ text = [loc \in {} |-> 0]
    /\ result = "none"

\* The create every test begins with.
Begin ==
    /\ state = "none" /\ result = "none"
    /\ IF test = 6 THEN Create(OBJ_SZ, 2) ELSE Create(OBJ_SZ, OBJ_CNT)
    /\ todo' = Tests[test]
    /\ UNCHANGED <<test, ptr, text, result>>

\* A create that returns NULL; no test looks, and the first get reads through it.
BeginNull ==
    /\ state = "none" /\ result = "none"
    /\ result' = "crashed"
    /\ UNCHANGED <<vars, test, todo, ptr, text>>

Call == Head(todo)[1]
Index == Head(todo)[2]
With(f, x, y) == [z \in DOMAIN f \cup {x} |-> IF z = x THEN y ELSE f[z]]

\* A get that returns an object, which the test writes its index into.
TestGet ==
    /\ todo # <<>> /\ Call # "put"
    /\ Get \/ GetExpand
    /\ LET loc == ToLocation(IF IsEnd(free_next) THEN ToWord(<<slab_cnt, 0>>) ELSE free_next)
       IN /\ ptr' = With(ptr, Index, loc)
          /\ text' = IF Call = "drop" THEN text ELSE With(text, loc, Index)
    /\ todo' = Tail(todo)
    /\ UNCHANGED <<test, result>>

\* A get that returns NULL: a checked one ends the test without a destroy, an
\* unchecked one is written through.
TestNull ==
    /\ todo # <<>> /\ Call # "put"
    /\ GetNull
    /\ todo' = IF Call = "drop" THEN Tail(todo) ELSE <<>>
    /\ result' = CASE Call = "get" -> "failed" [] Call = "take" -> "crashed" [] OTHER -> result
    /\ UNCHANGED <<test, ptr, text>>

TestPut ==
    /\ todo # <<>> /\ Call = "put"
    /\ Put(ptr[Index])
    /\ todo' = Tail(todo)
    /\ ptr' = [i \in DOMAIN ptr \ {Index} |-> ptr[i]]
    /\ UNCHANGED <<test, text, result>>

\* All tests but the last destroy the pool.
TestEnds ==
    /\ state = "live" /\ todo = <<>> /\ result = "none"
    /\ result' = "passed"
    /\ (test # 6 /\ Destroy) \/ (test = 6 /\ UNCHANGED vars)
    /\ UNCHANGED <<test, todo, ptr, text>>

\* main goes on to the next test unless the process died.
NextTest ==
    /\ result \in {"passed", "failed"} /\ test < Len(Tests)
    /\ test' = test + 1 /\ result' = "none"
    /\ ptr' = [i \in {} |-> <<0, 0>>] /\ text' = [loc \in {} |-> 0]
    /\ state' = "none" /\ obj_sz' = 0 /\ obj_cnt' = 0 /\ slab_cnt' = 0
    /\ free_next' = 0 /\ blocks' = {} /\ meta' = [loc \in {} |-> 0] /\ held' = {}
    /\ UNCHANGED todo

TestNext == Begin \/ BeginNull \/ TestGet \/ TestNull \/ TestPut \/ TestEnds \/ NextTest

-----------------------------------------------------------------------------
(* Properties *)

\* argo_test_mem_pool.c: an object a test holds still has what the test wrote
\* into it, and two indices never share one, across expansions and after
\* objects came back in any order.
TestsKeepTheirObjects ==
    /\ \A i \in DOMAIN ptr \ (IF test = 6 THEN DOMAIN ptr ELSE {}) : text[ptr[i]] = i
    /\ \A i, j \in DOMAIN ptr : ptr[i] = ptr[j] => i = j
    /\ DOMAIN ptr # {} => {ptr[i] : i \in DOMAIN ptr} = held

==============================================================================
