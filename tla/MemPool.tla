------------------------------- MODULE MemPool -------------------------------
(***************************************************************************)
(* The pool of fixed-size objects of src/system/mem_pool                   *)
(* (argo_mem_pool.c).  Objects live in slabs; the first 8 bytes of each    *)
(* hold one word: for a free object the location of the next free one, for *)
(* an object in use its own location.  A location is a word whose low      *)
(* OffsetBits bits are the offset in the slab and the others its index.    *)
(*                                                                         *)
(* uint32_t arithmetic is modulo 2^WordBits, 32 in the code, where         *)
(* OffsetBits is 28 and SlabsMax 4096.  A pool whose objects do not fit in *)
(* the block allocated for them is "corrupt": the free list was written    *)
(* outside the block and nothing more is said about it.                    *)
(***************************************************************************)
EXTENDS Naturals, FiniteSets

CONSTANTS
    WordBits, OffsetBits, SlabsMax,
    ObjSzs, ObjCnts     \* the arguments create is called with

VARIABLES
    state,       \* "none", "live", "corrupt" or "destroyed"
    obj_sz, obj_cnt, slab_cnt, free_next,   \* struct argo_mem_pool
    blocks,      \* the indices of the slabs that are allocated
    meta,        \* the word at each object, by index and offset
    held         \* the objects callers have

vars == <<state, obj_sz, obj_cnt, slab_cnt, free_next, blocks, meta, held>>

MP_METADATA_SZ == 8
MP_SLAB_SIZE == 2^OffsetBits
MP_OFFSET_INVALID == 2^OffsetBits - 1
Wrap(n) == n % 2^WordBits

\* The object an encoded location stands for, and back.
ToLocation(word) == <<word \div MP_SLAB_SIZE, word % MP_SLAB_SIZE>>
ToWord(loc) == loc[1] * MP_SLAB_SIZE + loc[2]
IsEnd(word) == word % MP_SLAB_SIZE = MP_OFFSET_INVALID

\* __mp_adjust_size_and_count: room for the word, rounded up to 8 bytes ...
AdjustedSz(sz) == (Wrap(Wrap(sz + MP_METADATA_SZ) + 7) \div 8) * 8

\* ... and no more objects than a slab holds.
AdjustedCnt(sz, cnt) == IF Wrap(sz * cnt) > MP_SLAB_SIZE THEN MP_SLAB_SIZE \div sz ELSE cnt

\* Whether the loop of __mp_free_list_init stays inside the block.
Fits(sz, cnt) == cnt > 0 /\ sz > 0 /\ sz * cnt <= Wrap(sz * cnt)

Slots(k, sz, cnt) == {<<k, i * sz>> : i \in 0..cnt - 1}

\* __mp_free_list_init: each object points to the next one in its slab.
FreeListInit(k, sz, cnt) ==
    [loc \in Slots(k, sz, cnt) |->
        ToWord(<<k, IF loc[2] = (cnt - 1) * sz THEN MP_OFFSET_INVALID ELSE loc[2] + sz>>)]

Init ==
    /\ state = "none"
    /\ obj_sz = 0 /\ obj_cnt = 0 /\ slab_cnt = 0 /\ free_next = 0
    /\ blocks = {}
    /\ meta = [loc \in {} |-> 0]
    /\ held = {}

\* argo_mem_pool_create, when both allocations succeed; otherwise there is no
\* pool and the caller may try again.
Create(sz, cnt) ==
    /\ state = "none"
    /\ obj_sz' = AdjustedSz(sz)
    /\ obj_cnt' = AdjustedCnt(obj_sz', cnt)
    /\ slab_cnt' = 1
    /\ blocks' = {0}
    /\ free_next' = 0
    /\ IF Fits(obj_sz', obj_cnt')
         THEN state' = "live" /\ meta' = FreeListInit(0, obj_sz', obj_cnt')
         ELSE state' = "corrupt" /\ UNCHANGED meta
    /\ UNCHANGED held

\* Bug: the list still begins with the object that is handed out.
TakeKeepsHead(word, words) ==
    LET loc == ToLocation(word)
    IN  /\ free_next' = word
        /\ meta' = [words EXCEPT ![loc] = ToWord(loc)]
        /\ held' = held \cup {loc}

\* The end of argo_mem_pool_get: the first free object leaves the list and
\* remembers its own location.
Take(word, words) ==
    LET loc == ToLocation(word)
    IN  /\ free_next' = words[loc]
        /\ meta' = [words EXCEPT ![loc] = ToWord(loc)]
        /\ held' = held \cup {loc}

Get ==
    /\ state = "live"
    /\ ~IsEnd(free_next)
    /\ Take(free_next, meta)
    /\ UNCHANGED <<state, obj_sz, obj_cnt, slab_cnt, blocks>>

\* The list is at its end: argo_mem_pool_expand adds a slab, and the list
\* starts again there.
GetExpand ==
    /\ state = "live"
    /\ IsEnd(free_next)
    /\ slab_cnt < SlabsMax
    /\ LET new == FreeListInit(slab_cnt, obj_sz, obj_cnt)
       IN  Take(ToWord(<<slab_cnt, 0>>),
                [loc \in DOMAIN meta \cup DOMAIN new |->
                    IF loc \in DOMAIN new THEN new[loc] ELSE meta[loc]])
    /\ slab_cnt' = slab_cnt + 1
    /\ blocks' = blocks \cup {slab_cnt}
    /\ UNCHANGED <<state, obj_sz, obj_cnt>>

\* get returns NULL: all slabs are in use, or there is no memory for another.
GetNull ==
    /\ state = "live"
    /\ IsEnd(free_next)
    /\ UNCHANGED vars

\* Bug: the object is put in front without linking the rest of the list.
PutUnlinked(loc) ==
    /\ state = "live"
    /\ loc \in held
    /\ free_next' = meta[loc]
    /\ meta' = [meta EXCEPT ![loc] = ToWord(<<loc[1], MP_OFFSET_INVALID>>)]
    /\ held' = held \ {loc}
    /\ UNCHANGED <<state, obj_sz, obj_cnt, slab_cnt, blocks>>

\* argo_mem_pool_put finds the location in the object itself.
Put(loc) ==
    /\ state = "live"
    /\ loc \in held
    /\ free_next' = meta[loc]
    /\ meta' = [meta EXCEPT ![loc] = free_next]
    /\ held' = held \ {loc}
    /\ UNCHANGED <<state, obj_sz, obj_cnt, slab_cnt, blocks>>

\* argo_mem_pool_destroy
Destroy ==
    /\ state = "live"
    /\ state' = "destroyed"
    /\ blocks' = blocks \ (0..SlabsMax - 1)
    /\ UNCHANGED <<obj_sz, obj_cnt, slab_cnt, free_next, meta, held>>

Next ==
    \/ \E sz \in ObjSzs, cnt \in ObjCnts : Create(sz, cnt)
    \/ Get \/ GetExpand \/ GetNull
    \/ \E loc \in held : Put(loc)
    \/ Destroy
    \/ state \in {"corrupt", "destroyed"} /\ UNCHANGED vars

Spec == Init /\ [][Next]_vars

-----------------------------------------------------------------------------
(* Properties *)

\* The n-th word of the free list.
FreeList[n \in 0..Cardinality(DOMAIN meta)] ==
    IF n = 0 THEN free_next
    ELSE IF IsEnd(FreeList[n - 1]) THEN FreeList[n - 1]
    ELSE meta[ToLocation(FreeList[n - 1])]
Free == {ToLocation(FreeList[n]) :
            n \in {k \in DOMAIN FreeList : ~IsEnd(FreeList[k])}}

\* Whatever the order of gets and puts and across slabs, the free list ends,
\* and it holds exactly the objects nobody has: none is lost, none is both
\* free and in use.
FreeListExact ==
    state = "live" =>
      /\ IsEnd(FreeList[Cardinality(DOMAIN meta)])
      /\ Free = DOMAIN meta \ held

\* get fails for want of a slab only when every object of every slab is in use.
NullOnlyWhenExhausted ==
    state = "live" /\ IsEnd(free_next) /\ ~(slab_cnt < SlabsMax) =>
        Cardinality(held) = SlabsMax * obj_cnt

\* argo_mem_pool.c:39: "Each slab is contiguous memory block of size =
\* mp_obj_sz * mp_obj_cnt", "capped at 256MB": the objects of a pool lie within
\* their slab, for the sizes and counts the constants allow: those whose adjusted
\* product does not wrap the 32-bit word, at least one object, and an object that
\* fits in a slab.  For the others nothing in the code checks it.
SlabHoldsObjects == state # "none" => Fits(obj_sz, obj_cnt) /\ obj_sz * obj_cnt <= MP_SLAB_SIZE

==============================================================================
