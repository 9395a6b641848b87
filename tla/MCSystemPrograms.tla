-------------------------- MODULE MCSystemPrograms ---------------------------
(***************************************************************************)
(* One run for the programs under src/system and src/other that share      *)
(* nothing: a behaviour is one of DiningPhilosophers, MemPool with any     *)
(* caller, MemPool with its test program, CondVar, AioCopy and             *)
(* IoctlDriver, and leaves the others' variables at their initial values.  *)
(***************************************************************************)
EXTENDS DiningPhilosophers

CONSTANTS
    WordBits, OffsetBits, SlabsMax, TestSlabsMax, ObjSzs, ObjCnts,
    count_limit, tcount,
    ALLOC_SIZE, REALLOC_THRESHOLD, FileLengths, OldLengths,
    Users, Inputs

VARIABLES
    which,
    state, obj_sz, obj_cnt, slab_cnt, free_next, blocks, meta, held,
    test, todo, ptr, text, result,
    count, turns, watcher, joined,
    aio, flen, old, content, buf_size, aio_offset, aio_nbytes, aio_ret, checks, written, copy,
    code, val, module, taken, failedAt, user, io, pairs, raced, mixed

\* async_read_write.c: the buffer has a first size; both sizes are numbers of
\* bytes, as are the lengths of the file and of an old copy.
ASSUME AioConstants ==
    /\ ALLOC_SIZE \in Nat \ {0} /\ REALLOC_THRESHOLD \in Nat
    /\ FileLengths \subseteq Nat /\ OldLengths \subseteq Nat

Mem == INSTANCE MemPool
MemTest == INSTANCE MemPoolTests WITH SlabsMax <- TestSlabsMax
Cond == INSTANCE CondVar
Aio == INSTANCE AioCopy
Ioctl == INSTANCE IoctlDriver

\* argo_mem_pool.c: sizes and counts, of the callers and of the test program, that
\* do not wrap the word when they are adjusted and multiplied, objects that fit in
\* a slab, and room for a slab.
Sized(sz, cnt) ==
    /\ sz \in Nat /\ cnt \in Nat \ {0} /\ sz + 15 < 2^WordBits
    /\ Mem!AdjustedSz(sz) <= Mem!MP_SLAB_SIZE /\ Mem!AdjustedSz(sz) * cnt < 2^WordBits
ASSUME MemConstants ==
    /\ Mem!MP_SLAB_SIZE \in Nat \ {0} /\ 2^WordBits \in Nat \ {0} /\ SlabsMax \in Nat \ {0}
    /\ \A sz \in ObjSzs, cnt \in ObjCnts : Sized(sz, cnt)
    /\ Sized(MemTest!OBJ_SZ, MemTest!OBJ_CNT) /\ Sized(MemTest!OBJ_SZ, 2)

phil_vars == <<lock, forks, pc>>
mem_vars == <<state, obj_sz, obj_cnt, slab_cnt, free_next, blocks, meta, held>>
test_vars == <<test, todo, ptr, text, result>>
cond_vars == <<count, turns, watcher, joined>>
aio_vars == <<aio, flen, old, content, buf_size, aio_offset, aio_nbytes, aio_ret, checks,
              written, copy>>
ioctl_vars == <<code, val, module, taken, failedAt, user, io, pairs, raced, mixed>>
sys_vars == <<which, phil_vars, mem_vars, test_vars, cond_vars, aio_vars, ioctl_vars>>

SysInit ==
    /\ which \in {"phil", "mem", "memtest", "cond", "aio", "ioctl"}
    /\ Init /\ Mem!Init /\ MemTest!TestInit /\ Cond!Init /\ Aio!Init /\ Ioctl!Init
    /\ which # "aio" => (\A n \in FileLengths : flen <= n) /\ (\A n \in OldLengths : old <= n)

\* The program that runs, and what stays as it is.
InPhil == which = "phil" /\ UNCHANGED <<which, mem_vars, test_vars, cond_vars, aio_vars, ioctl_vars>>
InMem == which = "mem" /\ UNCHANGED <<which, phil_vars, test_vars, cond_vars, aio_vars, ioctl_vars>>
InMemTest == which = "memtest" /\ UNCHANGED <<which, phil_vars, cond_vars, aio_vars, ioctl_vars>>
InCond == which = "cond" /\ UNCHANGED <<which, phil_vars, mem_vars, test_vars, aio_vars, ioctl_vars>>
InAio == which = "aio" /\ UNCHANGED <<which, phil_vars, mem_vars, test_vars, cond_vars, ioctl_vars>>
InIoctl == which = "ioctl" /\ UNCHANGED <<which, phil_vars, mem_vars, test_vars, cond_vars, aio_vars>>

SysNext ==
    \/ (InPhil /\ Next)
    \/ (InMem /\ Mem!Next)
    \/ (InMemTest /\ MemTest!TestNext)
    \/ (InCond /\ Cond!Next)
    \/ (InAio /\ Aio!Next)
    \/ (InIoctl /\ Ioctl!Next)

\* Threads keep running; a wait on a condition variable ends when signalled.
SysSpec ==
    /\ SysInit /\ [][SysNext]_sys_vars
    /\ \A i \in Philosophers : WF_sys_vars(InPhil /\ philosopher(i))
    /\ \A t \in {2, 3} : WF_sys_vars(InCond /\ Cond!incrementCount(t))
    /\ WF_sys_vars(InCond /\ (Cond!watchCount \/ Cond!WatchReturns))
    /\ WF_sys_vars(InCond /\ Cond!Join)

-----------------------------------------------------------------------------
(* Properties, each of one of the programs *)

\* argo_mem_pool.c: the objects of a pool lie within their slab, the free list is
\* exactly what nobody holds, and get fails for want of a slab only when all
\* objects are in use.
MemPoolSound ==
    /\ Mem!SlabHoldsObjects /\ Mem!FreeListExact
    /\ which = "mem" => Mem!NullOnlyWhenExhausted

\* argo_test_mem_pool.c: what a test wrote into an object stays there.
TestsKeepTheirObjects == MemTest!TestsKeepTheirObjects

\* dinphilo.c: every philosopher gets to eat and leaves.
PhilEverybodyEats == which = "phil" ~> \A i \in Philosophers : pc[i] = "done"

\* condvar.c: main joins all three threads: the one signal is not lost,
\* whenever the watcher starts and however it wakes.
CondMainCompletes == which = "cond" ~> joined = 3

\* async_read_write.c: what is handed to write is the whole file, and the copy is
\* the file if write took it all and the copy was not longer before.
AioCopyIsWhole == Aio!CopyIsWhole

\* driver_ioctl.c: a torn pair goes no further than the calls that overlapped, and
\* only a failing cdev_add leaves a resource, the region, behind.
IoctlPairsAreWhole == Ioctl!PairsAreWhole

==============================================================================
