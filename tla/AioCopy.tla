------------------------------- MODULE AioCopy -------------------------------
(***************************************************************************)
(* system/aio/async_read_write.c copies a file: main submits the first     *)
(* asynchronous read, and the callback of each read, which runs in a       *)
(* thread of its own, enlarges the buffer when little room is left and     *)
(* submits the next.  A read of 0 bytes is taken for the end of the file   *)
(* and the buffer is written over what the copy held before.  The unit of  *)
(* length is REALLOC_THRESHOLD bytes; the content of the buffer and of the *)
(* copy is a sequence of file positions, with 0 for a byte of the old copy.*)
(***************************************************************************)
EXTENDS Naturals, Sequences

CONSTANTS
    ALLOC_SIZE,     \* first size of the buffer
    REALLOC_THRESHOLD,
    FileLengths,    \* lengths of the file that is copied
    OldLengths      \* lengths of the copy before, 0 where there is none

VARIABLES
    aio,            \* "new", "reading", "read", "exited" or "ended"
    flen, old,      \* length of the file, and of the copy before
    content,        \* content of the buffer, buf_len being its length
    buf_size,
    aio_offset, aio_nbytes,     \* of the read that was submitted
    aio_ret,        \* what the read returned
    checks,         \* aio_error calls that follow a submission and are pending
    written,        \* the bytes that write took
    copy            \* content of the copy

vars == <<aio, flen, old, content, buf_size, aio_offset, aio_nbytes, aio_ret, checks, written, copy>>

MaxChecks == 2
Failed == 0 - 1

Init ==
    /\ aio = "new" /\ flen \in FileLengths /\ old \in OldLengths
    /\ content = <<>> /\ buf_size = ALLOC_SIZE
    /\ aio_offset = 0 /\ aio_nbytes = 0 /\ aio_ret = 0 /\ checks = 0
    /\ written = 0 /\ copy = [i \in 1 .. old |-> 0]

Exit ==
    /\ aio' = "exited"
    /\ UNCHANGED <<flen, old, content, buf_size, aio_offset, aio_nbytes, aio_ret, checks, written, copy>>

\* main: open and aio_read, either of which may fail.
Main ==
    /\ aio = "new"
    /\ \/ /\ aio' = "reading" /\ aio_nbytes' = buf_size /\ checks' = 1
          /\ UNCHANGED <<flen, old, content, buf_size, aio_offset, aio_ret, written, copy>>
       \/ Exit

\* The read completes: some of the bytes that were asked for and are there.
Complete ==
    /\ aio = "reading"
    /\ aio' = "read"
    /\ aio_ret' \in {n \in 0 .. aio_nbytes :
                       /\ aio_offset + n <= flen
                       /\ n = 0 => aio_nbytes = 0 \/ aio_offset = flen} \cup {Failed}
    /\ UNCHANGED <<flen, old, content, buf_size, aio_offset, aio_nbytes, checks, written, copy>>

\* aio_error, called after a submission by main or by a callback, reports on
\* whatever the control block is by then: only an error of its own ends it.
AioError ==
    /\ checks > 0 /\ aio \in {"reading", "read", "ended"}
    /\ \/ /\ checks' = checks - 1
          /\ UNCHANGED <<aio, flen, old, content, buf_size, aio_offset, aio_nbytes, aio_ret, written, copy>>
       \/ aio_ret = Failed /\ Exit

\* Bug: the buffer is never enlarged.
NeedsRoom_never(len) == FALSE

\* Whether the buffer is doubled.
NeedsRoom(len) == buf_size - len <= REALLOC_THRESHOLD

CallbackData ==
    /\ aio = "read" /\ aio_ret > 0 /\ checks < MaxChecks
    /\ content' = content \o [i \in 1 .. aio_ret |-> aio_offset + i]
    /\ buf_size' = IF NeedsRoom(Len(content')) THEN 2 * buf_size ELSE buf_size
    /\ \/ /\ aio_offset' = Len(content')
          /\ aio_nbytes' = buf_size' - Len(content')
          /\ aio' = "reading" /\ checks' = checks + 1
       \/ aio' = "exited" /\ UNCHANGED <<aio_offset, aio_nbytes, checks>>
    /\ UNCHANGED <<flen, old, aio_ret, written, copy>>

\* The file s with its first n bytes overwritten by those of the buffer; it is not
\* truncated.
Overwritten(s, n) ==
    [i \in 1 .. (IF n > Len(s) THEN n ELSE Len(s)) |-> IF i <= n THEN content[i] ELSE s[i]]

\* read_callback after 0 bytes: the copy is opened, or exit, and written.  A write
\* that takes less than the buffer, or nothing because it fails, is only reported.
CallbackEof ==
    /\ aio = "read" /\ aio_ret = 0
    /\ \/ /\ aio' = "ended"
          /\ written' \in 0 .. Len(content)
          /\ copy' = Overwritten(copy, written')
          /\ UNCHANGED <<flen, old, content, buf_size, aio_offset, aio_nbytes, aio_ret, checks>>
       \/ Exit

\* read_callback after an error: a message, and nothing is copied.
CallbackError ==
    /\ aio = "read" /\ aio_ret = Failed
    /\ aio' = "ended"
    /\ UNCHANGED <<flen, old, content, buf_size, aio_offset, aio_nbytes, aio_ret, checks, written, copy>>

read_callback == CallbackData \/ CallbackEof \/ CallbackError

Next == Main \/ Complete \/ AioError \/ read_callback

-----------------------------------------------------------------------------
(* Properties *)

\* async_read_write.c: the buffer has room for every read, so that 0 only ever
\* means the end of the file, and what is then handed to write is the whole file in
\* order.  The copy begins with what write took of it, and is the file if that was
\* all and the copy was not longer before.
CopyIsWhole ==
    /\ aio = "reading" => aio_nbytes > 0 /\ Len(content) + aio_nbytes <= buf_size
    /\ \A i \in 1 .. written : copy[i] = i
    /\ aio = "ended" /\ aio_ret = 0 =>
          /\ content = [i \in 1 .. flen |-> i]
          /\ written = flen /\ old <= flen => copy = content

==============================================================================
