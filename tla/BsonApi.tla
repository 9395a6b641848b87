------------------------------- MODULE BsonApi -------------------------------
(***************************************************************************)
(* src/serialization/bson_api (bson_api.c): values, documents, and the     *)
(* serialisation of documents, on top of libbson.                          *)
(*                                                                         *)
(* The caller has one variable of each kind the API fills in: a value, an  *)
(* array of values, an array of elements, a document, an array of          *)
(* documents, a buffer and a json string.  As the comments of the API ask, *)
(* it frees what it was given before it reuses the variable, and ignores   *)
(* what a call that failed left there.  heap counts the blocks that are    *)
(* allocated; a document is two, the bson_t and its bytes.                 *)
(*                                                                         *)
(* Serialised bytes are a sequence of tokens: the length, the elements and *)
(* the terminator of each document.  libbson aborts when it has no memory, *)
(* so what the code takes from it unchecked succeeds here; bson_append     *)
(* fails on a document grown too large, at any element.  The two calls of  *)
(* strdup, which the code does not check either, succeed too.              *)
(***************************************************************************)
EXTENDS Integers, Sequences, FiniteSets, SequencesExt

CONSTANTS
    BSON_ARRAY_SIZE,   \* the first size of the array of documents read, 4 in the code
    NumberTypes,       \* of "int32", "int64" and "double"
    Scalars,           \* the numbers and strings the caller uses
    MaxElements,       \* bound: elements of an array or a document
    MaxDocs            \* bound: documents written to one buffer
\* Three more bounds: a nested value holds no nested value; the caller fills a
\* buffer while it holds no array and no json string; and it starts no read
\* after a read that lost blocks.

NULL == "NULL"

VARIABLES
    val,       \* a bson_value_t
    vals,      \* an array of values; its block exists when it is not empty
    elems,     \* an array of elements, likewise
    bdoc,      \* a bson_t *: [is |-> NULL, "live" or "dangling", of |-> its elements]
    docs,      \* an array of documents; its block exists when it is not empty
    buf,       \* a buffer: [is, of |-> its bytes]
    written,   \* history: the documents last written to the buffer
    json,      \* whether the caller has a json string
    reading,   \* a call of bson_read_from_buffer: its position, array size and limit
    heap       \* the number of blocks allocated

vars == <<val, vals, elems, bdoc, docs, buf, written, json, reading, heap>>
\* The variables the actions on a buffer leave alone, and the others.
values == <<val, vals, elems>>
buffer == <<buf, written>>

Value(type, scalar, data) == [type |-> type, scalar |-> scalar, data |-> data]
Unset == Value("none", NULL, <<>>)
Nested(v) == v.type \in {"array", "document"}
Owns(v) == v.type \in {"utf8", "array", "document"}
Blocks(v) == IF Owns(v) THEN 1 ELSE 0
Element(key, v) == [key |-> key, val |-> v]
\* The blocks of an array of values, and of one of elements: a key each.
ValueBlocks(vs) == Cardinality({i \in 1..Len(vs) : Owns(vs[i])})
ElementBlocks(es) == Len(es) + Cardinality({i \in 1..Len(es) : Owns(es[i].val)})
Pointer(is, of) == [is |-> is, of |-> of]
NotReading(ret) == [at |-> "idle", pos |-> 0, size |-> 0, limit |-> 0, ret |-> ret]

\* libbson's layout of a document, and of several in a row.
Token(t, n, e) == [t |-> t, n |-> n, e |-> e]
NoElement == Element(NULL, Unset)
Encode(d) ==
    <<Token("length", Len(d) + 2, NoElement)>>
      \o [i \in 1..Len(d) |-> Token("element", 0, d[i])]
      \o <<Token("end", 0, NoElement)>>
Decode(bytes) == [i \in 1..bytes[1].n - 2 |-> bytes[i + 1].e]
EncodeAll(ds) == FlattenSeq([i \in 1..Len(ds) |-> Encode(ds[i])])

\* bson_value_set_array numbers the values of an array; get_array drops the numbers.
AsDoc(vs) == [i \in 1..Len(vs) |-> Element(ToString(i - 1), vs[i])]
ValuesOf(d) == [i \in 1..Len(d) |-> d[i].val]

Init ==
    /\ val = Unset /\ vals = <<>> /\ elems = <<>>
    /\ bdoc = Pointer(NULL, <<>>) /\ docs = <<>> /\ buf = Pointer(NULL, <<>>) /\ written = <<>>
    /\ json = FALSE
    /\ reading = NotReading(0)
    /\ heap = 0

Idle == reading.at = "idle"
Reading == reading.at = "reading"
NoBuffer == docs = <<>> /\ buf.is = NULL
Apart == vals = <<>> /\ elems = <<>> /\ ~json

SetVal(v, blocks) ==
    /\ Idle /\ Blocks(val) = 0
    /\ val' = v
    /\ heap' = heap + blocks
    /\ UNCHANGED <<vals, elems, bdoc, docs, buffer, json, reading>>

bson_value_set_number(type, x) == SetVal(Value(type, x, <<>>), 0)
bson_value_set_str(x) == SetVal(Value("utf8", x, <<>>), 1)

\* A value is set from a serialised document: one block, the buffer.
SetNested(type, d) ==
    /\ NoBuffer
    /\ \A i \in 1..Len(d) : ~Nested(d[i].val)
    /\ SetVal(Value(type, NULL, Encode(d)), 1)

\* A call that fails: what it allocated and what its error path frees.  A NULL
\* argument is refused before anything is allocated.
Fails(allocated, freed) ==
    /\ Idle
    /\ heap' = heap + allocated - freed
    /\ UNCHANGED <<values, bdoc, docs, buffer, json, reading>>

\* Bug: the document made for the array is not destroyed when writing fails.
bson_value_set_array_leaks ==
    /\ vals # <<>>
    /\ \/ SetNested("array", AsDoc(vals))
       \/ Blocks(val) = 0 /\ (Fails(2, 2) \/ Fails(2 + 1, 1))

\* The values go through a document of their own, destroyed on every path: when
\* an append fails, and when bson_write_to_buffer, which frees its buffer, does.
bson_value_set_array ==
    /\ vals # <<>>
    /\ \/ SetNested("array", AsDoc(vals))
       \/ Blocks(val) = 0 /\ (Fails(2, 2) \/ Fails(2 + 1, 1 + 2))

bson_value_set_doc ==
    /\ bdoc.is = "live"
    /\ \/ SetNested("document", bdoc.of)
       \/ Blocks(val) = 0 /\ Fails(1, 1)

\* An empty array leaves arr_vals as it was.
bson_value_get_array ==
    /\ Idle /\ val.type = "array" /\ vals = <<>> /\ NoBuffer
    /\ LET got == ValuesOf(Decode(val.data))
       IN  \/ /\ vals' = got
              /\ heap' = heap + (IF got = <<>> THEN 0 ELSE 1 + ValueBlocks(got))
              /\ UNCHANGED <<val, elems, bdoc, docs, buffer, json, reading>>
           \/ got # <<>> /\ Fails(0, 0)

bson_value_get_doc ==
    /\ Idle /\ Nested(val) /\ bdoc.is # "live"
    /\ bdoc' = Pointer("live", Decode(val.data))
    /\ heap' = heap + 2
    /\ UNCHANGED <<values, docs, buffer, json, reading>>

bson_value_free ==
    /\ Idle /\ val.type # "none"
    /\ val' = Unset
    /\ heap' = heap - Blocks(val)
    /\ UNCHANGED <<vals, elems, bdoc, docs, buffer, json, reading>>

\* The caller moves its value to the end of its array, and frees the array.
PutValue ==
    /\ Idle /\ Len(vals) < MaxElements /\ NoBuffer
    /\ val.type # "none"
    /\ vals' = Append(vals, val)
    /\ val' = Unset
    /\ heap' = IF vals = <<>> THEN heap + 1 ELSE heap
    /\ UNCHANGED <<elems, bdoc, docs, buffer, json, reading>>

FreeValues ==
    /\ Idle /\ vals # <<>>
    /\ vals' = <<>>
    /\ heap' = heap - 1 - ValueBlocks(vals)
    /\ UNCHANGED <<val, elems, bdoc, docs, buffer, json, reading>>

\* bson_doc_create from ecount elements.  When an append fails the document is
\* destroyed and the caller's pointer still points to it.
bson_doc_create(ecount) ==
    /\ Idle /\ bdoc.is # "live" /\ val.type # "none"
    /\ \/ /\ bdoc' = Pointer("live", [i \in 1..ecount |-> Element(ToString(i), val)])
          /\ heap' = heap + 2
       \/ /\ ecount > 0
          /\ bdoc' = Pointer("dangling", <<>>)
          /\ UNCHANGED heap
    /\ UNCHANGED <<values, docs, buffer, json, reading>>

\* An empty document leaves earr as it was; each key and value is copied.
bson_doc_get_elements ==
    /\ Idle /\ bdoc.is = "live" /\ elems = <<>> /\ NoBuffer
    /\ \/ /\ elems' = bdoc.of
          /\ heap' = heap + (IF bdoc.of = <<>> THEN 0 ELSE 1 + ElementBlocks(bdoc.of))
          /\ UNCHANGED <<val, vals, bdoc, docs, buffer, json, reading>>
       \/ bdoc.of # <<>> /\ Fails(0, 0)

\* The caller frees the keys, the values and the array (print_bson_elements).
FreeElements ==
    /\ Idle /\ elems # <<>>
    /\ elems' = <<>>
    /\ heap' = heap - 1 - ElementBlocks(elems)
    /\ UNCHANGED <<val, vals, bdoc, docs, buffer, json, reading>>

bson_doc_destroy ==
    /\ Idle /\ bdoc.is = "live"
    /\ bdoc' = Pointer(NULL, <<>>)
    /\ heap' = heap - 2
    /\ UNCHANGED <<values, docs, buffer, json, reading>>

bson_to_json ==
    /\ Idle /\ bdoc.is = "live" /\ ~json /\ NoBuffer
    /\ \/ /\ json' = TRUE /\ heap' = heap + 1
          /\ UNCHANGED <<values, bdoc, docs, buffer, reading>>
       \/ Fails(0, 0)

FreeJson ==
    /\ Idle /\ json
    /\ json' = FALSE
    /\ heap' = heap - 1
    /\ UNCHANGED <<values, bdoc, docs, buffer, reading>>

\* The caller collects documents in an array, and destroys it.
PutDoc ==
    /\ Idle /\ Apart /\ bdoc.is = "live" /\ buf.is = NULL /\ Len(docs) < MaxDocs
    /\ docs' = Append(docs, bdoc.of)
    /\ bdoc' = Pointer(NULL, <<>>)
    /\ heap' = IF docs = <<>> THEN heap + 1 ELSE heap
    /\ UNCHANGED <<values, buffer, json, reading>>

DestroyDocs ==
    /\ Idle /\ docs # <<>>
    /\ docs' = <<>>
    /\ heap' = heap - 1 - 2 * Len(docs)
    /\ UNCHANGED <<values, bdoc, buffer, json, reading>>

\* Bug: each document is written at the start of the buffer.
bson_buffer_write_over(ds) == Encode(Last(ds))

\* bson_buffer_write copies document after document, each element by element.
bson_buffer_write(ds) == EncodeAll(ds)

\* On every error the buffer is freed and the pointer cleared.
bson_write_to_buffer ==
    /\ Idle /\ docs # <<>> /\ buf.is = NULL
    /\ \/ /\ buf' = Pointer("live", bson_buffer_write(docs))
          /\ written' = docs
          /\ heap' = heap + 1
          /\ UNCHANGED <<values, bdoc, docs, json, reading>>
       \/ Fails(1, 1)

FreeBuf ==
    /\ Idle /\ buf.is = "live"
    /\ buf' = Pointer(NULL, <<>>)
    /\ written' = <<>>
    /\ heap' = heap - 1
    /\ UNCHANGED <<values, bdoc, docs, json, reading>>

\* The blocks the caller can reach and will free.
Reachable ==
    Blocks(val)
      + (IF vals = <<>> THEN 0 ELSE 1 + ValueBlocks(vals))
      + (IF elems = <<>> THEN 0 ELSE 1 + ElementBlocks(elems))
      + (IF bdoc.is = "live" THEN 2 ELSE 0)
      + (IF docs = <<>> /\ Idle THEN 0 ELSE 1 + 2 * Len(docs))
      + (IF buf.is = "live" THEN 1 ELSE 0)
      + (IF json THEN 1 ELSE 0)

\* bson_read_from_buffer begins: the array is allocated first.  buf_len may be
\* anything up to the length of the buffer (a file or a message cut short).
ReadBegin(limit) ==
    /\ Idle /\ buf.is = "live" /\ docs = <<>> /\ heap = Reachable
    /\ \/ /\ reading' = [at |-> "reading", pos |-> 0, size |-> BSON_ARRAY_SIZE, limit |-> limit, ret |-> 0]
          /\ heap' = heap + 1
          /\ UNCHANGED <<values, bdoc, docs, buffer, json>>
       \/ Fails(0, 0)

\* bson_reader_read: the next document, when it is there to its end.
NextLength == buf.of[reading.pos + 1].n
HasNext == reading.pos < reading.limit /\ reading.pos + NextLength <= reading.limit

\* The array is doubled as soon as it is full.
Grows(len, size) == len >= size

\* One turn of the loop of read_and_alloc_bson_array.
ReadDoc ==
    /\ Reading /\ HasNext
    /\ docs' = Append(docs, Decode(SubSeq(buf.of, reading.pos + 1, reading.limit)))
    /\ reading' = [reading EXCEPT
                     !.pos = @ + NextLength,
                     !.size = IF Grows(Len(docs'), @) THEN 2 * @ ELSE @]
    /\ heap' = heap + 2
    /\ UNCHANGED <<values, bdoc, buffer, json>>

\* The realloc that should double the array fails: the code stores the NULL it
\* got in *doc_arr and then walks the array.
ReadGrowFails ==
    /\ Reading /\ HasNext
    /\ Grows(Len(docs) + 1, reading.size)
    /\ reading' = [reading EXCEPT !.at = "crashed"]
    /\ UNCHANGED <<values, bdoc, docs, buffer, json, heap>>

AtEof == reading.pos = reading.limit

\* get_parsed_len and the trim of the array.  On an error each document is
\* given to free(), which releases the bson_t and not its bytes.
ReadEnd ==
    /\ Reading /\ ~HasNext
    /\ \/ /\ AtEof
          /\ reading' = NotReading(0)
          /\ heap' = IF docs = <<>> THEN heap - 1 ELSE heap
          /\ UNCHANGED docs
       \/ /\ ~AtEof \/ docs # <<>>
          /\ reading' = NotReading(-1)
          /\ docs' = <<>>
          /\ heap' = heap - 1 - Len(docs)
    /\ UNCHANGED <<values, bdoc, buffer, json>>

ValueOps ==
    \/ \E x \in Scalars :
         \/ \E type \in NumberTypes : bson_value_set_number(type, x)
         \/ bson_value_set_str(x)
    \/ bson_value_set_array \/ bson_value_set_doc
    \/ bson_value_get_array \/ bson_value_get_doc
    \/ bson_value_free \/ PutValue \/ FreeValues
DocOps ==
    \/ \E n \in 0..MaxElements : bson_doc_create(n)
    \/ bson_doc_get_elements \/ FreeElements \/ bson_doc_destroy
    \/ bson_to_json \/ FreeJson \/ PutDoc \/ DestroyDocs
BufferOps ==
    \/ bson_write_to_buffer \/ FreeBuf
    \/ \E limit \in 0..Len(buf.of) : ReadBegin(limit)
    \/ ReadDoc \/ ReadGrowFails \/ ReadEnd

Next == ValueOps \/ DocOps \/ BufferOps

Spec == Init /\ [][Next]_vars

-----------------------------------------------------------------------------
(* Properties *)

\* Whatever succeeds and whatever fails part of the way, no call loses a block or
\* frees one twice; only a read that fails with documents already read does,
\* because those go to free().
NothingLost ==
    heap' - Reachable' # heap - Reachable => Reading /\ reading'.ret < 0 /\ docs # <<>>

\* Reading gives back the documents that were written, as many of them as make
\* up exactly the bytes offered; bytes that end inside a document are an error,
\* never a shorter result.
ReadsBack ==
    Reading /\ Idle' /\ reading'.ret = 0 =>
        /\ IsPrefix(docs', written)
        /\ Len(EncodeAll(docs')) = reading.limit

==============================================================================
