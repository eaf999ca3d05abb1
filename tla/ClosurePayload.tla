--------------------------- MODULE ClosurePayload ---------------------------
(***************************************************************************)
(* The closures packed into the extension's resource: checking the payload *)
(* and taking it apart into records, before any of it reaches a VM.        *)
(*                                                                         *)
(* The payload is a magic word, a version and a count of records, then the *)
(* records: an identifier, the size of the name, the size of the stream,   *)
(* the name and the stream.  Every byte is read at most once on the way to *)
(* a verdict, so what the payload holds is chosen when it is read; only    *)
(* its size is fixed from the beginning.  Sizes and offsets are unsigned   *)
(* integers that wrap at Limit.                                            *)
(***************************************************************************)
EXTENDS Integers, Sequences

CONSTANTS
    Limit,         \* sizes are smaller: the modulus of size_t
    Word,          \* bytes of an unsigned integer in the payload
    MaxPayload,    \* kMaximumPayloadBytes
    Count,         \* kExpectedClosureCount
    MaxName,       \* kMaximumNameBytes
    MinStream,     \* the 32 bytes a stream has at least
    MaxStream,     \* kMaximumStreamBytes
    Ids,           \* identifiers of closures
    NameLength     \* bytes of the name made from an identifier

Sizes == 0 .. Limit - 1

ASSUME SizesAssumption ==
    /\ Limit \in Nat /\ Word \in Nat \ {0}
    /\ MaxPayload \in Nat /\ MaxPayload < Limit
    /\ 3 * Word < Limit
    /\ Count \in Nat /\ MaxName \in Nat
    /\ MinStream \in Nat /\ MaxStream \in Nat
    /\ NameLength \in [Ids -> Nat]

VARIABLES
    state,         \* where the installation is
    size,          \* bytes of the payload
    offset,        \* of the next byte to parse
    records,       \* what has been parsed
    next,          \* the record whose stream is loaded next
    cursor,        \* how much of that stream the VM has read
    read,          \* history: everything before it may have been read
    claimed,       \* history: the bytes the headers seen so far account for
    sound          \* history: whether all that was read keeps to the format

vars == <<state, size, offset, records, next, cursor, read, claimed, sound>>

Sub(a, b) == IF b <= a THEN a - b ELSE a - b + Limit

Larger(a, b) == IF a < b THEN b ELSE a

Init ==
    /\ state = "open" /\ size \in Sizes
    /\ offset = 0 /\ records = <<>> /\ next = 1 /\ cursor = 0
    /\ read = 0 /\ claimed = 0 /\ sound = TRUE

-----------------------------------------------------------------------------
\* ReadU32: whether a word can be read at an offset.
ReadU32(at) == at <= size /\ Sub(size, at) >= Word

\* What the reads of three words in a row have read.
ReadThree(at) ==
    IF ~ReadU32(at) THEN at
    ELSE IF ~ReadU32(at + Word) THEN at + Word
    ELSE IF ~ReadU32(at + 2 * Word) THEN at + 2 * Word
    ELSE at + 3 * Word

\* The size, the magic, the version and the count.
Reject ==
    /\ state' = "rejected"
    /\ UNCHANGED <<size, offset, records, next, cursor>>

OpenPayload ==
    /\ state = "open"
    /\ \/ /\ size < 3 * Word \/ size > MaxPayload
          /\ Reject /\ sound' = FALSE /\ UNCHANGED <<read, claimed>>
       \/ /\ size >= 3 * Word /\ size <= MaxPayload
          /\ read' = 3 * Word /\ claimed' = 3 * Word
          /\ \/ Reject /\ sound' = FALSE
             \/ /\ state' = "parsing" /\ offset' = 3 * Word
                /\ UNCHANGED <<size, records, next, cursor, sound>>

\* Mutant of StreamFits: the last byte cannot be used.
StreamFitsLoosely(stream, left) == stream < left

\* A stream may fill what is left behind the name.
StreamFits(stream, left) == stream <= left

\* ReadRecordHeader, without what it reads.
HeaderAccepted(name, stream) ==
    LET at == offset + 3 * Word
    IN  /\ \A k \in 0 .. 2 : ReadU32(offset + k * Word)
        /\ name > 0 /\ name <= MaxName
        /\ stream >= MinStream /\ stream <= MaxStream
        /\ at <= size /\ name <= Sub(size, at)
        /\ StreamFits(stream, Sub(Sub(size, at), name))

\* A header that keeps to the format, wherever the payload ends.
HeaderSound(name, stream) ==
    name \in 1 .. MaxName /\ stream \in MinStream .. MaxStream

RejectHeader(name, stream) ==
    /\ state = "parsing" /\ Len(records) < Count
    /\ ~HeaderAccepted(name, stream)
    /\ Reject
    /\ read' = Larger(read, ReadThree(offset))
    /\ claimed' = claimed + 3 * Word + name + stream
    /\ sound' = (sound /\ HeaderSound(name, stream))

\* The name is not the one made from the identifier.
RejectName(name, stream) ==
    /\ state = "parsing" /\ Len(records) < Count
    /\ HeaderAccepted(name, stream)
    /\ Reject
    /\ read' = Larger(read, offset + 3 * Word + name)
    /\ claimed' = claimed + 3 * Word + name + stream
    /\ sound' = FALSE

Record(name, stream) ==
    [at |-> offset + 3 * Word, name |-> name,
     stream |-> offset + 3 * Word + name, bytes |-> stream]

TakeRecord(id, name, stream) ==
    /\ state = "parsing" /\ Len(records) < Count
    /\ HeaderAccepted(name, stream) /\ name = NameLength[id]
    /\ records' = Append(records, Record(name, stream))
    /\ offset' = offset + 3 * Word + name + stream
    /\ read' = Larger(read, offset + 3 * Word + name)
    /\ claimed' = claimed + 3 * Word + name + stream
    /\ UNCHANGED <<state, size, next, cursor, sound>>

\* Mutant of AtEnd: what follows the records does not matter.
AtAnyEnd == TRUE

AtEnd == offset = size

EndParsing ==
    /\ state = "parsing" /\ Len(records) = Count
    /\ state' = IF AtEnd THEN "installing" ELSE "rejected"
    /\ UNCHANGED <<size, offset, records, next, cursor, read, claimed, sound>>

\* A closure the VM already has is passed over; when the VM has gone, the rest
\* is left for another attempt.
PassOver ==
    /\ state = "installing" /\ next <= Count
    /\ \/ next' = next + 1 /\ UNCHANGED state
       \/ state' = "done" /\ UNCHANGED next
    /\ UNCHANGED <<size, offset, records, cursor, read, claimed, sound>>

LoadClosure ==
    /\ state = "installing" /\ next <= Count
    /\ state' = "reading" /\ cursor' = 0
    /\ UNCHANGED <<size, offset, records, next, read, claimed, sound>>

\* Mutant of Unread: what has been read is not counted.
AllBytes == records[next].bytes

Unread == Sub(records[next].bytes, cursor)

\* The VM asks for parts of the stream, of any size; it gets those that are
\* still there.
ReadSerializedClosure(requested) ==
    /\ state = "reading" /\ requested <= Unread
    /\ cursor' = cursor + requested
    /\ read' = Larger(read, records[next].stream + cursor + requested)
    /\ UNCHANGED <<state, size, offset, records, next, claimed, sound>>

\* The VM must have made a closure, and read all of its stream.
EndClosure ==
    /\ state = "reading"
    /\ \/ /\ cursor = records[next].bytes
          /\ state' = "installing" /\ next' = next + 1
       \/ state' = "done" /\ UNCHANGED next
    /\ UNCHANGED <<size, offset, records, cursor, read, claimed, sound>>

EndInstalling ==
    /\ state = "installing" /\ next > Count
    /\ state' = "done"
    /\ UNCHANGED <<size, offset, records, next, cursor, read, claimed, sound>>

-----------------------------------------------------------------------------
Next ==
    \/ OpenPayload \/ EndParsing \/ EndInstalling
    \/ PassOver \/ LoadClosure \/ EndClosure
    \/ \E requested \in Sizes : ReadSerializedClosure(requested)
    \/ \E name, stream \in Sizes :
          \/ RejectHeader(name, stream) \/ RejectName(name, stream)
          \/ \E id \in Ids : TakeRecord(id, name, stream)

Spec == Init /\ [][Next]_vars

-----------------------------------------------------------------------------
RecordType == [at : Nat, name : Nat, stream : Nat, bytes : Nat]

TypeOK ==
    /\ state \in {"open", "parsing", "installing", "reading", "rejected",
                  "done"}
    /\ size \in Sizes /\ offset \in Sizes /\ records \in Seq(RecordType)
    /\ next \in Nat \ {0} /\ cursor \in Nat
    /\ read \in Nat /\ claimed \in Nat /\ sound \in BOOLEAN

\* Nothing outside the payload is read, neither by the parser nor by the VM
\* that is given the streams, whatever the payload holds and wherever it ends.
ReadsStayInside == read <= size

\* The records taken so far lie one after the other, and the last ends here.
Tile(end) ==
    LET before(i) == IF i = 1 THEN 3 * Word
                     ELSE records[i - 1].stream + records[i - 1].bytes
    IN  /\ \A i \in 1 .. Len(records) :
              /\ records[i].at = before(i) + 3 * Word
              /\ records[i].stream = records[i].at + records[i].name
        /\ end = before(Len(records) + 1)

\* Loading begins only when the records cover the payload without a gap and
\* without sharing a byte: each begins where the one before it ended.
RecordsTile ==
    state \in {"installing", "reading", "done"} =>
        Len(records) = Count /\ Tile(size)

\* A payload that is turned down has something wrong with it: a header or a
\* name that does not keep to the format, or records that do not end where the
\* payload ends.
RejectedForCause ==
    state = "rejected" =>
        ~sound \/ claimed > size \/ (Len(records) = Count /\ claimed # size)

-----------------------------------------------------------------------------
(* The inductive invariant.                                                *)

\* While the payload is parsed, the offset is where the records seen so far
\* end, and nothing further has been read.
ParsingInv ==
    state = "parsing" =>
        /\ sound /\ claimed = offset /\ read <= offset
        /\ 3 * Word <= offset /\ offset <= size /\ size <= MaxPayload
        /\ Len(records) <= Count /\ Tile(offset)

OpenInv == state = "open" => sound /\ records = <<>>

\* The streams of the records lie in the payload.
StreamsInside ==
    \A i \in 1 .. Len(records) : records[i].stream + records[i].bytes <= size

CursorInv ==
    state = "reading" => next <= Count /\ cursor <= records[next].bytes

IInv ==
    /\ TypeOK /\ ReadsStayInside /\ RecordsTile /\ RejectedForCause
    /\ OpenInv /\ ParsingInv /\ StreamsInside /\ CursorInv
=============================================================================
