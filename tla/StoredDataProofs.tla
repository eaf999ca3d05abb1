-------------------------- MODULE StoredDataProofs --------------------------
(***************************************************************************)
(* What is read back from files: the payload of closures, which one        *)
(* release writes and every installation reads, and the numbers of the     *)
(* characters, which the clients read and write.                           *)
(*                                                                         *)
(* First, for any word size, limits and count of records, and any payload: *)
(* the inductive invariant of ClosurePayload and what follows from it.     *)
(* Then, for any clients, names and values: the inductive invariant of     *)
(* SkillDataStore, with the lemmas about keys, their order, and reading    *)
(* what was written that it rests on.                                      *)
(***************************************************************************)
EXTENDS ClosurePayload, SkillDataStore, SequenceTheorems, FiniteSetTheorems,
        WellFoundedInduction, TLAPS

-----------------------------------------------------------------------------
(* The payload of closures.                                                *)

\* A header that is accepted leaves room for its name and its stream.
LEMMA HeaderFits ==
    ASSUME TypeOK, state = "parsing", ParsingInv,
           NEW name \in Sizes, NEW stream \in Sizes,
           HeaderAccepted(name, stream)
    PROVE  /\ HeaderSound(name, stream)
           /\ offset + 3 * Word + name + stream <= size
<1> USE SizesAssumption DEF Sizes, Sub, TypeOK
<1>1. /\ ReadU32(offset) /\ ReadU32(offset + Word) /\ ReadU32(offset + 2 * Word)
    BY DEF HeaderAccepted, StreamFits
<1>2. offset + 3 * Word <= size
    BY <1>1 DEF ReadU32
<1>3. name <= size - (offset + 3 * Word)
    BY <1>2 DEF HeaderAccepted, StreamFits
<1>4. stream <= size - (offset + 3 * Word) - name
    BY <1>2, <1>3 DEF HeaderAccepted, StreamFits
<1> QED
    BY <1>2, <1>3, <1>4 DEF HeaderAccepted, HeaderSound, StreamFits

\* A header that is turned down although it keeps to the format has no room.
LEMMA RefusedHeader ==
    ASSUME TypeOK, state = "parsing", ParsingInv,
           NEW name \in Sizes, NEW stream \in Sizes,
           ~HeaderAccepted(name, stream), HeaderSound(name, stream)
    PROVE  offset + 3 * Word + name + stream > size
<1> USE SizesAssumption DEF Sizes, Sub, TypeOK
<1>1. SUFFICES ASSUME offset + 3 * Word + name + stream <= size
              PROVE  HeaderAccepted(name, stream)
    BY DEF ParsingInv, HeaderSound
<1>2. \A k \in 0 .. 2 : ReadU32(offset + k * Word)
    <2>1. ReadU32(offset) /\ ReadU32(offset + Word) /\ ReadU32(offset + 2 * Word)
        BY <1>1 DEF ReadU32
    <2> QED
        BY <2>1
<1> QED
    BY <1>1, <1>2 DEF HeaderAccepted, HeaderSound, StreamFits

\* What the three words of a header may have read is in the payload.
LEMMA HeaderReads ==
    ASSUME TypeOK, state = "parsing", ParsingInv
    PROVE  ReadThree(offset) \in Nat /\ ReadThree(offset) <= size
BY SizesAssumption DEF ReadThree, ReadU32, Sub, TypeOK, Sizes, ParsingInv

LEMMA OpenPreserves ==
    ASSUME IInv, OpenPayload
    PROVE  IInv'
<1> USE SizesAssumption DEF IInv
<1>1. /\ 3 * Word \in Nat /\ size \in Nat
      /\ UNCHANGED <<records, size, next, cursor>>
    BY DEF TypeOK, Sizes, OpenPayload, Reject
<1>2. \/ /\ state' = "rejected" /\ sound' = FALSE /\ offset' = offset
         /\ \/ UNCHANGED <<read, claimed>>
            \/ /\ read' = 3 * Word /\ claimed' = 3 * Word
               /\ 3 * Word <= size
      \/ /\ state' = "parsing" /\ sound' = sound /\ offset' = 3 * Word
         /\ read' = 3 * Word /\ claimed' = 3 * Word
         /\ 3 * Word <= size /\ size <= MaxPayload
    BY DEF OpenPayload, Reject
<1>3. TypeOK' /\ ReadsStayInside'
    <2>1. /\ offset' \in Sizes /\ read' \in Nat /\ claimed' \in Nat
          /\ read' <= size
        BY <1>1, <1>2 DEF TypeOK, Sizes, ReadsStayInside
    <2>2. sound' \in BOOLEAN
        BY <1>2 DEF TypeOK
    <2>3. state' \in {"rejected", "parsing"}
        BY <1>2
    <2> QED
        BY <1>1, <2>1, <2>2, <2>3 DEF TypeOK, ReadsStayInside
<1>4. RecordsTile' /\ RejectedForCause' /\ StreamsInside'
    BY <1>1, <1>2 DEF RecordsTile, RejectedForCause, StreamsInside
<1>5. records = <<>> /\ sound
    BY DEF OpenPayload, OpenInv, CursorInv
<1>6. ParsingInv'
    BY <1>1, <1>2, <1>5 DEF ParsingInv, Tile
<1>7. OpenInv' /\ CursorInv'
    BY <1>2 DEF OpenInv, CursorInv
<1> QED
    BY <1>3, <1>4, <1>6, <1>7

LEMMA RejectPreserves ==
    ASSUME IInv, NEW name \in Sizes, NEW stream \in Sizes,
           RejectHeader(name, stream) \/ RejectName(name, stream)
    PROVE  IInv'
<1> USE SizesAssumption DEF IInv
<1>1. CASE RejectHeader(name, stream)
    <2>1. ReadThree(offset) \in Nat /\ ReadThree(offset) <= size
        BY <1>1, HeaderReads DEF RejectHeader
    <2>2. HeaderSound(name, stream) =>
              offset + 3 * Word + name + stream > size
        BY <1>1, RefusedHeader DEF RejectHeader
    <2>3. TypeOK' /\ ReadsStayInside'
        BY <1>1, <2>1 DEF RejectHeader, Reject, TypeOK, ReadsStayInside, Larger,
            Sizes, HeaderSound
    <2>4. RejectedForCause'
        BY <1>1, <2>2 DEF RejectHeader, Reject, RejectedForCause, ParsingInv
    <2> QED
        BY <1>1, <2>3, <2>4 DEF RejectHeader, Reject, RecordsTile, ParsingInv,
            StreamsInside, OpenInv, CursorInv
<1>2. CASE RejectName(name, stream)
    <2>1. offset + 3 * Word + name + stream <= size
        BY <1>2, HeaderFits DEF RejectName
    <2> DEFINE end == offset + 3 * Word + name
    <2>2. /\ end \in Nat /\ end <= size /\ read' \in {read, end}
          /\ claimed' \in Nat /\ sound' = FALSE /\ state' = "rejected"
          /\ UNCHANGED <<size, offset, records, next, cursor>>
        BY <1>2, <2>1 DEF RejectName, Reject, TypeOK, Larger, Sizes
    <2>3. TypeOK' /\ ReadsStayInside'
        BY <2>2 DEF TypeOK, ReadsStayInside
    <2> QED
        BY <2>2, <2>3 DEF RecordsTile, ParsingInv, RejectedForCause,
            StreamsInside, OpenInv, CursorInv
<1> QED
    BY <1>1, <1>2

LEMMA TakePreserves ==
    ASSUME IInv, NEW id \in Ids, NEW name \in Sizes, NEW stream \in Sizes,
           TakeRecord(id, name, stream)
    PROVE  IInv'
<1>0. /\ TypeOK /\ ReadsStayInside /\ ParsingInv /\ StreamsInside
      /\ state = "parsing" /\ Len(records) < Count
      /\ HeaderAccepted(name, stream)
      /\ records' = Append(records, Record(name, stream))
      /\ offset' = offset + 3 * Word + name + stream
      /\ read' = Larger(read, offset + 3 * Word + name)
      /\ claimed' = claimed + 3 * Word + name + stream
      /\ UNCHANGED <<state, size, next, cursor, sound>>
    BY DEF IInv, TakeRecord
<1>1. offset + 3 * Word + name + stream <= size
    BY <1>0, HeaderFits
<1> DEFINE head == 3 * Word
           end == offset + head + name
<1>2. /\ head \in Nat /\ name \in Nat /\ stream \in Nat
      /\ offset \in Nat /\ size \in Nat /\ size < Limit /\ Limit \in Nat
      /\ read \in Nat /\ read <= size /\ claimed \in Nat
    BY <1>0, SizesAssumption DEF TypeOK, Sizes, ReadsStayInside
<1> HIDE DEF head
<1>3. /\ end \in Nat /\ end <= size
      /\ offset' = end + stream /\ end + stream <= size
      /\ read' \in {read, end} /\ claimed' \in Nat
    <2>1. /\ offset' = offset + head + name + stream
          /\ claimed' = claimed + head + name + stream
          /\ read' = Larger(read, offset + head + name)
          /\ offset + head + name + stream <= size
        BY <1>0, <1>1 DEF head
    <2>2. read' \in {read, end}
        BY <2>1 DEF Larger
    <2> QED
        BY <1>2, <2>1, <2>2
<1> HIDE DEF end
<1>4. /\ Record(name, stream) \in RecordType
      /\ Record(name, stream).at = offset + head
      /\ Record(name, stream).name = name
      /\ Record(name, stream).stream = end
      /\ Record(name, stream).bytes = stream
    BY <1>2, <1>3 DEF Record, RecordType, head, end
<1>5. TypeOK' /\ ReadsStayInside'
    <2>1. records' \in Seq(RecordType)
        BY <1>0, <1>4 DEF TypeOK
    <2>2. offset' \in Sizes /\ read' \in Nat /\ read' <= size'
        BY <1>0, <1>2, <1>3 DEF Sizes
    <2> QED
        BY <1>0, <1>3, <2>1, <2>2 DEF TypeOK, ReadsStayInside
<1>6. /\ Len(records') = Len(records) + 1 /\ Len(records) \in Nat
      /\ \A i \in 1 .. Len(records) : records'[i] = records[i]
      /\ records'[Len(records) + 1] = Record(name, stream)
    BY <1>0, <1>4 DEF TypeOK
<1>7. StreamsInside'
    <2>1. /\ records'[Len(records) + 1].stream + records'[Len(records) + 1].bytes
             <= size
        BY <1>3, <1>6, <1>4
    <2> QED
        BY <1>0, <1>6, <2>1 DEF StreamsInside
<1>8. Tile(offset)'
    <2> DEFINE before(i) == IF i = 1 THEN 3 * Word
                            ELSE records[i - 1].stream + records[i - 1].bytes
    <2> DEFINE after(i) == IF i = 1 THEN 3 * Word
                           ELSE records'[i - 1].stream + records'[i - 1].bytes
    <2>1. /\ offset = before(Len(records) + 1)
          /\ \A i \in 1 .. Len(records) :
                /\ records[i].at = before(i) + 3 * Word
                /\ records[i].stream = records[i].at + records[i].name
        BY <1>0 DEF ParsingInv, Tile
    <2>2. \A i \in 1 .. Len(records) + 1 : after(i) = before(i)
        BY <1>6
    <2>3. after(Len(records) + 2) = offset'
        <3>1. after(Len(records) + 2) = records'[Len(records) + 1].stream
                                      + records'[Len(records) + 1].bytes
            BY <1>6
        <3> QED
            BY <1>3, <1>6, <1>4, <3>1
    <2>4. \A i \in 1 .. Len(records) :
                /\ records'[i].at = after(i) + 3 * Word
                /\ records'[i].stream = records'[i].at + records'[i].name
        BY <1>6, <2>1, <2>2
    <2>5. /\ records'[Len(records) + 1].at = after(Len(records) + 1) + 3 * Word
          /\ records'[Len(records) + 1].stream =
                records'[Len(records) + 1].at + records'[Len(records) + 1].name
        BY <1>3, <1>6, <1>4, <2>1, <2>2 DEF end, head
    <2>6. \A i \in 1 .. Len(records') :
                /\ records'[i].at = after(i) + 3 * Word
                /\ records'[i].stream = records'[i].at + records'[i].name
        <3> HIDE DEF after
        <3>1. \A i \in 1 .. Len(records') : i \in 1 .. Len(records) \/ i = Len(records) + 1
            BY <1>6
        <3> QED
            BY <2>4, <2>5, <3>1
    <2>7. offset' = after(Len(records') + 1)
        BY <1>6, <2>3
    <2> QED
        BY <2>6, <2>7 DEF Tile
<1>9. ParsingInv'
    <2>1. /\ sound' /\ claimed' = offset'
        BY <1>0 DEF ParsingInv
    <2>2. read' <= offset' /\ offset' <= size' /\ Len(records') <= Count
        BY <1>0, <1>2, <1>3, <1>6, SizesAssumption DEF ParsingInv
    <2>3. 3 * Word <= offset' /\ size' <= MaxPayload
        BY <1>0, <1>2, <1>3 DEF ParsingInv, end, head
    <2> QED
        BY <1>8, <2>1, <2>2, <2>3 DEF ParsingInv
<1> QED
    BY <1>0, <1>7, <1>9, <1>5 DEF IInv, RecordsTile, RejectedForCause, OpenInv,
        CursorInv

LEMMA EndParsingPreserves ==
    ASSUME IInv, EndParsing
    PROVE  IInv'
<1> USE DEF IInv, EndParsing, AtEnd
<1>1. Tile(size)' <=> Tile(size)
    BY DEF Tile
<1>2. /\ TypeOK' /\ ReadsStayInside' /\ ParsingInv' /\ StreamsInside'
      /\ OpenInv' /\ CursorInv'
    BY DEF TypeOK, ReadsStayInside, ParsingInv, StreamsInside, OpenInv, CursorInv
<1>3. RecordsTile' /\ RejectedForCause'
    BY <1>1 DEF RecordsTile, RejectedForCause, ParsingInv
<1> QED
    BY <1>2, <1>3

LEMMA ReadPreserves ==
    ASSUME IInv, NEW requested \in Sizes, ReadSerializedClosure(requested)
    PROVE  IInv'
<1> DEFINE bytes == records[next].bytes
           stream == records[next].stream
<1>1. /\ next \in 1 .. Len(records) /\ bytes \in Nat /\ stream \in Nat
      /\ stream + bytes <= size /\ cursor <= bytes /\ cursor \in Nat
      /\ requested \in Nat /\ read \in Nat /\ read <= size /\ size \in Nat
    <2>1. next \in 1 .. Len(records) /\ cursor <= bytes
        BY SizesAssumption DEF IInv, ReadSerializedClosure, TypeOK, RecordsTile,
            CursorInv, Unread
    <2>2. bytes \in Nat /\ stream \in Nat
        <3>1. records \in Seq(RecordType)
            BY DEF IInv, TypeOK
        <3>2. records[next] \in RecordType
            BY <2>1, <3>1
        <3> QED
            BY <3>2 DEF RecordType
    <2>3. stream + bytes <= size
        BY <2>1 DEF IInv, StreamsInside
    <2> QED
        BY <2>1, <2>2, <2>3 DEF IInv, TypeOK, Sizes, ReadsStayInside
<1>2. requested <= bytes - cursor
    BY <1>1 DEF ReadSerializedClosure, Sub, Unread
<1> HIDE DEF bytes, stream
<1>3. /\ cursor' = cursor + requested
      /\ read' \in {read, stream + cursor + requested}
      /\ UNCHANGED <<state, size, offset, records, next, claimed, sound>>
    BY DEF ReadSerializedClosure, Larger, stream, Unread
<1>4. /\ cursor' \in Nat /\ cursor' <= bytes
      /\ read' \in Nat /\ read' <= size
    BY <1>1, <1>2, <1>3
<1>5. TypeOK' /\ ReadsStayInside' /\ CursorInv'
    BY <1>3, <1>4
        DEF IInv, TypeOK, ReadsStayInside, CursorInv, bytes
<1>6. ParsingInv'
    BY <1>3 DEF IInv, ReadSerializedClosure, ParsingInv, Unread
<1>7. /\ RecordsTile' /\ RejectedForCause' /\ StreamsInside' /\ OpenInv'
    BY <1>3 DEF IInv, RecordsTile, RejectedForCause, StreamsInside, OpenInv, Tile
<1> QED
    BY <1>5, <1>6, <1>7 DEF IInv

LEMMA LoadPreserves ==
    ASSUME IInv, PassOver \/ LoadClosure \/ EndClosure \/ EndInstalling
    PROVE  IInv'
<1> USE DEF IInv, PassOver, LoadClosure, EndClosure, EndInstalling
<1>1. Tile(size)' <=> Tile(size)
    BY DEF Tile
<1>2. TypeOK' /\ ReadsStayInside'
    BY DEF TypeOK, ReadsStayInside
<1>3. RecordsTile' /\ RejectedForCause' /\ ParsingInv' /\ StreamsInside'
    BY <1>1 DEF RecordsTile, RejectedForCause, ParsingInv, StreamsInside
<1>4. OpenInv'
    BY DEF OpenInv
<1>5. CursorInv'
    <2>1. CASE LoadClosure
        <3>1. records[next].bytes \in Nat
            <4>1. records \in Seq(RecordType) /\ next \in 1 .. Len(records)
                BY <2>1, SizesAssumption DEF TypeOK, RecordsTile
            <4>2. records[next] \in RecordType
                BY <4>1
            <4> QED
                BY <4>2 DEF RecordType
        <3> QED
            BY <2>1, <3>1 DEF CursorInv
    <2> QED
        BY <2>1 DEF CursorInv
<1> QED
    BY <1>2, <1>3, <1>4, <1>5

\* The inductive invariant: the offset is where the records so far end, and
\* their streams lie before it.
THEOREM PayloadInvariance == Spec => []IInv
<1>1. Init => IInv
    BY SizesAssumption
        DEF Init, IInv, TypeOK, Sizes, ReadsStayInside, RecordsTile,
            RejectedForCause, ParsingInv, StreamsInside, OpenInv, CursorInv
<1>2. IInv /\ [Next]_vars => IInv'
    <2> SUFFICES ASSUME IInv, [Next]_vars PROVE IInv'
        OBVIOUS
    <2>1. CASE Next
        BY <2>1, OpenPreserves, RejectPreserves, TakePreserves,
            EndParsingPreserves, ReadPreserves, LoadPreserves DEF Next
    <2>2. CASE UNCHANGED vars
        BY <2>2 DEF vars, IInv, TypeOK, ReadsStayInside, RecordsTile,
            RejectedForCause, ParsingInv, StreamsInside, Tile, OpenInv,
            CursorInv
    <2> QED
        BY <2>1, <2>2
<1> QED
    BY <1>1, <1>2, PTL DEF Spec

\* Neither the parser nor the VM reads outside the payload.
THEOREM ReadsInside == Spec => []ReadsStayInside
BY PayloadInvariance, PTL DEF IInv

\* Closures are only loaded from a payload that its records cover exactly.
THEOREM LoadedPayloadTiles == Spec => []RecordsTile
BY PayloadInvariance, PTL DEF IInv

\* A payload is only turned down when something is wrong with it.
THEOREM RejectionHasCause == Spec => []RejectedForCause
BY PayloadInvariance, PTL DEF IInv

-----------------------------------------------------------------------------
(* Keys and their order.                                                   *)

\* Every set of numbers has a smallest.
LEMMA Smallest ==
    ASSUME NEW S \in SUBSET Nat, S # {}
    PROVE  \E i \in S : \A j \in S : i <= j
<1> DEFINE upTo(n) == S \cap (0 .. n)
           Family == {upTo(n) : n \in S}
<1>1. Family \subseteq FiniteSubsetsOf(Nat) /\ Family # {}
    <2>1. ASSUME NEW n \in S
          PROVE  upTo(n) \in FiniteSubsetsOf(Nat)
        <3>1. IsFiniteSet(0 .. n)
            BY FS_Interval
        <3>2. IsFiniteSet(upTo(n))
            BY <3>1, FS_Subset
        <3> QED
            BY <3>2 DEF FiniteSubsetsOf
    <2> QED
        BY <2>1
<1>2. PICK T \in Family : \A U \in Family : <<U, T>> \notin StrictSubsetOrdering(Nat)
    <2>1. IsWellFoundedOn(StrictSubsetOrdering(Nat), FiniteSubsetsOf(Nat))
        BY FS_StrictSubsetOrderingWellFounded
    <2> HIDE DEF Family
    <2> QED
        BY <1>1, <2>1, WFMin
<1>3. PICK i \in S : T = upTo(i)
    OBVIOUS
<1>4. ASSUME NEW j \in S
      PROVE  i <= j
    <2>1. SUFFICES ASSUME j < i
                   PROVE  FALSE
        OBVIOUS
    <2>2. upTo(j) \subseteq upTo(i) /\ upTo(j) # upTo(i) /\ upTo(j) \in Family
        BY <2>1
    <2>3. <<upTo(j), upTo(i)>> \in StrictSubsetOrdering(Nat)
        BY <2>2 DEF StrictSubsetOrdering
    <2> QED
        BY <1>2, <1>3, <2>2, <2>3
<1> QED
    BY <1>4

\* The sequences put one behind the other are a sequence.
LEMMA Flattened ==
    ASSUME NEW ss \in Seq(Seq(Nat))
    PROVE  FlattenSeq(ss) \in Seq(Nat)
<1> DEFINE n == Len(ss)
           def(g, i) == IF i = 1 THEN ss[i] ELSE g[i - 1] \o ss[i]
           flatten == CHOOSE f : f = [i \in 1 .. n |-> def(f, i)]
<1>1. n \in Nat /\ \A i \in 1 .. n : ss[i] \in Seq(Nat)
    OBVIOUS
<1>2. CASE n = 0
    BY <1>2 DEF FlattenSeq
<1>3. CASE n # 0
    <2>1. FlattenSeq(ss) = flatten[n]
        BY <1>3 DEF FlattenSeq
    <2> DEFINE Solved(m) == \E g \in [1 .. m -> Seq(Nat)] :
                               \A i \in 1 .. m : g[i] = def(g, i)
               Unsolved == {m \in Nat : m <= n /\ ~Solved(m)}
    <2>2. Solved(0)
        <3>1. PICK g : g = [i \in 1 .. 0 |-> << >>]
            OBVIOUS
        <3>2. g \in [1 .. 0 -> Seq(Nat)] /\ \A i \in 1 .. 0 : FALSE
            BY <3>1
        <3> QED
            BY <3>2
    <2>3. ASSUME NEW m \in Nat, m < n, Solved(m)
          PROVE  Solved(m + 1)
        <3>1. PICK g \in [1 .. m -> Seq(Nat)] : \A i \in 1 .. m : g[i] = def(g, i)
            BY <2>3
        <3>2. m + 1 \in 1 .. n /\ ss[m + 1] \in Seq(Nat)
            BY <1>1, <2>3
        <3>3. PICK x \in Seq(Nat) : x = def(g, m + 1)
            <4>1. m # 0 => g[m] \in Seq(Nat)
                BY <3>1
            <4>2. CASE m = 0
                BY <3>2, <4>2
            <4>3. CASE m # 0
                <5>1. g[m] \o ss[m + 1] \in Seq(Nat)
                    BY <3>2, <4>1, <4>3, ConcatProperties
                <5>2. (m + 1) - 1 = m /\ m + 1 # 1
                    BY <4>3
                <5> QED
                    BY <5>1, <5>2
            <4> QED
                BY <4>2, <4>3
        <3>4. PICK h : h = [i \in 1 .. m + 1 |-> IF i <= m THEN g[i] ELSE x]
            OBVIOUS
        <3>5. /\ h \in [1 .. m + 1 -> Seq(Nat)] /\ h[m + 1] = x
              /\ \A i \in 1 .. m : h[i] = g[i]
            BY <3>1, <3>4
        <3>6. ASSUME NEW i \in 1 .. m + 1
              PROVE  h[i] = def(h, i)
            <4>1. CASE i = m + 1
                <5>1. CASE m = 0
                    BY <3>3, <3>5, <4>1, <5>1
                <5>2. CASE m # 0
                    <6>1. h[m] = g[m] /\ (m + 1) - 1 = m
                        BY <3>5, <5>2
                    <6> QED
                        BY <3>3, <3>5, <4>1, <5>2, <6>1
                <5> QED
                    BY <5>1, <5>2
            <4>2. CASE i # m + 1
                <5>1. i \in 1 .. m /\ (i # 1 => i - 1 \in 1 .. m)
                    BY <4>2
                <5> QED
                    BY <3>1, <3>5, <5>1
            <4> QED
                BY <4>1, <4>2
        <3> QED
            BY <3>5, <3>6
    <2>4. Solved(n)
        <3> HIDE DEF Solved
        <3>1. SUFFICES ASSUME ~Solved(n)
                       PROVE  FALSE
            OBVIOUS
        <3>2. n \in Unsolved /\ Unsolved \in SUBSET Nat
            BY <1>1, <3>1
        <3>3. PICK m \in Unsolved : \A k \in Unsolved : m <= k
            BY <3>2, Smallest
        <3>4. m # 0 /\ m - 1 \in Nat /\ m - 1 < n
            BY <1>1, <2>2, <3>3
        <3>5. Solved(m - 1)
            BY <3>3, <3>4
        <3> QED
            BY <2>3, <3>3, <3>4, <3>5
    <2>5. PICK g \in [1 .. n -> Seq(Nat)] : \A i \in 1 .. n : g[i] = def(g, i)
        BY <2>4
    <2>6. g = [i \in 1 .. n |-> def(g, i)]
        BY <2>5
    <2>7. flatten = [i \in 1 .. n |-> def(flatten, i)]
        BY <2>6
    <2> DEFINE Other == {i \in 1 .. n : flatten[i] \notin Seq(Nat)}
    <2>8. Other = {}
        <3> HIDE DEF flatten
        <3>1. SUFFICES ASSUME Other # {}
                       PROVE  FALSE
            OBVIOUS
        <3>2. Other \in SUBSET Nat
            BY <1>1
        <3>3. PICK i \in Other : \A j \in Other : i <= j
            BY <3>1, <3>2, Smallest
        <3>4. i \in 1 .. n /\ ss[i] \in Seq(Nat) /\ flatten[i] = def(flatten, i)
            BY <1>1, <2>7, <3>3
        <3>5. i # 1
            BY <3>3, <3>4
        <3>6. i - 1 \in 1 .. n /\ ~(i <= i - 1)
            BY <1>1, <3>4, <3>5
        <3>7. flatten[i - 1] \in Seq(Nat)
            BY <3>3, <3>6
        <3>8. flatten[i - 1] \o ss[i] \in Seq(Nat)
            BY <3>4, <3>7, ConcatProperties
        <3> QED
            BY <3>3, <3>4, <3>5, <3>8
    <2> HIDE DEF flatten
    <2>9. n \in 1 .. n
        BY <1>1, <1>3
    <2>10. flatten[n] \in Seq(Nat)
        BY <2>8, <2>9
    <2> QED
        BY <2>1, <2>10
<1> QED
    BY <1>2, <1>3

LEMMA KeysAreTexts == Keys \subseteq Seq(Nat) /\ IsFiniteSet(Keys)
<1>1. ASSUME NEW name \in Characters
      PROVE  KeyOf(name) \in Seq(Nat)
    <2>1. name \in Seq(0 .. 255) /\ Len(name) \in Nat /\ DOMAIN name = 1 .. Len(name)
        BY NamesAreBytes
    <2>2. \A i \in DOMAIN name : name[i] \in 0 .. 255
        BY <2>1, ElementOfSeq
    <2>3. \A n \in 0 .. 255 : n \div 16 \in 0 .. 15 /\ n % 16 \in 0 .. 15
        OBVIOUS
    <2>4. \A n \in 0 .. 15 : Decimal(n) \in Seq(Nat)
        BY DEF Decimal
    <2>5. ASSUME NEW byte \in 0 .. 255
          PROVE  Escaped(byte) \in Seq(Nat)
        <3>1. Decimal(byte \div 16) \in Seq(Nat) /\ Decimal(byte % 16) \in Seq(Nat)
            BY <2>3, <2>4
        <3>2. <<10>> \in Seq(Nat)
            OBVIOUS
        <3>3. <<10>> \o Decimal(byte \div 16) \in Seq(Nat)
            BY <3>1, <3>2, ConcatProperties
        <3>4. (<<10>> \o Decimal(byte \div 16)) \o Decimal(byte % 16) \in Seq(Nat)
            BY <3>1, <3>3, ConcatProperties
        <3> QED
            BY <3>4 DEF Escaped
    <2>6. [i \in DOMAIN name |-> Escaped(name[i])] \in [1 .. Len(name) -> Seq(Nat)]
        BY <2>1, <2>2, <2>5
    <2>7. [i \in DOMAIN name |-> Escaped(name[i])] \in Seq(Seq(Nat))
        BY <2>1, <2>6, SeqDef
    <2> QED
        BY <2>7, Flattened DEF KeyOf
<1>2. IsFiniteSet(Keys)
    <2>1. PICK f : f = [c \in Characters |-> KeyOf(c)]
        OBVIOUS
    <2>2. f \in Surjection(Characters, Keys)
        BY <2>1 DEF Surjection, Keys
    <2> QED
        BY <2>2, FS_Surjection, NamesAreBytes
<1> QED
    BY <1>1, <1>2 DEF Keys

\* The order of the keys is strict and total.
LEMMA BeforeIsOrder ==
    ASSUME NEW a \in Seq(Nat), NEW b \in Seq(Nat), NEW c \in Seq(Nat)
    PROVE  /\ ~Before(a, a)
           /\ a = b \/ Before(a, b) \/ Before(b, a)
           /\ Before(a, b) /\ Before(b, c) => Before(a, c)
<1>1. /\ Len(a) \in Nat /\ \A i \in 1 .. Len(a) : a[i] \in Nat
      /\ Len(b) \in Nat /\ \A i \in 1 .. Len(b) : b[i] \in Nat
      /\ Len(c) \in Nat /\ \A i \in 1 .. Len(c) : c[i] \in Nat
    OBVIOUS
<1>2. ~Before(a, a)
    BY <1>1 DEF Before
<1>3. a = b \/ Before(a, b) \/ Before(b, a)
    <2> DEFINE D == {i \in 1 .. Len(a) : i <= Len(b) /\ a[i] # b[i]}
    <2>1. CASE D = {}
        <3>1. \A i \in 1 .. Len(a) : i <= Len(b) => a[i] = b[i]
            BY <2>1
        <3>2. CASE Len(a) = Len(b)
            <4>1. a = b
                BY <3>1, <3>2, SeqEqual
            <4> QED
                BY <4>1
        <3>3. CASE Len(a) < Len(b)
            <4>1. Len(a) + 1 \in 1 .. Len(b) /\ ~(Len(a) + 1 <= Len(a))
                BY <1>1, <3>3
            <4>2. \A j \in 1 .. (Len(a) + 1) - 1 : a[j] = b[j]
                BY <1>1, <3>1, <3>3
            <4> QED
                BY <1>1, <4>1, <4>2 DEF Before
        <3>4. CASE Len(b) < Len(a)
            <4>0. PICK i : i = Len(b) + 1
                OBVIOUS
            <4>1. i \in 1 .. Len(a) /\ i <= Len(b) + 1 /\ ~(i <= Len(b))
                BY <1>1, <3>4, <4>0
            <4>2. \A j \in 1 .. i - 1 : b[j] = a[j]
                BY <1>1, <3>1, <3>4, <4>0
            <4>3. Before(b, a)
                BY <4>1, <4>2 DEF Before
            <4> QED
                BY <4>3
        <3> QED
            BY <1>1, <3>2, <3>3, <3>4
    <2>2. CASE D # {}
        <3>1. PICK i \in D : \A j \in D : i <= j
            <4>1. D \in SUBSET Nat
                BY <1>1
            <4> HIDE DEF D
            <4> QED
                BY <2>2, <4>1, Smallest
        <3>2. \A j \in 1 .. i - 1 : a[j] = b[j]
            <4> SUFFICES ASSUME NEW j \in 1 .. i - 1
                         PROVE  a[j] = b[j]
                OBVIOUS
            <4>1. j \in 1 .. Len(a) /\ j <= Len(b) /\ ~(i <= j)
                BY <1>1, <3>1
            <4>2. j \notin D
                BY <3>1, <4>1
            <4> QED
                BY <4>1, <4>2
        <3>3. /\ i \in 1 .. Len(a) /\ i \in 1 .. Len(b) /\ a[i] # b[i]
              /\ i <= Len(a) + 1 /\ i <= Len(b) + 1
            BY <1>1, <3>1
        <3>4. a[i] < b[i] \/ b[i] < a[i]
            BY <1>1, <3>3
        <3> QED
            BY <3>2, <3>3, <3>4 DEF Before
    <2> QED
        BY <2>1, <2>2
<1>4. ASSUME Before(a, b), Before(b, c)
      PROVE  Before(a, c)
    <2>1. PICK i \in 1 .. Len(b) : /\ i <= Len(a) + 1
                                   /\ \A j \in 1 .. i - 1 : a[j] = b[j]
                                   /\ i <= Len(a) => a[i] < b[i]
        BY <1>4 DEF Before
    <2>2. PICK k \in 1 .. Len(c) : /\ k <= Len(b) + 1
                                   /\ \A j \in 1 .. k - 1 : b[j] = c[j]
                                   /\ k <= Len(b) => b[k] < c[k]
        BY <1>4 DEF Before
    <2>3. CASE i < k
        <3>1. i \in 1 .. Len(c) /\ i \in 1 .. k - 1 /\ b[i] = c[i]
            BY <1>1, <2>1, <2>2, <2>3
        <3>2. \A j \in 1 .. i - 1 : a[j] = c[j]
            BY <1>1, <2>1, <2>2, <2>3
        <3> QED
            BY <2>1, <3>1, <3>2 DEF Before
    <2>4. CASE k < i
        <3>1. k <= Len(b) /\ k \in 1 .. i - 1 /\ a[k] = b[k] /\ k <= Len(a) + 1
            BY <1>1, <2>1, <2>2, <2>4
        <3>2. \A j \in 1 .. k - 1 : a[j] = c[j]
            BY <1>1, <2>1, <2>2, <2>4
        <3>3. a[k] < c[k]
            BY <2>2, <3>1
        <3> QED
            BY <3>1, <3>2, <3>3 DEF Before
    <2>5. CASE i = k
        <3>1. k <= Len(b) /\ b[k] < c[k] /\ b[k] \in Nat /\ c[k] \in Nat
            BY <1>1, <2>1, <2>2, <2>5
        <3>2. \A j \in 1 .. k - 1 : a[j] = c[j]
            BY <1>1, <2>1, <2>2, <2>5
        <3>3. k <= Len(a) => a[k] < c[k]
            <4>1. SUFFICES ASSUME k <= Len(a)
                           PROVE  a[k] < c[k]
                OBVIOUS
            <4>2. a[k] < b[k] /\ a[k] \in Nat
                BY <1>1, <2>1, <2>5, <4>1
            <4> QED
                BY <3>1, <4>2
        <3> QED
            BY <2>1, <2>5, <3>2, <3>3 DEF Before
    <2> QED
        BY <1>1, <2>3, <2>4, <2>5
<1> QED
    BY <1>2, <1>3, <1>4

\* The keys of a table have an order, in which each occurs once.
LEMMA InOrderFacts ==
    ASSUME NEW S \in SUBSET Keys
    PROVE  /\ Cardinality(S) \in Nat
           /\ InOrder(S) \in [1 .. Cardinality(S) -> S]
           /\ \A i, j \in 1 .. Cardinality(S) : InOrder(S)[i] = InOrder(S)[j] => i = j
           /\ \A k \in S : \E i \in 1 .. Cardinality(S) : InOrder(S)[i] = k
<1>1. S \subseteq Seq(Nat) /\ IsFiniteSet(S)
    BY KeysAreTexts, FS_Subset
<1> DEFINE n == Cardinality(S)
           below(k) == {j \in S : Before(j, k)}
           sorted(s) == /\ s \in [1 .. n -> S]
                        /\ \A i, j \in 1 .. n : i < j => Before(s[i], s[j])
<1>2. n \in Nat
    BY <1>1, FS_CardinalityType
<1>3. \A a, b \in S : a = b \/ Before(a, b) \/ Before(b, a)
    BY <1>1, BeforeIsOrder
<1>4. \A k \in S : IsFiniteSet(below(k)) /\ Cardinality(below(k)) \in 0 .. n - 1
    <2> SUFFICES ASSUME NEW k \in S
                 PROVE  IsFiniteSet(below(k)) /\ Cardinality(below(k)) \in 0 .. n - 1
        OBVIOUS
    <2>1. below(k) \in SUBSET S /\ k \notin below(k)
        BY <1>1, BeforeIsOrder
    <2> HIDE DEF below
    <2>2. IsFiniteSet(below(k)) /\ Cardinality(below(k)) \in Nat
        BY <1>1, <2>1, FS_Subset, FS_CardinalityType
    <2>3. Cardinality(below(k)) <= n /\ Cardinality(below(k)) # n
        BY <1>1, <2>1, FS_Subset
    <2> QED
        BY <1>2, <2>2, <2>3
<1>5. ASSUME NEW a \in S, NEW b \in S, Before(a, b)
      PROVE  Cardinality(below(a)) < Cardinality(below(b))
    <2>1. below(a) \in SUBSET below(b) /\ a \in below(b) /\ a \notin below(a)
        BY <1>1, <1>5, BeforeIsOrder
    <2> HIDE DEF below
    <2>2. /\ Cardinality(below(a)) <= Cardinality(below(b))
          /\ Cardinality(below(a)) # Cardinality(below(b))
        BY <1>4, <2>1, FS_Subset
    <2>3. Cardinality(below(a)) \in Nat /\ Cardinality(below(b)) \in Nat
        BY <1>2, <1>4
    <2> QED
        BY <2>2, <2>3
<1>6. \E s : sorted(s)
    <2>1. PICK rank : rank = [k \in S |-> Cardinality(below(k)) + 1]
        OBVIOUS
    <2>2. rank \in [S -> 1 .. n] /\ \A k \in S : rank[k] = Cardinality(below(k)) + 1
        <3> HIDE DEF below
        <3> QED
            BY <1>2, <1>4, <2>1
    <2>3. \A a, b \in S : Before(a, b) => rank[a] < rank[b]
        <3> HIDE DEF below, n
        <3>1. \A k \in S : Cardinality(below(k)) \in Int
            BY <1>2, <1>4
        <3> QED
            BY <1>5, <2>2, <3>1
    <2>4. \A a, b \in S : rank[a] = rank[b] => a = b
        <3> HIDE DEF below, n
        <3> QED
            BY <1>2, <1>3, <2>2, <2>3
    <2>5. rank \in Injection(S, 1 .. n)
        BY <2>2, <2>4 DEF Injection, IsInjective
    <2>6. IsFiniteSet(1 .. n) /\ Cardinality(1 .. n) = n
        BY <1>2, FS_Interval
    <2>7. rank \in Surjection(S, 1 .. n)
        BY <2>5, <2>6, FS_Injection
    <2>8. \A i \in 1 .. n : \E k \in S : rank[k] = i
        BY <2>7 DEF Surjection
    <2>9. PICK s : s = [i \in 1 .. n |-> CHOOSE k \in S : rank[k] = i]
        OBVIOUS
    <2>10. s \in [1 .. n -> S] /\ \A i \in 1 .. n : rank[s[i]] = i
        BY <2>8, <2>9
    <2>11. ASSUME NEW i \in 1 .. n, NEW j \in 1 .. n, i < j
           PROVE  Before(s[i], s[j])
        <3>1. s[i] \in S /\ s[j] \in S /\ rank[s[i]] = i /\ rank[s[j]] = j
            BY <2>10
        <3>2. ~Before(s[j], s[i]) /\ s[i] # s[j]
            BY <2>3, <2>11, <3>1
        <3> QED
            BY <1>3, <3>1, <3>2
    <2> QED
        BY <2>10, <2>11
<1> DEFINE s == InOrder(S)
<1>7. sorted(s)
    <2>1. PICK t : sorted(t)
        BY <1>6
    <2>2. /\ t \in [1 .. n -> S]
          /\ \A i, j \in DOMAIN t : i < j => Before(t[i], t[j])
        BY <2>1
    <2>3. s \in [1 .. n -> S] /\ \A i, j \in DOMAIN s : i < j => Before(s[i], s[j])
        BY <2>2 DEF InOrder
    <2> HIDE DEF s
    <2> QED
        BY <2>3
<1> HIDE DEF s
<1>8. \A i, j \in 1 .. n : s[i] = s[j] => i = j
    <2> SUFFICES ASSUME NEW i \in 1 .. n, NEW j \in 1 .. n, s[i] = s[j], i # j
                 PROVE  FALSE
        OBVIOUS
    <2>1. s[i] \in Seq(Nat) /\ s[j] \in Seq(Nat)
        BY <1>1, <1>7
    <2>2. i < j \/ j < i
        BY <1>2
    <2> QED
        BY <1>7, <2>1, <2>2, BeforeIsOrder
<1>9. \A k \in S : \E i \in 1 .. n : s[i] = k
    <2>1. s \in Injection(1 .. n, S)
        BY <1>7, <1>8 DEF Injection, IsInjective
    <2>2. IsFiniteSet(1 .. n) /\ Cardinality(1 .. n) = n
        BY <1>2, FS_Interval
    <2>3. s \in Surjection(1 .. n, S)
        BY <1>1, <2>1, <2>2, FS_Injection
    <2> QED
        BY <2>3 DEF Surjection
<1> QED
    BY <1>2, <1>7, <1>8, <1>9 DEF s

-----------------------------------------------------------------------------
(* What the lines of a file say.                                           *)

LineType == Keys \X Values

\* Whatever the file holds, what is read of it is a table.
LEMMA ParseType ==
    ASSUME file \in Seq((Keys \X Values) \cup {Hole})
    PROVE  Parse(file) \in Tables
<1> DEFINE at(k) == {i \in DOMAIN file : file[i][1] = k /\ (i > 1 => file[i - 1] # Hole)}
<1>1. /\ Len(file) \in Nat /\ DOMAIN file = 1 .. Len(file)
      /\ \A i \in 1 .. Len(file) : file[i] \in (Keys \X Values) \cup {Hole}
    OBVIOUS
<1>2. \A i \in 1 .. Len(file) : file[i][2] \in Values \cup {Absent}
    BY <1>1 DEF Hole
<1>3. \A k \in Keys : Parse(file)[k] = IF at(k) = {} THEN Absent ELSE file[Max(at(k))][2]
    BY DEF Parse
<1>4. \A k : at(k) \in SUBSET (1 .. Len(file))
    BY <1>1
<1> HIDE DEF at
<1>5. ASSUME NEW k \in Keys
      PROVE  Parse(file)[k] \in Values \cup {Absent}
    <2>1. CASE at(k) = {}
        BY <1>3, <2>1
    <2>2. CASE at(k) # {}
        <3>1. at(k) \in SUBSET (1 .. Len(file)) /\ Len(file) \in Nat
            BY <1>1, <1>4
        <3> DEFINE n == Len(file)
                   S == at(k)
                   left == {j \in 0 .. n : n - j \in S}
        <3> HIDE DEF n, S
        <3>2. S \in SUBSET (1 .. n) /\ n \in Nat /\ S # {}
            BY <2>2, <3>1 DEF S, n
        <3>3. left \in SUBSET Nat /\ left # {}
            <4>1. PICK i \in S : TRUE
                BY <3>2
            <4>2. n - i \in 0 .. n /\ n - (n - i) = i
                BY <3>2
            <4>3. n - i \in left
                BY <4>2
            <4> QED
                <5>1. left \in SUBSET Nat
                    BY <3>2
                <5> HIDE DEF left
                <5> QED
                    BY <4>3, <5>1
        <3>4. PICK j \in left : \A l \in left : j <= l
            <4> HIDE DEF left
            <4> QED
                BY <3>3, Smallest
        <3>5. n - j \in S
            OBVIOUS
        <3>6. \A i \in S : n - j >= i
            <4> SUFFICES ASSUME NEW i \in S
                         PROVE  n - j >= i
                OBVIOUS
            <4>1. i \in 1 .. n /\ n - i \in 0 .. n /\ n - (n - i) = i
                BY <3>2
            <4>2. n - i \in left
                BY <4>1
            <4>3. j <= n - i /\ j \in 0 .. n
                BY <3>4, <4>2
            <4> QED
                BY <3>2, <4>1, <4>3
        <3> HIDE DEF left
        <3>7. Max(S) \in S
            BY <3>5, <3>6 DEF Max
        <3>8. Max(S) \in 1 .. Len(file)
            BY <3>2, <3>7 DEF n
        <3> QED
            BY <1>2, <1>3, <2>2, <3>8 DEF S
    <2> QED
        BY <2>1, <2>2
<1>6. Parse(file) = [k \in Keys |-> Parse(file)[k]]
    BY DEF Parse
<1> QED
    BY <1>5, <1>6 DEF Tables

\* Each key has at most one line.
OnePerKey(lines) ==
    /\ lines \in Seq(LineType)
    /\ \A i, j \in 1 .. Len(lines) : lines[i][1] = lines[j][1] => i = j

LEMMA ParseFacts ==
    ASSUME NEW lines, OnePerKey(lines), NEW k \in Keys
    PROVE  /\ \A i \in 1 .. Len(lines) : lines[i][1] = k => Parse(lines)[k] = lines[i][2]
           /\ (\A i \in 1 .. Len(lines) : lines[i][1] # k) => Parse(lines)[k] = Absent
           /\ Parse(lines) \in Tables
<1> DEFINE at(m) == {i \in DOMAIN lines : lines[i][1] = m /\ (i > 1 => lines[i - 1] # Hole)}
<1>1. /\ Len(lines) \in Nat /\ DOMAIN lines = 1 .. Len(lines)
      /\ \A i \in 1 .. Len(lines) : lines[i] \in LineType
    BY DEF OnePerKey
<1>2. \A i \in 1 .. Len(lines) : lines[i] # Hole /\ lines[i][2] \in Values
    BY <1>1, AbsentIsNone DEF LineType, Hole
<1>3. \A m \in Keys : Parse(lines)[m] = IF at(m) = {} THEN Absent ELSE lines[Max(at(m))][2]
    BY DEF Parse
<1>4. \A m : at(m) = {i \in 1 .. Len(lines) : lines[i][1] = m}
    <2> SUFFICES ASSUME NEW m
                 PROVE  at(m) = {i \in 1 .. Len(lines) : lines[i][1] = m}
        OBVIOUS
    <2>1. \A i \in 1 .. Len(lines) : i > 1 => i - 1 \in 1 .. Len(lines)
        BY <1>1
    <2> QED
        BY <1>1, <1>2, <2>1
<1> HIDE DEF at
<1>5. ASSUME NEW m \in Keys, NEW i \in 1 .. Len(lines), lines[i][1] = m
      PROVE  Parse(lines)[m] = lines[i][2]
    <2>1. at(m) = {i}
        BY <1>4, <1>5 DEF OnePerKey
    <2>2. Max({i}) = i
        BY <1>1 DEF Max
    <2> QED
        BY <1>3, <2>1, <2>2
<1>6. ASSUME NEW m \in Keys, \A i \in 1 .. Len(lines) : lines[i][1] # m
      PROVE  Parse(lines)[m] = Absent
    BY <1>3, <1>4, <1>6
<1>7. Parse(lines) \in Tables
    <2>1. \A m \in Keys : Parse(lines)[m] \in Values \cup {Absent}
        BY <1>2, <1>5, <1>6
    <2>2. Parse(lines) = [m \in Keys |-> Parse(lines)[m]]
        BY DEF Parse
    <2> QED
        BY <2>1, <2>2 DEF Tables
<1> QED
    BY <1>5, <1>6, <1>7

\* The lines of a table have one for each key that is there.
LEMMA LinesFacts ==
    ASSUME NEW table \in Tables
    PROVE  /\ OnePerKey(Lines(table))
           /\ \A i \in 1 .. Len(Lines(table)) :
                 Lines(table)[i][2] = table[Lines(table)[i][1]]
           /\ \A k \in Keys : table[k] # Absent =>
                 \E i \in 1 .. Len(Lines(table)) : Lines(table)[i][1] = k
<1> DEFINE S == {k \in Keys : table[k] # Absent}
           n == Cardinality(S)
           keys == InOrder(S)
           lines == Lines(table)
<1>1. S \in SUBSET Keys /\ \A k \in S : table[k] \in Values
    BY DEF Tables
<1>2. lines = [i \in DOMAIN keys |-> <<keys[i], table[keys[i]]>>]
    BY DEF Lines
<1> HIDE DEF S, lines
<1>3. /\ n \in Nat /\ keys \in [1 .. n -> S]
      /\ \A i, j \in 1 .. n : keys[i] = keys[j] => i = j
      /\ \A k \in S : \E i \in 1 .. n : keys[i] = k
    BY <1>1, InOrderFacts
<1> HIDE DEF n, keys
<1>4. /\ lines \in [1 .. n -> LineType]
      /\ \A i \in 1 .. n : lines[i][1] = keys[i] /\ lines[i][2] = table[keys[i]]
    BY <1>1, <1>2, <1>3 DEF LineType
<1>5. lines \in Seq(LineType) /\ Len(lines) = n
    <2>1. lines \in Seq(LineType)
        BY <1>3, <1>4, SeqDef
    <2> QED
        BY <1>3, <1>4, <2>1, LenProperties
<1>6. OnePerKey(lines)
    BY <1>3, <1>4, <1>5 DEF OnePerKey
<1>7. \A k \in Keys : table[k] # Absent => \E i \in 1 .. n : lines[i][1] = k
    BY <1>3, <1>4 DEF S
<1> QED
    BY <1>4, <1>5, <1>6, <1>7 DEF lines

\* Reading a table that was written gives the table.
LEMMA ParseLines ==
    ASSUME NEW table \in Tables
    PROVE  Parse(Lines(table)) = table
<1>1. /\ OnePerKey(Lines(table))
      /\ \A i \in 1 .. Len(Lines(table)) :
            Lines(table)[i][2] = table[Lines(table)[i][1]]
      /\ \A k \in Keys : table[k] # Absent =>
            \E i \in 1 .. Len(Lines(table)) : Lines(table)[i][1] = k
    BY LinesFacts
<1>2. \A k \in Keys : Parse(Lines(table))[k] = table[k]
    <2> SUFFICES ASSUME NEW k \in Keys
                 PROVE  Parse(Lines(table))[k] = table[k]
        OBVIOUS
    <2>1. CASE table[k] = Absent
        <3>1. \A i \in 1 .. Len(Lines(table)) : Lines(table)[i] \in LineType
            BY <1>1 DEF OnePerKey
        <3>2. \A i \in 1 .. Len(Lines(table)) : Lines(table)[i][1] # k
            BY <1>1, <2>1, <3>1, AbsentIsNone DEF LineType
        <3> QED
            BY <1>1, <2>1, <3>2, ParseFacts
    <2>2. CASE table[k] # Absent
        BY <1>1, <2>2, ParseFacts
    <2> QED
        BY <2>1, <2>2
<1>3. Parse(Lines(table)) \in Tables /\ Keys = Keys
    <2>1. CASE Keys = {}
        BY <2>1 DEF Tables, Parse
    <2>2. CASE Keys # {}
        BY <1>1, <2>2, ParseFacts
    <2> QED
        BY <2>1, <2>2
<1> QED
    BY <1>2, <1>3 DEF Tables

\* What a save has written so far of the lines of a table.
Written(table, n) ==
    /\ n \in 0 .. Len(Lines(table)) /\ file \in Seq(LineType) /\ Len(file) = n
    /\ \A i \in 1 .. n : file[i] = Lines(table)[i]

LEMMA ParseWritten ==
    ASSUME NEW table \in Tables, NEW n, Written(table, n), NEW k \in Keys
    PROVE  /\ Parse(file)[k] \in {table[k], Absent}
           /\ Parse(file) \in Tables
<1>1. /\ OnePerKey(Lines(table)) /\ Len(Lines(table)) \in Nat
      /\ \A i \in 1 .. Len(Lines(table)) :
            Lines(table)[i][2] = table[Lines(table)[i][1]]
    BY LinesFacts DEF OnePerKey
<1>2. /\ n \in Nat /\ Len(file) = n /\ \A i \in 1 .. n : i \in 1 .. Len(Lines(table))
      /\ \A i \in 1 .. n : file[i] = Lines(table)[i]
    BY <1>1 DEF Written
<1>3. OnePerKey(file)
    BY <1>1, <1>2 DEF Written, OnePerKey
<1>4. CASE \E i \in 1 .. n : file[i][1] = k
    BY <1>1, <1>2, <1>3, <1>4, ParseFacts
<1>5. CASE ~\E i \in 1 .. n : file[i][1] = k
    BY <1>2, <1>3, <1>5, ParseFacts
<1> QED
    BY <1>3, <1>4, <1>5, ParseFacts

-----------------------------------------------------------------------------
(* Clients and the file.                                                   *)

\* No two characters share an entry.  Names are UTF-8, where what starts a
\* character never continues one; without that two names could have one key.
KeysDiffer == \A m, n \in Characters : KeyOf(m) = KeyOf(n) => m = n

\* The table with the entries of the characters, and the one that scripts
\* believe is saved.
TableOf(entry) == [k \in Keys |-> entry[CHOOSE n \in Characters : KeyOf(n) = k]]
Believed == TableOf(told)

ClientType == [up : BOOLEAN, loaded : BOOLEAN, table : Tables, fresh : BOOLEAN,
               writing : BOOLEAN, pos : Nat,
               saving : (Characters \X Values) \cup {<< >>}]

\* The client's save is the only one, and the file holds the beginning of what
\* it writes: what is believed, with one entry changed.
SavingInv(p) ==
    /\ client[p].fresh /\ client[p].saving \in Characters \X Values
    /\ client[p].table =
          [Believed EXCEPT ![KeyOf(client[p].saving[1])] = client[p].saving[2]]
    /\ Written(client[p].table, client[p].pos - 1)
    /\ \A q \in Clients \ {p} : ~client[q].writing /\ ~client[q].fresh

\* Without a save in progress, the file and every fresh copy hold what is
\* believed.
QuietInv ==
    /\ file = Lines(Believed)
    /\ \A p \in Clients : client[p].fresh => client[p].table = Believed

CleanInv ==
    /\ \A p \in Clients : client[p].writing => SavingInv(p)
    /\ ~SomeoneWrites => QuietInv

StoreInv ==
    /\ StoreTypeOK
    /\ \A p \in Clients : client[p].writing => client[p].up /\ client[p].pos # 0
    /\ mishaps = {} => CleanInv

LEMMA BelievedFacts ==
    ASSUME KeysDiffer, NEW entry \in [Characters -> Values \cup {Absent}]
    PROVE  /\ TableOf(entry) \in Tables
           /\ \A n \in Characters :
                 KeyOf(n) \in Keys /\ TableOf(entry)[KeyOf(n)] = entry[n]
<1>1. \A k \in Keys : \E n \in Characters : KeyOf(n) = k
    BY DEF Keys
<1>2. TableOf(entry) \in Tables
    BY <1>1 DEF TableOf, Tables
<1>3. ASSUME NEW n \in Characters
      PROVE  KeyOf(n) \in Keys /\ TableOf(entry)[KeyOf(n)] = entry[n]
    <2> DEFINE m == CHOOSE m \in Characters : KeyOf(m) = KeyOf(n)
    <2>1. m \in Characters /\ KeyOf(m) = KeyOf(n)
        OBVIOUS
    <2>2. m = n
        BY <2>1 DEF KeysDiffer
    <2>3. KeyOf(n) \in Keys
        BY DEF Keys
    <2> QED
        BY <2>2, <2>3 DEF TableOf
<1> QED
    BY <1>2, <1>3

\* A table is known by the entries of the characters.
LEMMA TablesEqual ==
    ASSUME NEW t \in Tables, NEW u \in Tables,
           \A n \in Characters : t[KeyOf(n)] = u[KeyOf(n)]
    PROVE  t = u
<1>1. \A k \in Keys : t[k] = u[k]
    BY DEF Keys
<1> QED
    BY <1>1 DEF Tables

LEMMA InitStore ==
    ASSUME KeysDiffer, StoreInit
    PROVE  StoreInv
<1>1. PICK table \in Tables : file = Lines(table)
    BY DEF StoreInit
<1>2. /\ client = [p \in Clients |-> Down] /\ mishaps = {}
      /\ told = [n \in Characters |-> Parse(file)[KeyOf(n)]]
    BY DEF StoreInit
<1>3. \A n \in Characters : KeyOf(n) \in Keys
    BY DEF Keys
<1>4. Parse(file) = table
    BY <1>1, ParseLines
<1>5. told = [n \in Characters |-> table[KeyOf(n)]]
    BY <1>2, <1>4
<1>6. told \in [Characters -> Values \cup {Absent}]
    BY <1>3, <1>5 DEF Tables
<1>7. Believed = table
    BY <1>5, <1>6, BelievedFacts, TablesEqual DEF Believed
<1>8. Empty \in Tables
    BY DEF Empty, Tables
<1>9. StoreTypeOK
    <2>1. file \in Seq(LineType)
        BY <1>1, LinesFacts DEF OnePerKey
    <2>2. file \in Seq((Keys \X Values) \cup {Hole})
        BY <2>1, SeqMonotonic DEF LineType
    <2> QED
        BY <1>2, <1>6, <1>8, <2>2 DEF StoreTypeOK, Down
<1>10. /\ \A p \in Clients : ~client[p].writing /\ ~client[p].fresh
    BY <1>2 DEF Down
<1> QED
    BY <1>1, <1>7, <1>9, <1>10 DEF StoreInv, CleanInv, QuietInv

\* What a client has in its table once it has loaded the file.
LEMMA LoadFacts ==
    ASSUME KeysDiffer, StoreInv, NEW p \in Clients, ~client[p].writing, NEW opened \in BOOLEAN
    PROVE  LET c == Load(client[p], opened)
           IN  /\ c \in ClientType /\ c.loaded /\ ~c.writing
               /\ c.up = client[p].up
               /\ mishaps = {} /\ c.fresh => ~SomeoneWrites /\ c.table = Believed
<1>1. client[p] \in ClientType /\ told \in [Characters -> Values \cup {Absent}]
    BY DEF StoreInv, StoreTypeOK, ClientType
<1>2. mishaps = {} /\ client[p].fresh => ~SomeoneWrites /\ client[p].table = Believed
    <2>1. mishaps = {} /\ SomeoneWrites => ~client[p].fresh
        BY DEF StoreInv, CleanInv, SavingInv, SomeoneWrites
    <2> QED
        BY <2>1 DEF StoreInv, CleanInv, QuietInv
<1>3. CASE client[p].loaded
    BY <1>1, <1>2, <1>3 DEF Load
<1>4. CASE ~client[p].loaded
    <2>1. Empty \in Tables /\ SomeoneWrites \in BOOLEAN
        BY DEF Empty, Tables, SomeoneWrites
    <2>2. Parse(file) \in Tables
        BY ParseType DEF StoreInv, StoreTypeOK
    <2>3. mishaps = {} /\ ~SomeoneWrites => Parse(file) = Believed
        BY <1>1, BelievedFacts, ParseLines DEF StoreInv, CleanInv, QuietInv, Believed
    <2> QED
        BY <1>1, <1>4, <2>1, <2>2, <2>3 DEF Load, ClientType
<1> QED
    BY <1>3, <1>4

\* Of a step that gives one client a state: the types.
LEMMA SetType ==
    ASSUME StoreInv, NEW p \in Clients, NEW r \in ClientType, Set(p, r),
           r.writing => r.up /\ r.pos # 0 /\ r.loaded /\ r.saving # << >>
    PROVE  /\ client' \in [Clients -> ClientType] /\ client'[p] = r
           /\ \A q \in Clients \ {p} : client'[q] = client[q]
           /\ \A q \in Clients : client'[q].writing =>
                 /\ client'[q].up /\ client'[q].pos # 0
                 /\ client'[q].loaded /\ client'[q].saving # << >>
<1>1. client \in [Clients -> ClientType] /\ client' = [client EXCEPT ![p] = r]
    BY DEF StoreInv, StoreTypeOK, ClientType, Set
<1>2. \A q \in Clients : client[q].writing =>
          /\ client[q].up /\ client[q].pos # 0
          /\ client[q].loaded /\ client[q].saving # << >>
    BY DEF StoreInv, StoreTypeOK
<1>3. /\ client' \in [Clients -> ClientType] /\ client'[p] = r
      /\ \A q \in Clients \ {p} : client'[q] = client[q]
    BY <1>1
<1> QED
    BY <1>2, <1>3

\* A client that does not write takes a state in which it does not: the file
\* and what is believed are as they were.
LEMMA QuietStep ==
    ASSUME StoreInv, NEW p \in Clients, NEW r \in ClientType, Set(p, r),
           ~client[p].writing, ~r.writing, UNCHANGED <<file, told>>, mishaps = {},
           r.fresh => ~SomeoneWrites /\ r.table = Believed
    PROVE  CleanInv'
<1>1. /\ client'[p] = r /\ \A q \in Clients \ {p} : client'[q] = client[q]
    BY SetType
<1>2. Believed' = Believed
    BY DEF Believed, TableOf
<1>3. \A q \in Clients : client'[q].writing <=> client[q].writing
    BY <1>1
<1>4. SomeoneWrites' <=> SomeoneWrites
    BY <1>3 DEF SomeoneWrites
<1>5. ASSUME NEW q \in Clients, client'[q].writing
      PROVE  SavingInv(q)'
    <2>1. q # p /\ client'[q] = client[q] /\ client[q].writing /\ SomeoneWrites
        BY <1>1, <1>5 DEF SomeoneWrites
    <2>2. SavingInv(q)
        BY <2>1 DEF StoreInv, CleanInv
    <2>3. Written(client[q].table, client[q].pos - 1)'
        BY <2>1, <2>2 DEF SavingInv, Written
    <2>4. \A o \in Clients \ {q} : ~client'[o].writing /\ ~client'[o].fresh
        BY <1>1, <2>1, <2>2 DEF SavingInv
    <2> QED
        BY <1>2, <2>1, <2>2, <2>3, <2>4 DEF SavingInv
<1>6. ASSUME ~SomeoneWrites'
      PROVE  QuietInv'
    <2>1. QuietInv
        BY <1>4, <1>6 DEF StoreInv, CleanInv
    <2>2. \A q \in Clients : client'[q].fresh => client'[q].table = Believed
        BY <1>1, <2>1 DEF QuietInv
    <2> QED
        BY <1>2, <2>1, <2>2 DEF QuietInv
<1> QED
    BY <1>5, <1>6 DEF CleanInv

\* The type of what a client writes: a line, at its place or behind a hole.
LEMMA WriteType ==
    ASSUME NEW line \in LineType, NEW pos \in Nat \ {0},
           file \in Seq(LineType \cup {Hole})
    PROVE  (IF pos <= Len(file) THEN ReplaceAt(file, pos, line)
            ELSE Append(file \o [i \in 1 .. (pos - 1 - Len(file)) |-> Hole], line))
           \in Seq(LineType \cup {Hole})
<1> DEFINE T == LineType \cup {Hole}
           pad == [i \in 1 .. (pos - 1 - Len(file)) |-> Hole]
<1>1. /\ Len(file) \in Nat /\ file \in [1 .. Len(file) -> T] /\ line \in T /\ Hole \in T
    OBVIOUS
<1> HIDE DEF T
<1>2. CASE pos <= Len(file)
    <2>1. [file EXCEPT ![pos] = line] \in [1 .. Len(file) -> T]
        BY <1>1, <1>2
    <2>2. [file EXCEPT ![pos] = line] \in Seq(T)
        BY <1>1, <2>1, SeqDef
    <2> QED
        BY <1>2, <2>2 DEF ReplaceAt, T
<1>3. CASE ~(pos <= Len(file))
    <2>1. pos - 1 - Len(file) \in Nat
        BY <1>1, <1>3
    <2>2. pad \in [1 .. (pos - 1 - Len(file)) -> T]
        BY <1>1
    <2>3. pad \in Seq(T) /\ file \in Seq(T)
        BY <2>1, <2>2, SeqDef DEF T
    <2> HIDE DEF pad
    <2>4. file \o pad \in Seq(T)
        BY <2>3, ConcatProperties
    <2>5. Append(file \o pad, line) \in Seq(T)
        BY <1>1, <2>4, AppendProperties
    <2> QED
        BY <1>3, <2>5 DEF pad, T
<1> QED
    BY <1>2, <1>3

LEMMA DownFacts == Down \in ClientType /\ ~Down.writing /\ ~Down.fresh /\ ~Down.up
    BY DEF Down, ClientType, Empty, Tables

-----------------------------------------------------------------------------
(* Each operation keeps the invariant.                                     *)

LEMMA StartKeeps ==
    ASSUME KeysDiffer, StoreInv, NEW p \in Clients, Start(p)
    PROVE  StoreInv'
<1>1. PICK r : r = [Down EXCEPT !.up = TRUE]
    OBVIOUS
<1>2. r \in ClientType /\ ~r.writing /\ ~r.fresh
    BY <1>1, DownFacts DEF ClientType
<1>3. Set(p, r) /\ UNCHANGED <<file, told, mishaps>> /\ ~client[p].writing
    BY <1>1 DEF Start, StoreInv
<1>4. /\ client' \in [Clients -> ClientType]
      /\ \A q \in Clients : client'[q].writing =>
            /\ client'[q].up /\ client'[q].pos # 0
            /\ client'[q].loaded /\ client'[q].saving # << >>
    BY <1>2, <1>3, SetType
<1>5. mishaps' = {} => CleanInv'
    BY <1>2, <1>3, QuietStep
<1> QED
    BY <1>3, <1>4, <1>5 DEF StoreInv, StoreTypeOK, ClientType

LEMMA EndKeeps ==
    ASSUME KeysDiffer, StoreInv, NEW p \in Clients, End(p)
    PROVE  StoreInv'
<1>1. Set(p, Down) /\ UNCHANGED <<file, told>>
    BY DEF End
<1>2. /\ client' \in [Clients -> ClientType]
      /\ \A q \in Clients : client'[q].writing =>
            /\ client'[q].up /\ client'[q].pos # 0
            /\ client'[q].loaded /\ client'[q].saving # << >>
    BY <1>1, DownFacts, SetType
<1>3. mishaps' \subseteq {"cut", "unread", "unsaved", "stale"}
    BY DEF End, StoreInv, StoreTypeOK
<1>4. mishaps' = {} => CleanInv'
    <2>1. SUFFICES ASSUME mishaps' = {}
                   PROVE  CleanInv'
        OBVIOUS
    <2>2. mishaps = {} /\ ~client[p].writing
        BY <2>1 DEF End
    <2> QED
        BY <1>1, <2>2, DownFacts, QuietStep
<1> QED
    BY <1>1, <1>2, <1>3, <1>4 DEF StoreInv, StoreTypeOK, ClientType

LEMMA GetInfoKeeps ==
    ASSUME KeysDiffer, StoreInv, NEW p \in Clients, GetInfo(p)
    PROVE  StoreInv'
<1>1. PICK opened \in BOOLEAN : /\ Set(p, Load(client[p], opened))
                                /\ mishaps' = mishaps \cup LoadMishap(client[p], opened)
    BY DEF GetInfo
<1>2. ~client[p].writing /\ UNCHANGED <<file, told>>
    BY DEF GetInfo
<1>3. PICK c : c = Load(client[p], opened)
    OBVIOUS
<1>4. /\ c \in ClientType /\ ~c.writing
      /\ mishaps = {} /\ c.fresh => ~SomeoneWrites /\ c.table = Believed
    BY <1>2, <1>3, LoadFacts
<1>5. /\ client' \in [Clients -> ClientType]
      /\ \A q \in Clients : client'[q].writing =>
            /\ client'[q].up /\ client'[q].pos # 0
            /\ client'[q].loaded /\ client'[q].saving # << >>
    BY <1>1, <1>3, <1>4, SetType
<1>6. mishaps' \subseteq {"cut", "unread", "unsaved", "stale"}
    BY <1>1 DEF StoreInv, StoreTypeOK, LoadMishap
<1>7. mishaps' = {} => CleanInv'
    BY <1>1, <1>2, <1>3, <1>4, QuietStep
<1> QED
    BY <1>2, <1>5, <1>6, <1>7 DEF StoreInv, StoreTypeOK, ClientType

LEMMA SaveUnopenedKeeps ==
    ASSUME KeysDiffer, StoreInv, NEW p \in Clients, NEW n \in Characters, NEW v \in Values,
           SaveUnopened(p, n, v)
    PROVE  StoreInv'
<1>1. PICK opened \in BOOLEAN :
          /\ Set(p, [Load(client[p], opened) EXCEPT !.table[KeyOf(n)] = v])
          /\ mishaps' = mishaps \cup {"unsaved"} \cup LoadMishap(client[p], opened)
    BY DEF SaveUnopened
<1>2. ~client[p].writing /\ UNCHANGED file /\ told' = [told EXCEPT ![n] = v]
    BY DEF SaveUnopened
<1>3. PICK c : c = Load(client[p], opened)
    OBVIOUS
<1>4. c \in ClientType /\ ~c.writing
    BY <1>2, <1>3, LoadFacts
<1>5. PICK r : r = [c EXCEPT !.table[KeyOf(n)] = v]
    OBVIOUS
<1>6. r \in ClientType /\ ~r.writing
    BY <1>4, <1>5 DEF ClientType, Tables
<1>7. /\ client' \in [Clients -> ClientType]
      /\ \A q \in Clients : client'[q].writing =>
            /\ client'[q].up /\ client'[q].pos # 0
            /\ client'[q].loaded /\ client'[q].saving # << >>
    BY <1>1, <1>3, <1>5, <1>6, SetType
<1>8. /\ mishaps' \subseteq {"cut", "unread", "unsaved", "stale"} /\ mishaps' # {}
      /\ told' \in [Characters -> Values \cup {Absent}]
    BY <1>1, <1>2 DEF StoreInv, StoreTypeOK, LoadMishap
<1> QED
    BY <1>2, <1>7, <1>8 DEF StoreInv, StoreTypeOK, ClientType

LEMMA BeginSaveKeeps ==
    ASSUME KeysDiffer, StoreInv, NEW p \in Clients, NEW n \in Characters, NEW v \in Values,
           BeginSave(p, n, v)
    PROVE  StoreInv'
<1>1. PICK opened \in BOOLEAN :
          LET c == Load(client[p], opened)
          IN  /\ client' = [q \in Clients |->
                    IF q = p THEN [c EXCEPT !.table[KeyOf(n)] = v, !.writing = TRUE,
                                            !.pos = 1, !.saving = <<n, v>>]
                    ELSE [client[q] EXCEPT !.fresh = FALSE]]
              /\ mishaps' = mishaps \cup LoadMishap(client[p], opened)
                    \cup IF c.fresh /\ ~SomeoneWrites THEN {} ELSE {"stale"}
    BY DEF BeginSave
<1>2. client[p].up /\ ~client[p].writing /\ file' = << >> /\ UNCHANGED told
    BY DEF BeginSave
<1>3. PICK c : c = Load(client[p], opened)
    OBVIOUS
<1>4. /\ c \in ClientType /\ ~c.writing /\ c.loaded /\ c.up
      /\ mishaps = {} /\ c.fresh => ~SomeoneWrites /\ c.table = Believed
    BY <1>2, <1>3, LoadFacts
<1>5. PICK r : r = [c EXCEPT !.table[KeyOf(n)] = v, !.writing = TRUE,
                             !.pos = 1, !.saving = <<n, v>>]
    OBVIOUS
<1>6. /\ r \in ClientType /\ r.writing /\ r.up /\ r.loaded /\ r.pos = 1
      /\ r.saving = <<n, v>> /\ r.fresh = c.fresh /\ r.table = [c.table EXCEPT ![KeyOf(n)] = v]
    BY <1>4, <1>5 DEF ClientType, Tables
<1>7. client \in [Clients -> ClientType]
    BY DEF StoreInv, StoreTypeOK, ClientType
<1>8. /\ client' = [q \in Clients |-> IF q = p THEN r ELSE [client[q] EXCEPT !.fresh = FALSE]]
      /\ mishaps' = mishaps \cup LoadMishap(client[p], opened)
                    \cup IF c.fresh /\ ~SomeoneWrites THEN {} ELSE {"stale"}
    BY <1>1, <1>3, <1>5
<1>9. client'[p] = r
    BY <1>8
<1>10. ASSUME NEW q \in Clients \ {p}
       PROVE  /\ client'[q] \in ClientType /\ ~client'[q].fresh
              /\ client'[q].writing = client[q].writing /\ client'[q].up = client[q].up
              /\ client'[q].loaded = client[q].loaded /\ client'[q].pos = client[q].pos
              /\ client'[q].saving = client[q].saving
    <2>1. client'[q] = [client[q] EXCEPT !.fresh = FALSE] /\ client[q] \in ClientType
        BY <1>7, <1>8
    <2> QED
        BY <2>1 DEF ClientType
<1>11. /\ client' \in [Clients -> ClientType]
       /\ \A q \in Clients : client'[q].writing =>
             /\ client'[q].up /\ client'[q].pos # 0
             /\ client'[q].loaded /\ client'[q].saving # << >>
    <2>1. \A q \in Clients : client'[q] \in ClientType
        BY <1>6, <1>9, <1>10
    <2>2. client' \in [Clients -> ClientType]
        BY <1>8, <2>1
    <2>3. \A q \in Clients : client[q].writing =>
             /\ client[q].up /\ client[q].pos # 0
             /\ client[q].loaded /\ client[q].saving # << >>
        BY DEF StoreInv, StoreTypeOK
    <2> QED
        BY <1>6, <1>9, <1>10, <2>2, <2>3
<1>12. mishaps' \subseteq {"cut", "unread", "unsaved", "stale"}
    BY <1>8 DEF StoreInv, StoreTypeOK, LoadMishap
<1>13. file' \in Seq((Keys \X Values) \cup {Hole})
    BY <1>2
<1>14. ASSUME mishaps' = {}
       PROVE  CleanInv'
    <2>1. mishaps = {} /\ c.fresh /\ ~SomeoneWrites
        BY <1>8, <1>14
    <2>2. \A q \in Clients \ {p} : ~client'[q].writing /\ ~client'[q].fresh
        BY <1>10, <2>1 DEF SomeoneWrites
    <2>3. Believed' = Believed
        BY <1>2 DEF Believed, TableOf
    <2>4. r.saving[1] = n /\ r.saving[2] = v /\ r.saving \in Characters \X Values
        BY <1>6
    <2>5. r.fresh /\ r.table = [Believed EXCEPT ![KeyOf(r.saving[1])] = r.saving[2]]
        BY <1>4, <1>6, <2>1, <2>4
    <2>6. Written(client[p].table, client[p].pos - 1)'
        <3>1. Len(Lines(r.table)) \in Nat
            BY <1>6, LinesFacts DEF OnePerKey, ClientType
        <3>2. client'[p].pos - 1 = 0 /\ client'[p].table = r.table
            BY <1>6, <1>9
        <3>3. 0 \in 0 .. Len(Lines(r.table))
            BY <3>1
        <3>4. file' = << >> /\ Len(<< >>) = 0 /\ << >> \in Seq(LineType)
            BY <1>2
        <3> QED
            BY <3>2, <3>3, <3>4 DEF Written
    <2>7. SavingInv(p)'
        BY <1>9, <2>2, <2>3, <2>4, <2>5, <2>6 DEF SavingInv
    <2>8. SomeoneWrites'
        BY <1>6, <1>9 DEF SomeoneWrites
    <2> QED
        BY <2>2, <2>7, <2>8 DEF CleanInv
<1> QED
    BY <1>2, <1>11, <1>12, <1>13, <1>14 DEF StoreInv, StoreTypeOK, ClientType

LEMMA WriteLineKeeps ==
    ASSUME KeysDiffer, StoreInv, NEW p \in Clients, WriteLine(p)
    PROVE  StoreInv'
<1>1. PICK c : c = client[p]
    OBVIOUS
<1>2. /\ c.writing /\ c.pos <= Len(Lines(c.table))
      /\ file' = IF c.pos <= Len(file) THEN ReplaceAt(file, c.pos, Line(c))
                 ELSE Append(file \o [i \in 1 .. (c.pos - 1 - Len(file)) |-> Hole], Line(c))
      /\ Set(p, [c EXCEPT !.pos = @ + 1]) /\ UNCHANGED <<told, mishaps>>
    BY <1>1 DEF WriteLine
<1>3. /\ c \in ClientType /\ c.up /\ c.pos \in Nat \ {0}
      /\ c.loaded /\ c.saving # << >>
    BY <1>1, <1>2 DEF StoreInv, StoreTypeOK, ClientType
<1>4. PICK r : r = [c EXCEPT !.pos = @ + 1]
    OBVIOUS
<1>5. /\ r \in ClientType /\ r.writing /\ r.up /\ r.loaded /\ r.pos = c.pos + 1
      /\ r.table = c.table /\ r.fresh = c.fresh /\ r.saving = c.saving /\ r.pos # 0
    BY <1>2, <1>3, <1>4 DEF ClientType
<1>6. /\ client' \in [Clients -> ClientType] /\ client'[p] = r
      /\ \A q \in Clients \ {p} : client'[q] = client[q]
      /\ \A q \in Clients : client'[q].writing =>
            /\ client'[q].up /\ client'[q].pos # 0
            /\ client'[q].loaded /\ client'[q].saving # << >>
    BY <1>2, <1>3, <1>4, <1>5, SetType
<1>7. Lines(c.table) \in Seq(LineType) /\ Line(c) \in LineType /\ Line(c) = Lines(c.table)[c.pos]
    <2>1. Lines(c.table) \in Seq(LineType)
        BY <1>3, LinesFacts DEF OnePerKey, ClientType
    <2>2. c.pos \in 1 .. Len(Lines(c.table))
        BY <1>2, <1>3, <2>1
    <2>3. Lines(c.table)[c.pos] \in LineType
        BY <2>1, <2>2, ElementOfSeq
    <2> QED
        BY <2>1, <2>3 DEF Line
<1>8. file' \in Seq((Keys \X Values) \cup {Hole})
    BY <1>2, <1>3, <1>7, WriteType DEF StoreInv, StoreTypeOK, LineType
<1>9. ASSUME mishaps' = {}
      PROVE  CleanInv'
    <2>1. SavingInv(p)
        BY <1>1, <1>2, <1>9 DEF StoreInv, CleanInv
    <2>2. Believed' = Believed
        BY <1>2 DEF Believed, TableOf
    <2>3. /\ file \in Seq(LineType) /\ Len(file) = c.pos - 1
          /\ \A i \in 1 .. c.pos - 1 : file[i] = Lines(c.table)[i]
        BY <1>1, <2>1 DEF SavingInv, Written
    <2>4. file' = Append(file, Line(c))
        <3>1. ~(c.pos <= Len(file)) /\ c.pos - 1 - Len(file) = 0
            BY <1>3, <2>3
        <3>2. file \o [i \in 1 .. 0 |-> Hole] = file
            <4>1. [i \in 1 .. 0 |-> Hole] = << >>
                BY SeqEqual
            <4> QED
                BY <2>3, <4>1, ConcatEmptySeq
        <3> QED
            BY <1>2, <3>1, <3>2
    <2>5. Written(client[p].table, client[p].pos - 1)'
        <3>1. client'[p].table = c.table /\ client'[p].pos - 1 = c.pos
            BY <1>3, <1>5, <1>6
        <3>2. /\ file' \in Seq(LineType) /\ Len(file') = c.pos
              /\ \A i \in 1 .. c.pos - 1 : file'[i] = file[i]
              /\ file'[c.pos] = Line(c)
            BY <1>3, <1>7, <2>3, <2>4, AppendProperties
        <3>3. \A i \in 1 .. c.pos : file'[i] = Lines(c.table)[i]
            <4> SUFFICES ASSUME NEW i \in 1 .. c.pos
                         PROVE  file'[i] = Lines(c.table)[i]
                OBVIOUS
            <4>1. i = c.pos \/ i \in 1 .. c.pos - 1
                BY <1>3
            <4> QED
                BY <1>7, <2>3, <3>2, <4>1
        <3>4. c.pos \in 0 .. Len(Lines(c.table))
            BY <1>2, <1>3, <1>7
        <3> QED
            BY <3>1, <3>2, <3>3, <3>4 DEF Written
    <2>6. \A q \in Clients \ {p} : ~client'[q].writing /\ ~client'[q].fresh
        BY <1>6, <2>1 DEF SavingInv
    <2>7. SavingInv(p)'
        BY <1>1, <1>5, <1>6, <2>1, <2>2, <2>5, <2>6 DEF SavingInv
    <2>8. SomeoneWrites'
        BY <1>5, <1>6 DEF SomeoneWrites
    <2> QED
        BY <2>6, <2>7, <2>8 DEF CleanInv
<1> QED
    BY <1>2, <1>6, <1>8, <1>9 DEF StoreInv, StoreTypeOK, ClientType

LEMMA CloseSaveKeeps ==
    ASSUME KeysDiffer, StoreInv, NEW p \in Clients, CloseSave(p)
    PROVE  StoreInv'
<1>1. PICK c : c = client[p]
    OBVIOUS
<1>2. /\ c.writing /\ c.pos > Len(Lines(c.table))
      /\ told' = [told EXCEPT ![c.saving[1]] = c.saving[2]]
      /\ Set(p, [c EXCEPT !.writing = FALSE, !.pos = 0, !.saving = << >>])
      /\ UNCHANGED <<file, mishaps>>
    BY <1>1 DEF CloseSave
<1>3. /\ c \in ClientType /\ c.pos \in Nat \ {0} /\ c.saving \in Characters \X Values
      /\ told \in [Characters -> Values \cup {Absent}]
    BY <1>1, <1>2 DEF StoreInv, StoreTypeOK, ClientType
<1>4. PICK r : r = [c EXCEPT !.writing = FALSE, !.pos = 0, !.saving = << >>]
    OBVIOUS
<1>5. /\ r \in ClientType /\ ~r.writing /\ r.table = c.table /\ r.fresh = c.fresh
    BY <1>3, <1>4 DEF ClientType
<1>6. /\ client' \in [Clients -> ClientType] /\ client'[p] = r
      /\ \A q \in Clients \ {p} : client'[q] = client[q]
      /\ \A q \in Clients : client'[q].writing =>
            /\ client'[q].up /\ client'[q].pos # 0
            /\ client'[q].loaded /\ client'[q].saving # << >>
    BY <1>2, <1>4, <1>5, SetType
<1>7. PICK n \in Characters, v \in Values : c.saving = <<n, v>>
    BY <1>3
<1>8. /\ told' = [told EXCEPT ![n] = v]
      /\ told' \in [Characters -> Values \cup {Absent}]
    BY <1>2, <1>3, <1>7
<1>9. ASSUME mishaps' = {}
      PROVE  CleanInv'
    <2>1. SavingInv(p)
        BY <1>1, <1>2, <1>9 DEF StoreInv, CleanInv
    <2>2. c.table \in Tables /\ c.table = [Believed EXCEPT ![KeyOf(n)] = v]
        <3>1. c.table = [Believed EXCEPT ![KeyOf(c.saving[1])] = c.saving[2]]
            BY <1>1, <2>1 DEF SavingInv
        <3>2. c.saving[1] = n /\ c.saving[2] = v
            BY <1>7
        <3>3. c.table \in Tables
            BY <1>3 DEF ClientType
        <3> QED
            BY <3>1, <3>2, <3>3
    <2>3. /\ Believed \in Tables /\ Believed' \in Tables
          /\ \A m \in Characters : /\ KeyOf(m) \in Keys /\ Believed[KeyOf(m)] = told[m]
                                  /\ Believed'[KeyOf(m)] = told'[m]
        BY <1>3, <1>8, BelievedFacts DEF Believed
    <2>4. \A m \in Characters : Believed'[KeyOf(m)] = c.table[KeyOf(m)]
        <3> SUFFICES ASSUME NEW m \in Characters
                     PROVE  Believed'[KeyOf(m)] = c.table[KeyOf(m)]
            OBVIOUS
        <3>1. Believed \in [Keys -> Values \cup {Absent}]
            BY <2>3 DEF Tables
        <3>2. CASE m = n
            BY <1>3, <1>8, <2>2, <2>3, <3>1, <3>2
        <3>3. CASE m # n
            <4>1. KeyOf(m) # KeyOf(n) /\ told'[m] = told[m]
                BY <1>3, <1>8, <3>3 DEF KeysDiffer
            <4> QED
                BY <2>2, <2>3, <3>1, <4>1
        <3> QED
            BY <3>2, <3>3
    <2>5. Believed' = c.table
        BY <2>2, <2>3, <2>4, TablesEqual
    <2>6. file = Lines(c.table)
        <3>1. /\ file \in Seq(LineType) /\ Len(file) = c.pos - 1
              /\ c.pos - 1 \in 0 .. Len(Lines(c.table))
              /\ \A i \in 1 .. c.pos - 1 : file[i] = Lines(c.table)[i]
            BY <1>1, <2>1 DEF SavingInv, Written
        <3>2. Lines(c.table) \in Seq(LineType)
            BY <2>2, LinesFacts DEF OnePerKey
        <3>3. Len(file) = Len(Lines(c.table))
            BY <1>2, <1>3, <3>1, <3>2
        <3>4. \A i \in 1 .. Len(file) : file[i] = Lines(c.table)[i]
            BY <3>1
        <3> QED
            BY <3>1, <3>2, <3>3, <3>4, SeqEqual
    <2>7. \A q \in Clients : ~client'[q].writing
        BY <1>5, <1>6, <2>1 DEF SavingInv
    <2>8. \A q \in Clients : client'[q].fresh => client'[q].table = c.table
        BY <1>5, <1>6, <2>1 DEF SavingInv
    <2>9. QuietInv'
        <3>1. file' = Lines(Believed')
            BY <1>2, <2>5, <2>6
        <3> QED
            BY <2>5, <2>8, <3>1 DEF QuietInv
    <2> QED
        BY <2>7, <2>9 DEF CleanInv
<1> QED
    BY <1>2, <1>6, <1>8, <1>9 DEF StoreInv, StoreTypeOK, ClientType

LEMMA StoreStep ==
    ASSUME KeysDiffer, StoreInv, [StoreNext]_storeVars
    PROVE  StoreInv'
<1>1. CASE UNCHANGED storeVars
    <2>1. UNCHANGED <<file, client, told, mishaps>>
        BY <1>1 DEF storeVars
    <2>2. Believed' = Believed /\ (SomeoneWrites' <=> SomeoneWrites)
        BY <2>1 DEF Believed, TableOf, SomeoneWrites
    <2>3. \A p \in Clients : SavingInv(p) => SavingInv(p)'
        BY <2>1, <2>2 DEF SavingInv, Written
    <2>4. QuietInv => QuietInv'
        BY <2>1, <2>2 DEF QuietInv
    <2>5. CleanInv => CleanInv'
        BY <2>1, <2>2, <2>3, <2>4 DEF CleanInv
    <2>6. StoreTypeOK'
        BY <2>1 DEF StoreInv, StoreTypeOK
    <2> QED
        BY <2>1, <2>5, <2>6 DEF StoreInv
<1>2. CASE StoreNext
    <2>1. PICK p \in Clients :
              \/ Start(p) \/ End(p) \/ GetInfo(p) \/ WriteLine(p) \/ CloseSave(p)
              \/ \E n \in Characters, v \in Values :
                    BeginSave(p, n, v) \/ SaveUnopened(p, n, v)
        BY <1>2 DEF StoreNext
    <2> QED
        BY <2>1, StartKeeps, EndKeeps, GetInfoKeeps, WriteLineKeeps, CloseSaveKeeps,
           BeginSaveKeeps, SaveUnopenedKeeps
<1> QED
    BY <1>1, <1>2

\* In every reachable state the store has its types, and before the first of
\* the mishaps it is either at rest, the file and every fresh copy as believed,
\* or one client writes and the file holds the beginning of what it writes.
THEOREM StoreHolds == KeysDiffer => (StoreSpec => []StoreInv)
<1>1. KeysDiffer /\ StoreInit => StoreInv
    BY InitStore
<1>2. KeysDiffer /\ StoreInv /\ [StoreNext]_storeVars => StoreInv'
    BY StoreStep
<1> QED
    <2>1. SUFFICES ASSUME KeysDiffer
                   PROVE  StoreSpec => []StoreInv
        OBVIOUS
    <2>2. StoreInit => StoreInv
        BY <1>1, <2>1
    <2>3. StoreInv /\ [StoreNext]_storeVars => StoreInv'
        BY <1>2, <2>1
    <2> QED
        BY <2>2, <2>3, PTL DEF StoreSpec

\* Over any number of saves, clients, ends and restarts, the entry of every
\* character is what scripts were last told is saved, unless one of the four
\* mishaps has happened.
THEOREM StoreKeepsWhatWasTold == KeysDiffer => (StoreSpec => []SavedUnlessMishap)
<1>1. KeysDiffer /\ StoreInv => SavedUnlessMishap
    <2>1. SUFFICES ASSUME KeysDiffer, StoreInv, mishaps = {}, ~SomeoneWrites,
                          NEW n \in Characters
                   PROVE  Parse(file)[KeyOf(n)] = told[n]
        BY DEF SavedUnlessMishap
    <2>2. file = Lines(Believed) /\ told \in [Characters -> Values \cup {Absent}]
        BY <2>1 DEF StoreInv, CleanInv, QuietInv, StoreTypeOK
    <2>3. Believed \in Tables /\ Believed[KeyOf(n)] = told[n]
        BY <2>1, <2>2, BelievedFacts DEF Believed
    <2> QED
        BY <2>2, <2>3, ParseLines
<1> QED
    <2>1. SUFFICES ASSUME KeysDiffer
                   PROVE  StoreSpec => []SavedUnlessMishap
        OBVIOUS
    <2>2. StoreSpec => []StoreInv
        BY <2>1, StoreHolds
    <2>3. StoreInv => SavedUnlessMishap
        BY <1>1, <2>1
    <2> QED
        BY <2>2, <2>3, PTL

\* A client that ends inside a save loses entries of other characters but
\* changes none, if no mishap came before.
THEOREM StoreCutLosesOnly == KeysDiffer => (StoreSpec => CutLosesOnly)
<1> DEFINE Loses ==
        \A p \in Clients, n \in Characters :
            /\ mishaps = {} /\ client[p].writing /\ ~client'[p].up
            /\ n # client[p].saving[1]
            => Parse(file)[KeyOf(n)] \in {told[n], Absent}
<1>1. KeysDiffer /\ StoreInv => Loses
    <2>1. SUFFICES ASSUME KeysDiffer, StoreInv, NEW p \in Clients, NEW n \in Characters,
                          mishaps = {}, client[p].writing, n # client[p].saving[1]
                   PROVE  Parse(file)[KeyOf(n)] \in {told[n], Absent}
        OBVIOUS
    <2>2. SavingInv(p) /\ client[p] \in ClientType
        BY <2>1 DEF StoreInv, CleanInv, StoreTypeOK, ClientType
    <2>3. PICK m \in Characters, v \in Values : client[p].saving = <<m, v>>
        BY <2>2 DEF SavingInv
    <2>4. /\ client[p].table \in Tables
          /\ client[p].table = [Believed EXCEPT ![KeyOf(m)] = v]
          /\ Written(client[p].table, client[p].pos - 1)
        BY <2>2, <2>3 DEF SavingInv, ClientType
    <2>5. Believed \in Tables /\ KeyOf(n) \in Keys /\ Believed[KeyOf(n)] = told[n]
        BY <2>1, BelievedFacts DEF Believed, StoreInv, StoreTypeOK
    <2>6. KeyOf(n) # KeyOf(m)
        BY <2>1, <2>3 DEF KeysDiffer
    <2>7. client[p].table[KeyOf(n)] = told[n]
        BY <2>4, <2>5, <2>6 DEF Tables
    <2> QED
        BY <2>4, <2>5, <2>7, ParseWritten
<1> QED
    <2>1. SUFFICES ASSUME KeysDiffer
                   PROVE  StoreSpec => CutLosesOnly
        OBVIOUS
    <2>2. StoreSpec => []StoreInv
        BY <2>1, StoreHolds
    <2>3. StoreInv => Loses
        BY <1>1, <2>1
    <2>4. StoreSpec => [][Loses]_storeVars
        <3> HIDE DEF Loses
        <3> QED
            BY <2>2, <2>3, PTL
    <2> QED
        BY <2>4 DEF CutLosesOnly
=============================================================================
