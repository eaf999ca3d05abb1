-------------------------- MODULE ObjectDataProofs --------------------------
(***************************************************************************)
(* What the data natives find in the game's objects: encoded fields, for   *)
(* half words of any width, any keys and any table; and the places that    *)
(* paths of offsets lead to, for paths of any length and any memory.       *)
(***************************************************************************)
EXTENDS EncodedFields, OffsetPath, SequenceTheorems, FiniteSetTheorems,
        WellFoundedInduction, TLAPS

-----------------------------------------------------------------------------
(* Encoded fields: a field reads as it was set, and its check word fits,   *)
(* until another field with its key is set; an entry and its mirror agree  *)
(* on what a script has set.                                               *)

\* Masking is its own inverse.
LEMMA MaskTwice ==
    ASSUME NEW word \in Word, NEW salt \in Half
    PROVE  Masked(word, salt) \in Word /\ Masked(Masked(word, salt), salt) = word
<1>1. \A h \in Half : h (+) salt \in Half /\ (h (+) salt) (+) salt = h
    BY DEF Half, (+)
<1>2. word[1] \in Half /\ word[2] \in Half /\ word = <<word[1], word[2]>>
    BY DEF Word
<1> QED
    BY <1>1, <1>2 DEF Masked, Word

\* What every encoding keeps of the memory it starts from.
Sound(m) ==
    /\ m.payload \in [Fields -> Word]
    /\ m.cell \in [Keys -> [salt : Half, check : Half]]
    /\ m.value \in [Fields -> Word \cup {Lost}]
    /\ \A f \in Fields :
          m.value[f] # Lost => Masked(m.payload[f], m.cell[key[f]].salt) = m.value[f]
    /\ \A f \in Fields :
          m.value[f] # Lost /\ f[2] # MirrorIndex =>
              m.cell[key[f]].check = m.cell[key[f]].salt (+) Mixed(m.value[f])

\* The other fields with the key of the one that is written are given up, and
\* no others are touched.
LEMMA EncodeSound ==
    ASSUME key \in [Fields -> Keys],
           NEW m, Sound(m), NEW f \in Fields \cup {None},
           NEW word \in Word, NEW salt \in Half
    PROVE  Sound(Encode(m, f, word, salt))
<1>1. CASE f = None
    BY <1>1 DEF Encode, Cell
<1>2. CASE f # None
    <2> DEFINE n == Encode(m, f, word, salt)
    <2>1. f \in Fields /\ key[f] \in Keys
        BY <1>2
    <2>2. /\ n.payload = [m.payload EXCEPT ![f] = Masked(word, salt)]
          /\ n.cell = [m.cell EXCEPT ![key[f]] =
                         [salt |-> salt, check |-> salt (+) Mixed(word)]]
          /\ n.value = [g \in Fields |-> IF g = f THEN word
                                         ELSE IF key[g] = key[f] THEN Lost
                                         ELSE m.value[g]]
        BY <1>2 DEF Encode, Cell
    <2> HIDE DEF n
    <2>3. Masked(word, salt) \in Word
        BY MaskTwice
    <2>4. salt (+) Mixed(word) \in Half
        BY DEF Half, (+), Mixed, HalfOf
    <2>5. /\ n.payload \in [Fields -> Word]
          /\ n.cell \in [Keys -> [salt : Half, check : Half]]
          /\ n.value \in [Fields -> Word \cup {Lost}]
        <3>1. n.payload \in [Fields -> Word]
            BY <2>1, <2>2, <2>3 DEF Sound
        <3>2. n.cell \in [Keys -> [salt : Half, check : Half]]
            BY <2>1, <2>2, <2>4 DEF Sound
        <3>3. n.value \in [Fields -> Word \cup {Lost}]
            BY <2>2 DEF Sound
        <3> QED
            BY <3>1, <3>2, <3>3
    <2>6. ASSUME NEW g \in Fields, n.value[g] # Lost
          PROVE  Masked(n.payload[g], n.cell[key[g]].salt) = n.value[g]
        <3>1. CASE g = f
            <4>1. n.payload[g] = Masked(word, salt) /\ n.cell[key[g]].salt = salt
                BY <2>1, <2>2, <3>1 DEF Sound
            <4>2. n.value[g] = word
                BY <2>2, <3>1
            <4> QED
                BY <4>1, <4>2, MaskTwice
        <3>2. CASE g # f
            <4>1. key[g] # key[f] /\ n.value[g] = m.value[g]
                BY <2>2, <2>6, <3>2
            <4>2. n.payload[g] = m.payload[g] /\ n.cell[key[g]] = m.cell[key[g]]
                BY <2>1, <2>2, <3>2, <4>1 DEF Sound
            <4> QED
                BY <2>6, <4>1, <4>2 DEF Sound
        <3> QED
            BY <3>1, <3>2
    <2>7. ASSUME NEW g \in Fields, n.value[g] # Lost, g[2] # MirrorIndex
          PROVE  n.cell[key[g]].check = n.cell[key[g]].salt (+) Mixed(n.value[g])
        <3>1. CASE g = f
            BY <2>1, <2>2, <3>1 DEF Sound
        <3>2. CASE g # f
            <4>1. key[g] # key[f] /\ n.value[g] = m.value[g]
                BY <2>2, <2>7, <3>2
            <4>2. n.cell[key[g]] = m.cell[key[g]]
                BY <2>1, <2>2, <4>1 DEF Sound
            <4> QED
                BY <2>7, <4>1, <4>2 DEF Sound
        <3> QED
            BY <3>1, <3>2
    <2> QED
        BY <2>5, <2>6, <2>7 DEF Sound, n
<1> QED
    BY <1>1, <1>2

\* The mirror of an entry is an entry or null, whatever its index decodes to.
LEMMA MirrorIsEntry ==
    ASSUME key \in [Fields -> Keys],
           NEW m, Sound(m), NEW entry \in Entries \cup {None}
    PROVE  MirrorOf(m, entry) \in Entries \cup {None}
<1>1. CASE entry = None
    BY <1>1 DEF MirrorOf
<1>2. CASE entry # None
    <2> DEFINE f == <<entry, MirrorIndex>>
    <2>1. f \in Fields
        BY <1>2 DEF Fields
    <2>2. Masked(m.payload[f], m.cell[key[f]].salt) \in Word
        BY <2>1, MaskTwice DEF Sound
    <2> QED
        BY <1>2, <2>2, Encodings DEF MirrorOf
<1> QED
    BY <1>1, <1>2

FieldsInv == key \in [Fields -> Keys] /\ Sound(Memory)

LEMMA SetDataPreserves ==
    ASSUME FieldsInv, NEW index \in Word, NEW offset \in Offsets,
           NEW word \in Words, SetData(index, offset, word)
    PROVE  FieldsInv'
<1> DEFINE entry == Table[index]
<1>1. PICK s1 \in Half, s2 \in Half :
        LET first  == Encode(Memory, Field(entry, offset), word, s1)
            mirror == MirrorOf(first, entry)
            both   == Encode(first, Field(mirror, offset), word, s2)
        IN  payload' = both.payload /\ cell' = both.cell /\ value' = both.value
    BY DEF SetData
<1> DEFINE first  == Encode(Memory, Field(entry, offset), word, s1)
           mirror == MirrorOf(first, entry)
           both   == Encode(first, Field(mirror, offset), word, s2)
<1>2. word \in Word
    BY Encodings
<1>3. entry \in Entries \cup {None}
    BY Encodings
<1>4. \A e \in Entries \cup {None} : Field(e, offset) \in Fields \cup {None}
    BY DEF Field, Fields
<1>5. Sound(first)
    BY <1>2, <1>3, <1>4, EncodeSound DEF FieldsInv
<1>6. mirror \in Entries \cup {None}
    BY <1>3, <1>5, MirrorIsEntry DEF FieldsInv
<1>7. Sound(both)
    BY <1>2, <1>4, <1>5, <1>6, EncodeSound DEF FieldsInv
<1>8. key' = key
    BY DEF SetData
<1> HIDE DEF first, mirror, both
<1> QED
    BY <1>1, <1>7, <1>8 DEF FieldsInv, Sound, Memory, first, mirror, both

LEMMA SetFieldPreserves ==
    ASSUME FieldsInv, NEW f \in Entries \X Offsets, NEW word \in Words,
           SetField(f, word)
    PROVE  FieldsInv'
<1>1. PICK salt \in Half :
        LET m == Encode(Memory, f, word, salt)
        IN  payload' = m.payload /\ cell' = m.cell /\ value' = m.value
    BY DEF SetField
<1> DEFINE m == Encode(Memory, f, word, salt)
<1>2. Sound(m)
    BY Encodings, EncodeSound DEF FieldsInv, Fields
<1>3. key' = key
    BY DEF SetField
<1> QED
    BY <1>1, <1>2, <1>3 DEF FieldsInv, Sound, Memory

\* The inductive invariant: memory is sound, and keys stay as they are.
THEOREM FieldsInvariance == Spec => []FieldsInv
<1>1. Init => FieldsInv
    <2> SUFFICES ASSUME Init PROVE FieldsInv
        OBVIOUS
    <2>1. {} \in Half /\ Zero \in Word /\ MinusOne \in Word
        BY DEF Half, Zero, Word, MinusOne
    <2>2. payload \in [Fields -> Word]
        BY <2>1 DEF Init, Fields, Indices
    <2>3. cell \in [Keys -> [salt : Half, check : Half]]
        BY <2>1 DEF Init, Mixed, HalfOf, Half
    <2>4. ASSUME NEW w \in Word PROVE Masked(w, {}) = w
        BY DEF Masked, Word, Half, (+)
    <2>5. ASSUME NEW f \in Fields
          PROVE  cell[key[f]].salt = {} /\ cell[key[f]].check = Mixed(Zero)
        BY DEF Init
    <2>6. ASSUME NEW f \in Fields, f[2] # MirrorIndex
          PROVE  value[f] = Zero
        BY <2>6 DEF Init
    <2>7. Mixed(Zero) = {} (+) Mixed(Zero)
        BY DEF (+)
    <2> QED
        BY <2>2, <2>3, <2>4, <2>5, <2>6, <2>7 DEF Init, FieldsInv, Sound, Memory
<1>2. FieldsInv /\ [Next]_vars => FieldsInv'
    <2> SUFFICES ASSUME FieldsInv, [Next]_vars PROVE FieldsInv'
        OBVIOUS
    <2>1. ASSUME NEW index \in Indices, NEW offset \in Offsets,
                 NEW word \in Words, SetData(index, offset, word)
          PROVE  FieldsInv'
        BY <2>1, SetDataPreserves DEF Indices
    <2>2. ASSUME NEW f \in Entries \X Offsets, NEW word \in Words,
                 SetField(f, word)
          PROVE  FieldsInv'
        BY <2>2, SetFieldPreserves
    <2>3. CASE UNCHANGED vars
        BY <2>3 DEF vars, FieldsInv, Sound, Memory
    <2> QED
        BY <2>1, <2>2, <2>3 DEF Next
<1> QED
    BY <1>1, <1>2, PTL DEF Spec

\* A field reads as it was last set, over any number of new salts and writes to
\* other fields, unless one of those had its key.
THEOREM FieldsReadAsSet == Spec => []ReadsAsSet
<1>1. FieldsInv => ReadsAsSet
    <2> SUFFICES ASSUME FieldsInv, NEW f \in Fields, value[f] # Lost
                 PROVE  Decode(f) = value[f]
        BY DEF ReadsAsSet
    <2>1. f # None
        BY Encodings
    <2> QED
        BY <2>1 DEF FieldsInv, Sound, Memory, Decode
<1> QED
    BY <1>1, FieldsInvariance, PTL

\* The check word the game compares fits what a field reads as, in the same
\* cases: writing a field never leaves another with a word that does not fit.
THEOREM ChecksFit == Spec => []CheckFits
<1>1. FieldsInv => CheckFits
    <2> SUFFICES ASSUME FieldsInv, NEW f \in Fields,
                        value[f] # Lost, f[2] # MirrorIndex
                 PROVE  cell[key[f]].check = cell[key[f]].salt (+) Mixed(Decode(f))
        BY DEF CheckFits
    <2>1. f # None
        BY Encodings
    <2> QED
        BY <2>1 DEF FieldsInv, Sound, Memory, Decode
<1> QED
    BY <1>1, FieldsInvariance, PTL

-----------------------------------------------------------------------------
(* Entries and mirrors.                                                    *)

Reading(m, f) == Masked(m.payload[f], m.cell[key[f]].salt)

\* What encoding one field does to what any field reads as.
LEMMA EncodeReads ==
    ASSUME key \in [Fields -> Keys],
           NEW m, Sound(m), NEW f \in Fields, NEW word \in Word, NEW salt \in Half
    PROVE  LET n == Encode(m, f, word, salt)
           IN  /\ Reading(n, f) = word
               /\ \A g \in Fields : key[g] # key[f] =>
                     Reading(n, g) = Reading(m, g) /\ n.value[g] = m.value[g]
               /\ \A g \in Fields \ {f} : key[g] = key[f] => n.value[g] = Lost
<1> DEFINE n == Encode(m, f, word, salt)
<1>1. f # None /\ key[f] \in Keys
    BY Encodings
<1>2. /\ n.payload = [m.payload EXCEPT ![f] = Masked(word, salt)]
      /\ n.cell = [m.cell EXCEPT ![key[f]] = Cell(word, salt)]
      /\ n.value = [g \in Fields |-> IF g = f THEN word
                                     ELSE IF key[g] = key[f] THEN Lost
                                     ELSE m.value[g]]
    BY <1>1 DEF Encode
<1> HIDE DEF n
<1>3. Reading(n, f) = word
    <2>1. n.payload[f] = Masked(word, salt) /\ n.cell[key[f]].salt = salt
        BY <1>1, <1>2 DEF Sound, Cell
    <2> QED
        BY <2>1, MaskTwice DEF Reading
<1>4. ASSUME NEW g \in Fields, key[g] # key[f]
      PROVE  Reading(n, g) = Reading(m, g) /\ n.value[g] = m.value[g]
    <2>1. g # f
        BY <1>4
    <2>2. n.payload[g] = m.payload[g] /\ n.cell[key[g]] = m.cell[key[g]]
        BY <1>1, <1>2, <1>4, <2>1 DEF Sound
    <2>3. n.value[g] = m.value[g]
        BY <1>2, <1>4, <2>1
    <2> QED
        BY <2>2, <2>3 DEF Reading
<1>5. \A g \in Fields \ {f} : key[g] = key[f] => n.value[g] = Lost
    BY <1>2
<1> QED
    BY <1>3, <1>4, <1>5 DEF n

\* The index of a mirror is never set: it stays an index with an entry, or none.
MirrorInv ==
    \A e \in Entries :
        value[<<e, MirrorIndex>>] \in Indices \cup {MinusOne, Lost}

\* A write sets no mirror index.
LEMMA EncodeKeepsMirrors ==
    ASSUME NEW m, NEW f \in (Entries \X Offsets) \cup {None}, NEW word, NEW salt,
           NEW h \in Fields, h[2] = MirrorIndex
    PROVE  Encode(m, f, word, salt).value[h] \in {m.value[h], Lost}
<1>1. CASE f = None
    BY <1>1 DEF Encode
<1>2. CASE f # None
    <2>1. h # f
        BY <1>2, Encodings
    <2> QED
        BY <1>2, <2>1 DEF Encode
<1> QED
    BY <1>1, <1>2

LEMMA MirrorInvariance == Spec => []MirrorInv
<1>1. Init => MirrorInv
    BY DEF Init, MirrorInv, Fields
<1>2. FieldsInv /\ MirrorInv /\ [Next]_vars => MirrorInv'
    <2> SUFFICES ASSUME FieldsInv, MirrorInv, [Next]_vars, NEW e \in Entries
                 PROVE  value'[<<e, MirrorIndex>>] \in Indices \cup {MinusOne, Lost}
        BY DEF MirrorInv
    <2> DEFINE h == <<e, MirrorIndex>>
    <2>1. h \in Fields /\ h[2] = MirrorIndex
        BY DEF Fields
    <2>2. value[h] \in Indices \cup {MinusOne, Lost}
        BY DEF MirrorInv
    <2> HIDE DEF h
    <2>3. ASSUME NEW index \in Indices, NEW offset \in Offsets,
                 NEW word \in Words, SetData(index, offset, word)
          PROVE  value'[h] \in {value[h], Lost}
        <3> DEFINE entry == Table[index]
        <3>1. PICK s1 \in Half, s2 \in Half :
                LET first  == Encode(Memory, Field(entry, offset), word, s1)
                    mirror == MirrorOf(first, entry)
                    both   == Encode(first, Field(mirror, offset), word, s2)
                IN  value' = both.value
            BY <2>3 DEF SetData
        <3> DEFINE first  == Encode(Memory, Field(entry, offset), word, s1)
                   mirror == MirrorOf(first, entry)
                   both   == Encode(first, Field(mirror, offset), word, s2)
        <3>2. entry \in Entries /\ word \in Word
            BY Encodings DEF Indices
        <3>3. \A d \in Entries \cup {None} :
                 /\ Field(d, offset) \in (Entries \X Offsets) \cup {None}
                 /\ Field(d, offset) \in Fields \cup {None}
            BY DEF Field, Fields
        <3>4. Sound(first)
            BY <3>2, <3>3, EncodeSound DEF FieldsInv
        <3>5. mirror \in Entries \cup {None}
            BY <3>2, <3>4, MirrorIsEntry DEF FieldsInv
        <3>6. first.value[h] \in {value[h], Lost}
            BY <2>1, <3>2, <3>3, EncodeKeepsMirrors DEF Memory
        <3> HIDE DEF first, mirror
        <3>7. both.value[h] \in {first.value[h], Lost}
            BY <2>1, <3>3, <3>5, EncodeKeepsMirrors
        <3> QED
            BY <3>1, <3>6, <3>7 DEF first, mirror
    <2>4. ASSUME NEW f \in Entries \X Offsets, NEW word \in Words,
                 SetField(f, word)
          PROVE  value'[h] \in {value[h], Lost}
        <3>1. PICK salt \in Half : value' = Encode(Memory, f, word, salt).value
            BY <2>4 DEF SetField
        <3>2. Encode(Memory, f, word, salt).value[h] \in {Memory.value[h], Lost}
            BY <2>1, EncodeKeepsMirrors
        <3> QED
            BY <3>1, <3>2 DEF Memory
    <2>5. CASE UNCHANGED vars
        BY <2>2, <2>5 DEF vars, h
    <2> QED
        BY <2>2, <2>3, <2>4, <2>5 DEF Next, h
<1> QED
    BY <1>1, <1>2, FieldsInvariance, PTL DEF Spec

\* The mirror is found by what its index reads as after the entry's own field
\* has been written, and both then read as the value that was set.
LEMMA SetDataAgrees ==
    ASSUME FieldsInv, MirrorInv, NEW index \in Indices, NEW offset \in Offsets,
           NEW word \in Words, SetData(index, offset, word)
    PROVE  MirrorAgrees'
<1> DEFINE entry == Table[index]
           f == <<entry, offset>>
           h == <<entry, MirrorIndex>>
<1>1. /\ entry \in Entries /\ f \in Fields /\ h \in Fields /\ f # h
      /\ word \in Word /\ f # None /\ Field(entry, offset) = f
      /\ f \in Entries \X Offsets
    BY Encodings DEF Indices, Fields, Field
<1>2. PICK s1 \in Half, s2 \in Half :
        LET first  == Encode(Memory, f, word, s1)
            mirror == MirrorOf(first, entry)
            both   == Encode(first, Field(mirror, offset), word, s2)
        IN  payload' = both.payload /\ cell' = both.cell /\ value' = both.value
    BY <1>1 DEF SetData
<1> DEFINE first  == Encode(Memory, f, word, s1)
           mirror == MirrorOf(first, entry)
           both   == Encode(first, Field(mirror, offset), word, s2)
<1>3. last' = <<entry, offset, word>> /\ key' = key
    BY DEF SetData
<1>4. Sound(Memory) /\ key \in [Fields -> Keys]
    BY DEF FieldsInv
<1>5. Sound(first) /\ Reading(first, f) = word
    BY <1>1, <1>4, EncodeSound, EncodeReads
<1>6. mirror \in Entries \cup {None}
    BY <1>1, <1>4, <1>5, MirrorIsEntry
<1>7. first.value[h] \in {value[h], Lost}
    BY <1>1, EncodeKeepsMirrors DEF Memory
<1> DEFINE v == both.value[h]
<1>8. \A d \in Fields :
         d # None /\ Masked(payload'[d], cell'[key'[d]].salt) = Reading(both, d)
    BY <1>2, <1>3, Encodings DEF Reading
<1>9. ASSUME v \notin {Lost, MinusOne}
      PROVE  LET g == <<Table[v], offset>>
             IN  /\ g \in Fields /\ Reading(both, g) = word
                 /\ f = g \/ key[f] # key[g] => Reading(both, f) = word
    <2>1. first.value[h] = v
        <3> HIDE DEF first, mirror
        <3>1. Field(mirror, offset) \in (Entries \X Offsets) \cup {None}
            BY <1>6 DEF Field
        <3>2. v \in {first.value[h], Lost}
            BY <1>1, <3>1, EncodeKeepsMirrors
        <3> QED
            BY <1>9, <3>2
    <2>2. v \in Indices
        BY <1>1, <1>7, <1>9, <2>1 DEF MirrorInv
    <2>3. mirror = Table[v] /\ mirror \in Entries
        <3>1. Masked(first.payload[h], first.cell[key[h]].salt) = v
            BY <1>1, <1>5, <1>9, <2>1 DEF Sound
        <3> HIDE DEF first, v
        <3>2. mirror = Table[v]
            BY <1>1, <1>9, <3>1, Encodings DEF MirrorOf
        <3> QED
            BY <1>6, <2>2, <3>2 DEF Indices
    <2> DEFINE g == <<mirror, offset>>
    <2>4. g \in Fields /\ g # None /\ Field(mirror, offset) = g
        BY <2>3, Encodings DEF Field, Fields
    <2>5. /\ Reading(both, g) = word
          /\ key[f] # key[g] => Reading(both, f) = Reading(first, f)
        <3> HIDE DEF first, mirror
        <3> QED
            BY <1>1, <1>4, <1>5, <2>4, EncodeReads
    <2>6. g = <<Table[v], offset>>
        BY <2>3
    <2> HIDE DEF first, mirror, both, v, g, f
    <2>7. f = g \/ key[f] # key[g] => Reading(both, f) = word
        BY <1>5, <2>5
    <2> QED
        BY <2>4, <2>5, <2>6, <2>7
<1>10. value'[h] = v
    BY <1>2
<1> HIDE DEF both, v
<1> QED
    BY <1>1, <1>3, <1>8, <1>9, <1>10 DEF MirrorAgrees, Decode

\* An entry and its mirror agree on a field a script has set, whatever keys
\* they have, unless those make the one write undo the other.
THEOREM MirrorsAgree == Spec => []MirrorAgrees
<1>1. Init => MirrorAgrees
    BY DEF Init, MirrorAgrees
<1>2. FieldsInv /\ MirrorInv /\ MirrorAgrees /\ [Next]_vars => MirrorAgrees'
    <2> SUFFICES ASSUME FieldsInv, MirrorInv, MirrorAgrees, [Next]_vars
                 PROVE  MirrorAgrees'
        OBVIOUS
    <2>1. ASSUME NEW index \in Indices, NEW offset \in Offsets,
                 NEW word \in Words, SetData(index, offset, word)
          PROVE  MirrorAgrees'
        BY <2>1, SetDataAgrees
    <2>2. ASSUME NEW f \in Entries \X Offsets, NEW word \in Words,
                 SetField(f, word)
          PROVE  MirrorAgrees'
        BY <2>2 DEF SetField, MirrorAgrees
    <2>3. CASE UNCHANGED vars
        BY <2>3 DEF vars, MirrorAgrees, Decode
    <2> QED
        BY <2>1, <2>2, <2>3 DEF Next
<1> QED
    BY <1>1, <1>2, FieldsInvariance, MirrorInvariance, PTL DEF Spec

-----------------------------------------------------------------------------
(* Parsing a path.                                                         *)

\* The tokens that begin before the place p.
Begun(p) == {k \in TokenStarts : k < p}

\* The number of the token at i is where it belongs among the offsets.
Parsed(i) ==
    \E j \in i .. Len(path) :
        /\ Numeral(i, j)
        /\ offsets[Cardinality({k \in TokenStarts : k <= i})] = ValueOf[path[j]]

\* What is left of the path begins at the place p.
LeftAt(p) ==
    /\ rest \in Seq(Items) /\ Len(rest) = Len(path) - p + 1
    /\ \A x \in 1 .. Len(rest) : rest[x] = path[p + x - 1]

ParseInv ==
    /\ path \in Seq(Items) /\ offsets \in Seq(Int)
    /\ state = "parsing" =>
          \E p \in TokenStarts :
              /\ LeftAt(p)
              /\ Len(offsets) = Cardinality(Begun(p))
              /\ \A i \in Begun(p) : Parsed(i)
    /\ ParsedOrThrown

LEMMA FirstFacts ==
    ASSUME NEW S \in SUBSET Nat, S # {}
    PROVE  First(S) \in S /\ \A j \in S : First(S) <= j
<1> DEFINE upTo(n) == S \cap (0 .. n)
           Family == {upTo(n) : n \in S}
<1>1. Family \subseteq FiniteSubsetsOf(Nat) /\ Family # {}
    <2>1. ASSUME NEW n \in S
          PROVE  upTo(n) \in FiniteSubsetsOf(Nat)
        <3>1. IsFiniteSet(0 .. n)
            BY FS_Interval
        <3>2. IsFiniteSet(upTo(n))
            BY <3>1, FS_Subset
        <3> QED
            BY <3>2 DEF FiniteSubsetsOf
    <2> QED
        BY <2>1
<1>2. PICK T \in Family : \A U \in Family : <<U, T>> \notin StrictSubsetOrdering(Nat)
    <2>1. IsWellFoundedOn(StrictSubsetOrdering(Nat), FiniteSubsetsOf(Nat))
        BY FS_StrictSubsetOrderingWellFounded
    <2> HIDE DEF Family
    <2> QED
        BY <1>1, <2>1, WFMin
<1>3. PICK i \in S : T = upTo(i)
    OBVIOUS
<1>4. ASSUME NEW j \in S
      PROVE  i <= j
    <2>1. SUFFICES ASSUME j < i
                   PROVE  FALSE
        OBVIOUS
    <2>2. upTo(j) \subseteq upTo(i) /\ upTo(j) # upTo(i) /\ upTo(j) \in Family
        BY <2>1
    <2>3. <<upTo(j), upTo(i)>> \in StrictSubsetOrdering(Nat)
        BY <2>2 DEF StrictSubsetOrdering
    <2> QED
        BY <1>2, <1>3, <2>2, <2>3
<1> HIDE DEF Family
<1> QED
    BY <1>4 DEF First

LEMMA Texts ==
    /\ Plus # Blank /\ Plus \notin Numbers /\ Blank \notin Numbers
    /\ \A n \in Numbers : ValueOf[n] \in Int
BY PathAssumption DEF Plus, Blank

\* Where the token at the front of what is left ends.
LEMMA EndOfToken ==
    ASSUME rest \in Seq(Items)
    PROVE  /\ TokenEnd \in 1 .. Len(rest) + 1
           /\ TokenEnd <= Len(rest) => rest[TokenEnd] = Plus
           /\ \A x \in 1 .. TokenEnd - 1 : x \in 1 .. Len(rest) /\ rest[x] # Plus
<1> DEFINE pluses == {i \in DOMAIN rest : rest[i] = Plus}
<1>1. DOMAIN rest = 1 .. Len(rest) /\ Len(rest) \in Nat
    OBVIOUS
<1>2. pluses \in SUBSET Nat /\ \A x \in 1 .. Len(rest) : x \in pluses <=> rest[x] = Plus
    BY <1>1
<1>3. TokenEnd = IF pluses = {} THEN Len(rest) + 1 ELSE First(pluses)
    BY DEF TokenEnd
<1>4. CASE pluses = {}
    BY <1>1, <1>2, <1>3, <1>4
<1>5. CASE pluses # {}
    <2>1. TokenEnd \in pluses /\ \A x \in pluses : TokenEnd <= x
        BY <1>2, <1>3, <1>5, FirstFacts
    <2>2. TokenEnd \in 1 .. Len(rest) /\ rest[TokenEnd] = Plus
        BY <1>1, <2>1
    <2> HIDE DEF pluses
    <2> QED
        BY <1>1, <1>2, <2>1, <2>2
<1> QED
    BY <1>4, <1>5

\* The next token that can begin after the one at p begins behind its end.
LEMMA NextToken ==
    ASSUME path \in Seq(Items), NEW p \in TokenStarts, LeftAt(p)
    PROVE  /\ p \in 1 .. Len(path) /\ TokenEnd \in 1 .. Len(rest) + 1
           /\ Len(path) \in Nat /\ Len(rest) = Len(path) - p + 1
           /\ \A k \in TokenStarts : k > p => k >= p + TokenEnd
           /\ p + TokenEnd <= Len(path) => p + TokenEnd \in TokenStarts
<1>1. DOMAIN path = 1 .. Len(path) /\ Len(path) \in Nat
    OBVIOUS
<1>2. p \in 1 .. Len(path)
    BY <1>1 DEF TokenStarts
<1>3. /\ TokenEnd \in 1 .. Len(rest) + 1
      /\ TokenEnd <= Len(rest) => rest[TokenEnd] = Plus
      /\ \A x \in 1 .. TokenEnd - 1 : x \in 1 .. Len(rest) /\ rest[x] # Plus
    BY EndOfToken DEF LeftAt
<1>4. Len(rest) = Len(path) - p + 1 /\ \A x \in 1 .. Len(rest) : rest[x] = path[p + x - 1]
    BY DEF LeftAt
<1>5. ASSUME NEW k \in TokenStarts, k > p
      PROVE  k >= p + TokenEnd
    <2>1. k \in 1 .. Len(path) /\ path[k - 1] = Plus
        BY <1>1, <1>2, <1>5 DEF TokenStarts
    <2>2. k - p \in 1 .. Len(rest) /\ p + (k - p) - 1 = k - 1
        BY <1>1, <1>2, <1>4, <1>5, <2>1
    <2>3. rest[k - p] = Plus
        BY <1>4, <2>1, <2>2
    <2>4. ~(k - p \in 1 .. TokenEnd - 1)
        BY <1>3, <2>3
    <2> QED
        BY <1>1, <1>2, <1>3, <1>4, <2>1, <2>2, <2>4
<1>6. ASSUME p + TokenEnd <= Len(path)
      PROVE  p + TokenEnd \in TokenStarts
    <2>1. TokenEnd \in 1 .. Len(rest) /\ TokenEnd <= Len(rest)
        BY <1>1, <1>2, <1>3, <1>4, <1>6
    <2>2. path[p + TokenEnd - 1] = Plus
        BY <1>3, <1>4, <2>1
    <2>3. p + TokenEnd \in 1 .. Len(path)
        BY <1>1, <1>2, <1>3, <1>4, <1>6
    <2> QED
        <3>1. p + TokenEnd \in DOMAIN path
            BY <1>1, <2>3
        <3>2. \A i \in DOMAIN path : path[i - 1] = Plus => i \in TokenStarts
            BY DEF TokenStarts
        <3> QED
            BY <1>2, <1>3, <2>2, <3>1, <3>2
<1> QED
    BY <1>1, <1>2, <1>3, <1>4, <1>5, <1>6

\* The token at the front has a number just when the one in the path has.
LEMMA NumberOfToken ==
    ASSUME path \in Seq(Items), NEW p \in TokenStarts, LeftAt(p)
    PROVE  /\ IsNumber => \E j \in p .. Len(path) :
                             Numeral(p, j) /\ path[j] = rest[First(NonBlanks)]
           /\ ~IsNumber => \A j \in p .. Len(path) : ~Numeral(p, j)
<1>1. /\ p \in 1 .. Len(path) /\ TokenEnd \in 1 .. Len(rest) + 1
      /\ Len(path) \in Nat /\ Len(rest) = Len(path) - p + 1
    BY NextToken
<1>2. /\ TokenEnd <= Len(rest) => rest[TokenEnd] = Plus
      /\ \A x \in 1 .. TokenEnd - 1 : x \in 1 .. Len(rest) /\ rest[x] # Plus
    BY EndOfToken DEF LeftAt
<1>3. \A x \in 1 .. Len(rest) : rest[x] = path[p + x - 1]
    BY DEF LeftAt
<1>4. /\ NonBlanks \in SUBSET Nat
      /\ \A x \in 1 .. TokenEnd - 1 : x \in NonBlanks <=> rest[x] # Blank
      /\ \A x \in NonBlanks : x \in 1 .. TokenEnd - 1
    BY <1>1 DEF NonBlanks
<1> DEFINE f == First(NonBlanks)
<1>5. NonBlanks # {} => f \in NonBlanks /\ \A x \in NonBlanks : f <= x
    BY <1>4, FirstFacts
<1> HIDE DEF f
<1>6. ASSUME IsNumber
      PROVE  \E j \in p .. Len(path) : Numeral(p, j) /\ path[j] = rest[f]
    <2>1. f \in 1 .. TokenEnd - 1 /\ rest[f] \in Numbers /\ \A x \in NonBlanks : f <= x
        BY <1>4, <1>5, <1>6 DEF IsNumber, f
    <2>2. f \in 1 .. Len(rest) /\ p + f - 1 \in p .. Len(path)
        BY <1>1, <1>2, <2>1
    <2>3. path[p + f - 1] = rest[f]
        BY <1>3, <2>2
    <2>4. ASSUME NEW k \in p .. (p + f - 1) - 1
          PROVE  path[k] = Blank
        <3>1. /\ k - p + 1 \in 1 .. TokenEnd - 1 /\ k - p + 1 < f
              /\ p + (k - p + 1) - 1 = k
            BY <1>1, <2>1, <2>4
        <3>2. rest[k - p + 1] = Blank
            BY <1>4, <2>1, <3>1
        <3> QED
            BY <1>2, <1>3, <3>1, <3>2
    <2>5. Numeral(p, p + f - 1)
        BY <2>1, <2>3, <2>4 DEF Numeral
    <2> QED
        BY <2>2, <2>3, <2>5
<1>7. ASSUME NEW j \in p .. Len(path), Numeral(p, j)
      PROVE  IsNumber
    <2> DEFINE y == j - p + 1
    <2>1. y \in 1 .. Len(rest) /\ p + y - 1 = j
        BY <1>1
    <2>2. rest[y] \in Numbers
        BY <1>3, <1>7, <2>1 DEF Numeral
    <2>3. \A x \in 1 .. y - 1 : rest[x] = Blank
        <3> SUFFICES ASSUME NEW x \in 1 .. y - 1
                     PROVE  rest[x] = Blank
            OBVIOUS
        <3>1. x \in 1 .. Len(rest) /\ p + x - 1 \in p .. j - 1
            BY <1>1, <2>1
        <3> QED
            BY <1>3, <1>7, <3>1 DEF Numeral
    <2> HIDE DEF y
    <2>4. y \in 1 .. TokenEnd - 1
        <3>1. \A x \in 1 .. y : rest[x] # Plus
            BY <2>1, <2>2, <2>3, Texts
        <3>2. CASE TokenEnd <= Len(rest)
            <4>1. ~(TokenEnd \in 1 .. y)
                BY <1>2, <3>1, <3>2
            <4> QED
                BY <1>1, <2>1, <4>1
        <3>3. CASE ~(TokenEnd <= Len(rest))
            BY <1>1, <2>1, <3>3
        <3> QED
            BY <3>2, <3>3
    <2>5. y \in NonBlanks
        BY <1>4, <2>2, <2>4, Texts
    <2>6. f \in NonBlanks /\ f <= y /\ f \in 1 .. TokenEnd - 1
        BY <1>4, <1>5, <2>5
    <2>7. ~(f \in 1 .. y - 1)
        BY <1>4, <2>3, <2>6
    <2>8. f = y
        BY <1>1, <2>1, <2>6, <2>7
    <2> QED
        BY <2>2, <2>5, <2>8 DEF IsNumber, f
<1> QED
    BY <1>6, <1>7 DEF f

\* The tokens up to one, counted.
LEMMA TokensCounted ==
    ASSUME path \in Seq(Items), NEW p \in TokenStarts
    PROVE  /\ IsFiniteSet(Begun(p)) /\ Cardinality(Begun(p)) \in Nat
           /\ Cardinality({k \in TokenStarts : k <= p}) = Cardinality(Begun(p)) + 1
           /\ \A i \in Begun(p) :
                 Cardinality({k \in TokenStarts : k <= i}) \in 1 .. Cardinality(Begun(p))
<1>1. Len(path) \in Nat /\ DOMAIN path = 1 .. Len(path) /\ IsFiniteSet(1 .. Len(path))
    BY FS_Interval
<1>2. \A k \in TokenStarts : k \in 1 .. Len(path)
    BY <1>1 DEF TokenStarts
<1>3. IsFiniteSet(Begun(p)) /\ Cardinality(Begun(p)) \in Nat
    <2>1. Begun(p) \in SUBSET (1 .. Len(path))
        BY <1>2 DEF Begun
    <2> QED
        BY <1>1, <2>1, FS_Subset, FS_CardinalityType
<1>4. Cardinality({k \in TokenStarts : k <= p}) = Cardinality(Begun(p)) + 1
    <2>1. {k \in TokenStarts : k <= p} = Begun(p) \cup {p}
        BY <1>2 DEF Begun
    <2>2. p \notin Begun(p)
        BY <1>2 DEF Begun
    <2> QED
        BY <1>3, <2>1, <2>2, FS_AddElement
<1>5. ASSUME NEW i \in Begun(p)
      PROVE  Cardinality({k \in TokenStarts : k <= i}) \in 1 .. Cardinality(Begun(p))
    <2> DEFINE U == {k \in TokenStarts : k <= i}
    <2>1. U \in SUBSET Begun(p) /\ i \in U
        BY <1>2 DEF Begun
    <2> HIDE DEF U
    <2>2. IsFiniteSet(U) /\ Cardinality(U) <= Cardinality(Begun(p)) /\ U # {}
        BY <1>3, <2>1, FS_Subset
    <2>3. Cardinality(U) \in Nat /\ Cardinality(U) # 0
        BY <2>2, FS_CardinalityType, FS_EmptySet
    <2>4. Cardinality(U) \in 1 .. Cardinality(Begun(p))
        BY <1>3, <2>2, <2>3
    <2> QED
        BY <2>4 DEF U
<1> QED
    BY <1>3, <1>4, <1>5

LEMMA ParseTokenKeepsInv ==
    ASSUME ParseInv, ParseToken
    PROVE  ParseInv'
<1>1. /\ state = "parsing" /\ IsNumber /\ path' = path /\ path \in Seq(Items)
      /\ offsets \in Seq(Int)
      /\ offsets' = Append(offsets, ValueOf[rest[First(NonBlanks)]])
    BY DEF ParseToken, ParseInv
<1>2. PICK p \in TokenStarts :
        /\ LeftAt(p) /\ Len(offsets) = Cardinality(Begun(p))
        /\ \A i \in Begun(p) : Parsed(i)
    BY <1>1 DEF ParseInv
<1> DEFINE n == Cardinality(Begun(p))
           v == ValueOf[rest[First(NonBlanks)]]
           upTo(i) == Cardinality({k \in TokenStarts : k <= i})
<1>3. /\ n \in Nat /\ Len(offsets) = n /\ upTo(p) = n + 1
      /\ \A i \in Begun(p) : upTo(i) \in 1 .. n
    BY <1>1, <1>2, TokensCounted
<1>4. TokenStarts' = TokenStarts /\ Begun(p)' = Begun(p)
    BY <1>1 DEF TokenStarts, Begun
<1>5. PICK J \in p .. Len(path) : Numeral(p, J) /\ v = ValueOf[path[J]]
    BY <1>1, <1>2, NumberOfToken
<1>6. v \in Int
    BY <1>5, Texts DEF Numeral
<1> HIDE DEF v, n, upTo
<1>7. /\ offsets' \in Seq(Int) /\ Len(offsets') = n + 1 /\ offsets'[n + 1] = v
      /\ \A k \in 1 .. n : offsets'[k] = offsets[k]
    BY <1>1, <1>3, <1>6, AppendProperties DEF v
<1>8. \A i, j : Numeral(i, j)' <=> Numeral(i, j)
    BY <1>1 DEF Numeral
<1>9. ASSUME NEW i \in Begun(p) \cup {p}
      PROVE  \E j \in i .. Len(path) :
                Numeral(i, j) /\ offsets'[upTo(i)] = ValueOf[path[j]]
    <2>1. CASE i = p
        BY <1>3, <1>5, <1>7, <2>1
    <2>2. CASE i # p
        <3>1. i \in Begun(p) /\ upTo(i) \in 1 .. n
            BY <1>3, <1>9, <2>2
        <3>2. offsets'[upTo(i)] = offsets[upTo(i)]
            BY <1>7, <3>1
        <3> QED
            BY <1>2, <3>1, <3>2 DEF Parsed, upTo
    <2> QED
        BY <2>1, <2>2
<1>10. /\ p \in 1 .. Len(path) /\ TokenEnd \in 1 .. Len(rest) + 1 /\ Len(path) \in Nat
       /\ Len(rest) = Len(path) - p + 1
       /\ \A k \in TokenStarts : k > p => k >= p + TokenEnd
       /\ p + TokenEnd <= Len(path) => p + TokenEnd \in TokenStarts
       /\ \A k \in TokenStarts : k \in 1 .. Len(path)
    <2>1. \A k \in TokenStarts : k \in 1 .. Len(path)
        BY <1>1 DEF TokenStarts
    <2> QED
        BY <1>1, <1>2, <2>1, NextToken
<1>11. CASE LastToken
    <2>1. state' = "parsed"
        BY <1>11 DEF ParseToken
    <2>2. TokenStarts = Begun(p) \cup {p}
        <3>1. \A k \in TokenStarts : ~(k > p)
            BY <1>10, <1>11 DEF LastToken
        <3>2. \A k \in TokenStarts : k < p \/ k = p
            BY <1>10, <3>1
        <3> QED
            BY <3>2 DEF Begun
    <2>3. Cardinality(TokenStarts) = n + 1
        <3>1. p \notin Begun(p)
            BY <1>10 DEF Begun
        <3> QED
            BY <1>1, <2>2, <3>1, TokensCounted, FS_AddElement DEF n
    <2>4. ParsedOrThrown'
        BY <1>1, <1>4, <1>7, <1>8, <1>9, <2>1, <2>2, <2>3 DEF ParsedOrThrown, upTo
    <2> QED
        BY <1>1, <1>7, <2>1, <2>4 DEF ParseInv
<1>12. CASE ~LastToken
    <2>0. PICK q : q = p + TokenEnd
        OBVIOUS
    <2>1. /\ state' = "parsing" /\ rest' = SubSeq(rest, TokenEnd + 1, Len(rest))
          /\ TokenEnd < Len(rest)
        BY <1>1, <1>10, <1>12 DEF ParseToken, LastToken
    <2>2. q \in TokenStarts /\ q <= Len(path) /\ p < q /\ q \in Nat
        BY <1>10, <2>0, <2>1
    <2>3. \A k \in TokenStarts : k < q <=> k \in Begun(p) \cup {p}
        BY <1>10, <2>0, <2>2 DEF Begun
    <2>4. {k \in TokenStarts : k < q} = Begun(p) \cup {p}
        BY <2>3 DEF Begun
    <2>5. rest' \in Seq(Items) /\ Len(rest') = Len(rest) - TokenEnd
          /\ \A x \in 1 .. Len(rest') : rest'[x] = rest[TokenEnd + x]
        <3>1. rest \in Seq(Items) /\ TokenEnd + 1 \in Int /\ Len(rest) \in Int
            BY <1>2, <1>10 DEF LeftAt
        <3>2. \A i \in TokenEnd + 1 .. Len(rest) : rest[i] \in Items
            BY <1>10, <3>1, ElementOfSeq
        <3>3. /\ rest' \in Seq(Items)
              /\ Len(rest') = IF TokenEnd + 1 <= Len(rest) THEN Len(rest) - (TokenEnd + 1) + 1
                              ELSE 0
              /\ \A i \in 1 .. Len(rest) - (TokenEnd + 1) + 1 :
                    rest'[i] = rest[(TokenEnd + 1) + i - 1]
            BY <2>1, <3>1, <3>2, SubSeqProperties
        <3>4. Len(rest') = Len(rest) - TokenEnd
            BY <1>10, <2>1, <3>3
        <3>5. ASSUME NEW x \in 1 .. Len(rest')
              PROVE  rest'[x] = rest[TokenEnd + x]
            <4>1. /\ x \in 1 .. Len(rest) - (TokenEnd + 1) + 1
                  /\ (TokenEnd + 1) + x - 1 = TokenEnd + x
                BY <1>10, <3>4
            <4> QED
                BY <3>3, <4>1
        <3> QED
            BY <3>3, <3>4, <3>5
    <2>6. LeftAt(q)'
        <3>1. Len(rest') = Len(path) - q + 1
            BY <1>10, <2>0, <2>5
        <3>2. ASSUME NEW x \in 1 .. Len(rest')
              PROVE  rest'[x] = path[q + x - 1]
            <4>1. TokenEnd + x \in 1 .. Len(rest) /\ p + (TokenEnd + x) - 1 = q + x - 1
                BY <1>10, <2>0, <2>5
            <4> QED
                BY <1>2, <2>5, <4>1 DEF LeftAt
        <3> QED
            BY <1>1, <2>5, <3>1, <3>2 DEF LeftAt
    <2>7. (Begun(q))' = Begun(p) \cup {p}
        BY <1>1, <1>4, <2>4 DEF Begun
    <2>8. Len(offsets') = Cardinality(Begun(p) \cup {p})
        <3>1. p \notin Begun(p)
            BY <1>10 DEF Begun
        <3> QED
            BY <1>1, <1>7, <3>1, TokensCounted, FS_AddElement DEF n
    <2>9. \A i \in Begun(p) \cup {p} : Parsed(i)'
        BY <1>1, <1>4, <1>8, <1>9 DEF Parsed, upTo
    <2>10. ParsedOrThrown'
        BY <2>1 DEF ParsedOrThrown
    <2> QED
        BY <1>1, <1>4, <1>7, <2>1, <2>2, <2>6, <2>7, <2>8, <2>9, <2>10 DEF ParseInv
<1> QED
    BY <1>11, <1>12

LEMMA ParseInvariance == OffsetSpec => []ParseInv
<1>1. OffsetInit => ParseInv
    <2> SUFFICES ASSUME OffsetInit
                 PROVE  ParseInv
        OBVIOUS
    <2>1. path \in Seq(Items) /\ rest = path /\ offsets = << >> /\ Len(path) \in Nat
        BY PathAssumption DEF OffsetInit
    <2>2. CASE path = << >>
        <3>1. state = "parsed" /\ TokenStarts = {}
            BY <2>1, <2>2 DEF OffsetInit, TokenStarts
        <3> QED
            BY <2>1, <3>1, FS_EmptySet DEF ParseInv, ParsedOrThrown
    <2>3. CASE path # << >>
        <3>1. state = "parsing" /\ 1 \in DOMAIN path /\ 1 \in TokenStarts
            BY <2>1, <2>3, EmptySeq DEF OffsetInit, TokenStarts
        <3>2. LeftAt(1)
            BY <2>1 DEF LeftAt
        <3>3. Begun(1) = {}
            BY <2>1 DEF Begun, TokenStarts
        <3>4. Len(offsets) = Cardinality(Begun(1)) /\ \A i \in Begun(1) : Parsed(i)
            BY <2>1, <3>3, FS_EmptySet
        <3>5. offsets \in Seq(Int)
            BY <2>1
        <3>6. ParsedOrThrown
            BY <3>1 DEF ParsedOrThrown
        <3> QED
            BY <2>1, <3>1, <3>2, <3>4, <3>5, <3>6 DEF ParseInv
    <2> QED
        BY <2>2, <2>3
<1>2. ParseInv /\ [OffsetNext]_offsetVars => ParseInv'
    <2> SUFFICES ASSUME ParseInv, [OffsetNext]_offsetVars
                 PROVE  ParseInv'
        OBVIOUS
    <2>1. CASE Throw
        <3>1. /\ state = "parsing" /\ ~IsNumber /\ state' = "thrown"
              /\ path' = path /\ offsets' = offsets
            BY <2>1 DEF Throw, pathVars
        <3>2. \E i \in TokenStarts : \A j \in i .. Len(path) : ~Numeral(i, j)
            BY <3>1, NumberOfToken DEF ParseInv
        <3> QED
            BY <3>1, <3>2 DEF ParseInv, ParsedOrThrown, TokenStarts, Numeral
    <2>2. CASE Begin \/ Empty
        BY <2>2 DEF Begin, Empty, ParseInv, ParsedOrThrown, pathVars
    <2>3. CASE Encoded \/ Pointer \/ Resolve \/ Global \/ Pair \/ PairString
        <3>1. path' = path /\ offsets' = offsets /\ state' \in {"walking", "done"}
            BY <2>3 DEF Encoded, Pointer, Resolve, Global, Pair, PairString, On, GoOn,
                        Finish, Start, pathVars
        <3> QED
            BY <3>1 DEF ParseInv, ParsedOrThrown
    <2>4. CASE UNCHANGED offsetVars
        <3>1. path' = path /\ offsets' = offsets /\ state' = state /\ rest' = rest
            BY <2>4 DEF offsetVars, pathVars
        <3>2. TokenStarts' = TokenStarts /\ \A i, j : Numeral(i, j)' <=> Numeral(i, j)
            BY <3>1 DEF TokenStarts, Numeral
        <3>3. ASSUME NEW p
              PROVE  /\ LeftAt(p)' <=> LeftAt(p)
                     /\ Begun(p)' = Begun(p)
                     /\ Parsed(p)' <=> Parsed(p)
            BY <3>1, <3>2 DEF LeftAt, Begun, Parsed
        <3>4. ParsedOrThrown'
            BY <3>1, <3>2 DEF ParseInv, ParsedOrThrown
        <3> QED
            BY <3>1, <3>2, <3>3, <3>4 DEF ParseInv
    <2> QED
        BY <2>1, <2>2, <2>3, <2>4, ParseTokenKeepsInv DEF OffsetNext
<1> QED
    BY <1>1, <1>2, PTL DEF OffsetSpec

\* Parsing a path of any length finds the numbers between the pluses, in their
\* order, and throws only when one of them is missing.
THEOREM PathsParsed == OffsetSpec => []ParsedOrThrown
BY ParseInvariance, PTL DEF ParseInv

-----------------------------------------------------------------------------
(* Following offsets.                                                      *)

Steps == Len(offsets)

\* What a place answers in the memory m, and that m has it.
Answer(m, a) == IF a = 0 THEN 0 ELSE m[a]
Known(m, a)  == a # 0 => a \in DOMAIN m

\* The place whose content is the k-th of the addresses c, which the path leads
\* through; beyond the last of them, the place the path leads to.
Before(c, k) == IF k = 1 THEN base ELSE AddOffset(c[k - 1], offsets[k - 1])

\* The addresses c are those the first n offsets are added to, in the memory m;
\* once null, they stay null.
Trail(c, n, m) ==
    /\ c \in [1 .. n -> Addresses] /\ n \in 1 .. Steps
    /\ \A k \in 1 .. n : Known(m, Before(c, k)) /\ c[k] = Answer(m, Before(c, k))
    /\ \A j, k \in 1 .. n : j <= k /\ c[j] = 0 => c[k] = 0

\* What the walks that have ended have found, f, when the path leads through c.
Results(c, f, m, w) ==
    /\ Len(f) >= 1 => f[1] = AddOffset(c[Steps], offsets[Steps])
    /\ Len(f) >= 2 => Known(m, f[1]) /\ f[2] = Answer(m, f[1])
    /\ Len(f) >= 3 /\ ~w => /\ f[3] = f[1]
                            /\ \A k \in 1 .. Steps : ~Wraps(c[k], offsets[k])
    /\ Len(f) >= 4 /\ ~w => f[4] = Answer(m, f[1])
    /\ Len(f) >= 5 => f[5] = f[1]
    /\ Len(f) >= 6 => f[6] = f[1]

\* Where the walk in progress is on its way through c; the second, third and
\* fourth only if no address has wrapped.
Position(c) ==
    /\ walk = 2 => next \in 1 .. Steps /\ current = c[next]
    /\ walk = 3 =>
          /\ next \in 1 .. Steps
          /\ ~wrapped => /\ current # 0 /\ current = Before(c, next)
                         /\ \A k \in 1 .. next - 1 : ~Wraps(c[k], offsets[k])
    /\ walk = 4 =>
          /\ next \in 1 .. Steps + 1
          /\ ~wrapped => current # 0 /\ current = Before(c, next)
    /\ walk \in Pairs => Steps = 2
    /\ walk = 6 => next \in 1 .. 2 /\ current = Before(c, next)

\* The memory and what the script has passed.
Setting ==
    /\ offsets \in Seq(Int) /\ offsets # << >>
    /\ \E D \in SUBSET (Addresses \ {0}) : mem \in [D -> Addresses]
    /\ base \in Addresses \ {0} /\ object \in Addresses
    /\ base \in DOMAIN mem /\ mem[base] = object
    /\ found \in Seq(Addresses) /\ current \in Addresses /\ wrapped \in BOOLEAN

WalkInv ==
    /\ offsets \in Seq(Int)
    /\ state \in {"parsing", "thrown", "parsed"} =>
          walk = 0 /\ found = << >> /\ wrapped = FALSE
    /\ state = "walking" =>
          /\ Setting /\ walk = Len(found) + 1 /\ walk \in 1 .. 6
          /\ walk = 1 => \E c : Trail(c, next, mem) /\ current = c[next]
          /\ walk # 1 => \E c : /\ Trail(c, Steps, mem) /\ Position(c)
                                /\ Results(c, found, mem, wrapped)
    /\ state = "done" /\ offsets # << >> =>
          /\ Setting /\ Len(found) >= 4 /\ (Steps = 2 => Len(found) = 6)
          /\ \E c : Trail(c, Steps, mem) /\ Results(c, found, mem, wrapped)

LEMMA AddressFacts ==
    /\ Size \in Nat \ {0} /\ 0 \in Addresses
    /\ \A a \in Addresses, o \in Int :
          /\ AddOffset(a, o) \in Addresses /\ Add(a, o) \in Addresses
          /\ Wraps(a, o) \in BOOLEAN
          /\ ~Wraps(a, o) => Add(a, o) = AddOffset(a, o)
    /\ \A o \in Int : AddOffset(0, o) = 0 /\ Add(0, o) = 0
<1>1. Size \in Nat \ {0}
    BY PathAssumption
<1>2. \A x \in Int : x % Size \in 0 .. Size - 1 /\ (x \in 0 .. Size - 1 => x % Size = x)
    BY <1>1
<1> QED
    BY <1>1, <1>2 DEF Addresses, AddOffset, Add, Wraps

\* ReadFacts a place that the memory has answers what it has; reading keeps all
\* it has.
LEMMA ReadFacts ==
    ASSUME Setting, NEW a \in Addresses, NEW v \in Addresses, Read(a, v)
    PROVE  /\ \E D \in SUBSET (Addresses \ {0}) : mem' \in [D -> Addresses]
           /\ \A b \in DOMAIN mem : b \in DOMAIN mem' /\ mem'[b] = mem[b]
           /\ Known(mem', a) /\ v = Answer(mem', a)
           /\ Known(mem, a) => v = Answer(mem, a)
<1>1. PICK D \in SUBSET (Addresses \ {0}) : mem \in [D -> Addresses]
    BY DEF Setting
<1>2. CASE a = 0
    BY <1>1, <1>2 DEF Read, Known, Answer
<1>3. CASE a # 0
    <2>1. mem' = [b \in D \cup {a} |-> IF b = a THEN v ELSE mem[b]]
        BY <1>1, <1>3 DEF Read
    <2>2. mem' \in [D \cup {a} -> Addresses] /\ D \cup {a} \in SUBSET (Addresses \ {0})
        BY <1>1, <1>3, <2>1
    <2>3. \A b \in DOMAIN mem : b \in DOMAIN mem' /\ mem'[b] = mem[b]
        BY <1>1, <1>3, <2>1 DEF Read
    <2>4. Known(mem', a) /\ v = Answer(mem', a)
        BY <1>3, <2>1 DEF Known, Answer
    <2>5. Known(mem, a) => v = Answer(mem, a)
        BY <1>3 DEF Known, Answer, Read
    <2> QED
        BY <2>2, <2>3, <2>4, <2>5
<1> QED
    BY <1>2, <1>3

\* The places a path leads through, and what they hold.
LEMMA OnTrail ==
    ASSUME Setting, NEW c, NEW n, Trail(c, n, mem)
    PROVE  /\ Steps \in Nat \ {0} /\ n \in 1 .. Steps
           /\ c[1] = object
           /\ \A k \in 1 .. n : c[k] \in Addresses /\ offsets[k] \in Int
           /\ \A k \in 1 .. n + 1 : Before(c, k) \in Addresses
           /\ \A k \in 1 .. n : Known(mem, Before(c, k)) /\ c[k] = Answer(mem, Before(c, k))
           /\ \A k \in 2 .. n + 1 : Before(c, k) = AddOffset(c[k - 1], offsets[k - 1])
<1>1. Steps \in Nat \ {0} /\ n \in 1 .. Steps /\ c \in [1 .. n -> Addresses]
    BY EmptySeq DEF Setting, Trail, Steps
<1>2. \A k \in 1 .. n : c[k] \in Addresses /\ offsets[k] \in Int
    <2>1. \A k \in 1 .. Steps : offsets[k] \in Int
        BY ElementOfSeq DEF Setting, Steps
    <2> QED
        BY <1>1, <2>1
<1>3. c[1] = object
    <2>1. 1 \in 1 .. n
        BY <1>1
    <2> QED
        BY <2>1 DEF Trail, Setting, Before, Answer
<1>4. ASSUME NEW k \in 1 .. n + 1
      PROVE  /\ Before(c, k) \in Addresses
             /\ k # 1 => Before(c, k) = AddOffset(c[k - 1], offsets[k - 1])
    <2>1. CASE k = 1
        BY <2>1 DEF Before, Setting
    <2>2. CASE k # 1
        <3>1. k - 1 \in 1 .. n
            BY <1>1, <2>2
        <3> QED
            BY <1>2, <2>2, <3>1, AddressFacts DEF Before
    <2> QED
        BY <2>1, <2>2
<1> QED
    BY <1>1, <1>2, <1>3, <1>4 DEF Trail

\* A path leads through the same addresses however the memory grows.
LEMMA TrailKept ==
    ASSUME Setting, NEW c, NEW n, Trail(c, n, mem), NEW m,
           \A b \in DOMAIN mem : b \in DOMAIN m /\ m[b] = mem[b]
    PROVE  Trail(c, n, m)
BY DEF Trail, Known, Answer

\* The results stand however the memory grows and whatever else wraps.
LEMMA ResultsKept ==
    ASSUME Setting, NEW c, Results(c, found, mem, wrapped), NEW w, wrapped => w, NEW m,
           \A b \in DOMAIN mem : b \in DOMAIN m /\ m[b] = mem[b]
    PROVE  Results(c, found, m, w)
<1>1. Len(found) \in Nat
    BY DEF Setting
<1> QED
    BY <1>1 DEF Results, Known, Answer

\* One more result, and what it has to be.
LEMMA ResultsAppended ==
    ASSUME Setting, NEW c, Results(c, found, mem, wrapped),
           NEW w \in BOOLEAN, wrapped => w, NEW m,
           \A b \in DOMAIN mem : b \in DOMAIN m /\ m[b] = mem[b],
           NEW a \in Addresses, Len(found) \in 1 .. 5,
           Len(found) = 1 => Known(m, found[1]) /\ a = Answer(m, found[1]),
           Len(found) = 2 /\ ~w => /\ a = found[1]
                                  /\ \A k \in 1 .. Steps : ~Wraps(c[k], offsets[k]),
           Len(found) = 3 /\ ~w => a = Answer(m, found[1]),
           Len(found) \in 4 .. 5 => a = found[1]
    PROVE  Results(c, Append(found, a), m, w)
<1> DEFINE g == Append(found, a)
           n == Len(found)
<1>1. n \in 1 .. 5 /\ Len(g) = n + 1 /\ g[n + 1] = a
    BY AppendProperties DEF Setting
<1>2. \A i \in 1 .. n : g[i] = found[i]
    BY AppendProperties DEF Setting
<1>3. Results(c, found, m, w)
    BY ResultsKept
<1>4. /\ g[1] = found[1]
      /\ n >= 2 => g[2] = found[2]
      /\ n >= 3 => g[3] = found[3]
      /\ n >= 4 => g[4] = found[4]
      /\ n >= 5 => g[5] = found[5]
    BY <1>1, <1>2
<1>5. /\ n >= 1 => found[1] = AddOffset(c[Steps], offsets[Steps])
      /\ n >= 2 => Known(m, found[1]) /\ found[2] = Answer(m, found[1])
      /\ n >= 3 /\ ~w => /\ found[3] = found[1]
                         /\ \A k \in 1 .. Steps : ~Wraps(c[k], offsets[k])
      /\ n >= 4 /\ ~w => found[4] = Answer(m, found[1])
      /\ n >= 5 => found[5] = found[1]
    BY <1>3 DEF Results
<1>6. /\ n = 1 => Known(m, found[1]) /\ a = Answer(m, found[1])
      /\ n = 2 /\ ~w => a = found[1] /\ \A k \in 1 .. Steps : ~Wraps(c[k], offsets[k])
      /\ n = 3 /\ ~w => a = Answer(m, found[1])
      /\ n \in 4 .. 5 => a = found[1]
    OBVIOUS
<1> HIDE DEF g, n
<1>7. /\ Len(g) >= 1 => g[1] = AddOffset(c[Steps], offsets[Steps])
      /\ Len(g) >= 2 => Known(m, g[1]) /\ g[2] = Answer(m, g[1])
    <2>1. CASE n = 1
        BY <1>1, <1>4, <1>5, <1>6, <2>1
    <2>2. CASE n # 1
        BY <1>1, <1>4, <1>5, <2>2
    <2> QED
        BY <2>1, <2>2
<1>8. Len(g) >= 3 /\ ~w => g[3] = g[1] /\ \A k \in 1 .. Steps : ~Wraps(c[k], offsets[k])
    <2>1. CASE n = 2
        BY <1>1, <1>4, <1>6, <2>1
    <2>2. CASE n # 2
        BY <1>1, <1>4, <1>5, <2>2
    <2> QED
        BY <2>1, <2>2
<1>9. Len(g) >= 4 /\ ~w => g[4] = Answer(m, g[1])
    <2>1. CASE n = 3
        BY <1>1, <1>4, <1>6, <2>1
    <2>2. CASE n # 3
        BY <1>1, <1>4, <1>5, <2>2
    <2> QED
        BY <2>1, <2>2
<1>10. Len(g) >= 5 => g[5] = g[1]
    BY <1>1, <1>4, <1>5, <1>6
<1>11. Len(g) >= 6 => g[6] = g[1]
    BY <1>1, <1>4, <1>6
<1>12. Results(c, g, m, w)
    BY <1>7, <1>8, <1>9, <1>10, <1>11 DEF Results
<1> QED
    BY <1>12 DEF g

\* A walk ends and the next one starts, or all have ended.
LEMMA FinishKeepsInv ==
    ASSUME Setting, state = "walking", walk = Len(found) + 1, walk \in 1 .. 6,
           walk \in Pairs => Steps = 2,
           NEW a \in Addresses, Finish(a), UNCHANGED <<pathVars, object, base>>,
           NEW D \in SUBSET (Addresses \ {0}), mem' \in [D -> Addresses],
           \A b \in DOMAIN mem : b \in DOMAIN mem' /\ mem'[b] = mem[b],
           wrapped' \in BOOLEAN,
           NEW c, Trail(c, Steps, mem'), Results(c, Append(found, a), mem', wrapped')
    PROVE  WalkInv'
<1>1. /\ offsets' = offsets /\ object' = object /\ base' = base
      /\ found' = Append(found, a)
    BY DEF Finish, pathVars
<1>2. /\ found' \in Seq(Addresses) /\ Len(found') = walk /\ walk \in Nat
      /\ Len(found) \in Nat
    BY <1>1, AppendProperties DEF Setting
<1>3. /\ offsets \in Seq(Int) /\ Steps' = Steps /\ Steps \in Nat
      /\ Trail(c, Steps, mem)' /\ Results(c, found, mem, wrapped)'
    BY <1>1 DEF Trail, Results, Known, Answer, Before, AddOffset, Wraps, Steps, Setting
<1>4. ASSUME current' \in Addresses
      PROVE  Setting'
    BY <1>1, <1>2, <1>4 DEF Setting
<1>5. CASE walk + 1 \in OnePath \/ (walk + 1 \in Pairs /\ Len(offsets) = 2)
    <2>1. /\ state' = state /\ walk' = walk + 1 /\ next' = 1 /\ walk + 1 \in 2 .. 6
          /\ current' = IF Walks[walk + 1] \in {"encoded", "pointer", "pair"}
                        THEN object ELSE base
          /\ walk + 1 \in Pairs => Steps = 2
        BY <1>2, <1>5 DEF Finish, Start, OnePath, Pairs, Steps
    <2>2. current' \in Addresses
        BY <2>1 DEF Setting
    <2>3. c[1] = object /\ Steps \in Nat \ {0} /\ base # 0
        <3>1. c[1] = object /\ Steps \in Nat \ {0}
            <4>1. Steps \in Nat \ {0} /\ 1 \in 1 .. Steps
                BY EmptySeq DEF Setting, Steps
            <4> QED
                BY <4>1 DEF Trail, Setting, Before, Answer
        <3> QED
            BY <3>1 DEF Setting
    <2>4. Position(c)'
        <3>1. walk + 1 = 2 => current' = object
            BY <2>1 DEF Walks
        <3>2. walk + 1 \in {3, 4, 6} => current' = base
            BY <2>1 DEF Walks
        <3> QED
            BY <1>1, <1>2, <1>3, <2>1, <2>3, <3>1, <3>2 DEF Position, Before, Pairs
    <2> QED
        BY <1>1, <1>2, <1>3, <1>4, <2>1, <2>2, <2>4 DEF WalkInv
<1>6. CASE ~(walk + 1 \in OnePath \/ (walk + 1 \in Pairs /\ Len(offsets) = 2))
    <2>1. state' = "done" /\ current' = current /\ walk >= 4 /\ (Steps = 2 => walk = 6)
        BY <1>2, <1>6 DEF Finish, OnePath, Pairs, Steps
    <2>2. current' \in Addresses
        BY <2>1 DEF Setting
    <2> QED
        BY <1>1, <1>2, <1>3, <1>4, <2>1, <2>2 DEF WalkInv
<1> QED
    BY <1>5, <1>6

\* The first walk finds out where the path leads, address by address.
LEMMA TrailExtended ==
    ASSUME Setting, NEW c, NEW n, Trail(c, n, mem), n < Steps, NEW v \in Addresses,
           Read(AddOffset(c[n], offsets[n]), v)
    PROVE  \E d : Trail(d, n + 1, mem') /\ d[n + 1] = v
<1> DEFINE a == AddOffset(c[n], offsets[n])
           d == [k \in 1 .. n + 1 |-> IF k <= n THEN c[k] ELSE v]
<1>1. /\ Steps \in Nat \ {0} /\ n \in 1 .. Steps /\ n + 1 \in 1 .. Steps
      /\ \A k \in 1 .. n : c[k] \in Addresses /\ offsets[k] \in Int
      /\ n \in 1 .. n
    BY OnTrail
<1>2. a \in Addresses /\ (c[n] = 0 => a = 0)
    BY <1>1, AddressFacts
<1>3. /\ Known(mem', a) /\ v = Answer(mem', a)
      /\ \A b \in DOMAIN mem : b \in DOMAIN mem' /\ mem'[b] = mem[b]
    BY <1>2, ReadFacts
<1>4. Trail(c, n, mem')
    BY <1>3, TrailKept
<1>5. /\ d \in [1 .. n + 1 -> Addresses] /\ d[n + 1] = v
      /\ \A k \in 1 .. n : d[k] = c[k]
    BY <1>1
<1>6. \A k \in 1 .. n + 1 : Before(d, k) = IF k = n + 1 THEN a ELSE Before(c, k)
    BY <1>1, <1>5 DEF Before
<1>7. \A k \in 1 .. n : Known(mem', Before(c, k)) /\ c[k] = Answer(mem', Before(c, k))
    BY <1>4 DEF Trail
<1> HIDE DEF d, a
<1>8. \A k \in 1 .. n + 1 : Known(mem', Before(d, k)) /\ d[k] = Answer(mem', Before(d, k))
    <2>1. SUFFICES ASSUME NEW k \in 1 .. n + 1
                   PROVE  Known(mem', Before(d, k)) /\ d[k] = Answer(mem', Before(d, k))
        OBVIOUS
    <2>2. CASE k = n + 1
        BY <1>3, <1>5, <1>6, <2>2
    <2>3. CASE k # n + 1
        <3>1. k \in 1 .. n
            BY <1>1, <2>3
        <3> QED
            BY <1>5, <1>6, <1>7, <2>3, <3>1
    <2> QED
        BY <2>2, <2>3
<1>9. \A j, k \in 1 .. n + 1 : j <= k /\ d[j] = 0 => d[k] = 0
    <2>1. SUFFICES ASSUME NEW j \in 1 .. n + 1, NEW k \in 1 .. n + 1, j <= k, d[j] = 0
                   PROVE  d[k] = 0
        OBVIOUS
    <2>2. CASE j = n + 1
        BY <1>1, <2>1, <2>2
    <2>3. CASE j # n + 1
        <3>1. j \in 1 .. n /\ c[j] = 0
            BY <1>1, <1>5, <2>1, <2>3
        <3>2. CASE k = n + 1
            <4>1. c[n] = 0
                BY <1>1, <3>1 DEF Trail
            <4> QED
                BY <1>2, <1>3, <1>5, <3>2, <4>1 DEF Answer
        <3>3. CASE k # n + 1
            <4>1. k \in 1 .. n
                BY <1>1, <3>3
            <4> QED
                BY <1>5, <2>1, <3>1, <4>1 DEF Trail
        <3> QED
            BY <3>2, <3>3
    <2> QED
        BY <2>2, <2>3
<1> QED
    BY <1>1, <1>5, <1>8, <1>9 DEF Trail

\* A path that has led to null leads nowhere else.
LEMMA TrailEnds ==
    ASSUME Setting, NEW c, NEW n, NEW m, Trail(c, n, m), c[n] = 0
    PROVE  \E d : Trail(d, Steps, m) /\ d[Steps] = 0
<1> DEFINE d == [k \in 1 .. Steps |-> IF k <= n THEN c[k] ELSE 0]
<1>1. /\ Steps \in Nat \ {0} /\ n \in 1 .. Steps /\ c \in [1 .. n -> Addresses]
      /\ n \in 1 .. n
    BY EmptySeq DEF Setting, Trail, Steps
<1>2. /\ d \in [1 .. Steps -> Addresses]
      /\ \A k \in 1 .. Steps : d[k] = IF k <= n THEN c[k] ELSE 0
      /\ d[n] = 0
    BY <1>1, AddressFacts
<1> HIDE DEF d
<1>3. \A j, k \in 1 .. Steps : j <= k /\ d[j] = 0 => d[k] = 0
    BY <1>1, <1>2 DEF Trail
<1>4. \A k \in 1 .. Steps : offsets[k] \in Int
    BY ElementOfSeq DEF Setting, Steps
<1>5. ASSUME NEW k \in 1 .. Steps
      PROVE  Known(m, Before(d, k)) /\ d[k] = Answer(m, Before(d, k))
    <2>1. CASE k <= n
        <3>1. k \in 1 .. n /\ (k # 1 => k - 1 \in 1 .. n /\ k - 1 \in 1 .. Steps)
            BY <1>1, <2>1
        <3>2. Before(d, k) = Before(c, k) /\ d[k] = c[k]
            BY <1>1, <1>2, <2>1, <3>1 DEF Before
        <3> QED
            BY <3>1, <3>2 DEF Trail
    <2>2. CASE ~(k <= n)
        <3>1. k - 1 \in 1 .. Steps /\ n <= k - 1 /\ k # 1 /\ n \in 1 .. Steps
            BY <1>1, <2>2
        <3>2. d[k - 1] = 0 /\ d[k] = 0
            BY <1>2, <1>3, <2>2, <3>1
        <3>3. Before(d, k) = 0
            BY <1>4, <3>1, <3>2, AddressFacts DEF Before
        <3> QED
            BY <3>2, <3>3 DEF Known, Answer
    <2> QED
        BY <2>1, <2>2
<1>6. Steps \in 1 .. Steps /\ d[Steps] = 0
    BY <1>1, <1>2, <1>3
<1> QED
    BY <1>2, <1>3, <1>5, <1>6 DEF Trail

LEMMA EncodedKeepsInv ==
    ASSUME WalkInv, Encoded
    PROVE  WalkInv'
<1>1. state = "walking" /\ walk = 1
    <2>1. state = "walking" /\ Walks[walk] = "encoded" /\ walk \in 1 .. 6
        BY DEF Encoded, On, WalkInv
    <2> QED
        BY <2>1 DEF Walks
<1>2. Setting /\ walk = Len(found) + 1 /\ Len(found) = 0
    <2>1. Setting /\ walk = Len(found) + 1
        BY <1>1 DEF WalkInv
    <2> QED
        BY <1>1, <2>1 DEF Setting
<1>3. PICK c : Trail(c, next, mem) /\ current = c[next]
    BY <1>1 DEF WalkInv
<1> DEFINE a == AddOffset(current, offsets[next])
<1>4. /\ UNCHANGED <<pathVars, object, base, wrapped>>
      /\ offsets' = offsets /\ wrapped' = wrapped /\ wrapped \in BOOLEAN
      /\ base' = base /\ object' = object
    BY <1>2 DEF Encoded, pathVars, Setting
<1>5. PICK v \in Addresses :
        IF AtLast THEN v = 0 /\ Finish(a) /\ UNCHANGED mem
        ELSE /\ Read(a, v)
             /\ IF v = 0 THEN Finish(0) ELSE GoOn(v)
    BY DEF Encoded
<1>6. /\ next \in 1 .. Steps /\ Steps \in Nat \ {0} /\ a \in Addresses
    <2>1. next \in 1 .. Steps /\ Steps \in Nat \ {0} /\ next \in 1 .. next
        BY <1>2, <1>3, OnTrail
    <2>2. c[next] \in Addresses /\ offsets[next] \in Int
        BY <1>2, <1>3, <2>1, OnTrail
    <2> QED
        BY <1>3, <2>1, <2>2, AddressFacts
<1>7. ASSUME NEW f \in Addresses
      PROVE  LET g == Append(found, f) IN Len(g) = 1 /\ g[1] = f
    BY <1>2, AppendProperties DEF Setting
<1>8. walk \in Pairs => Steps = 2
    BY <1>1 DEF Pairs
<1>9. CASE AtLast
    <2>1. Finish(a) /\ mem' = mem
        BY <1>5, <1>9
    <2>2. next = Steps /\ a = AddOffset(c[Steps], offsets[Steps])
        BY <1>3, <1>9 DEF AtLast, Steps
    <2>3. Trail(c, Steps, mem') /\ Results(c, Append(found, a), mem', wrapped')
        BY <1>3, <1>6, <1>7, <2>1, <2>2 DEF Results
    <2>4. PICK D \in SUBSET (Addresses \ {0}) : mem \in [D -> Addresses]
        BY <1>2 DEF Setting
    <2> HIDE DEF a
    <2> QED
        BY <1>1, <1>2, <1>4, <1>6, <1>8, <2>1, <2>3, <2>4, FinishKeepsInv
<1>10. CASE ~AtLast
    <2>1. Read(a, v) /\ next < Steps
        BY <1>5, <1>6, <1>10 DEF AtLast, Steps
    <2>2. PICK d : Trail(d, next + 1, mem') /\ d[next + 1] = v
        BY <1>2, <1>3, <2>1, TrailExtended
    <2>3. /\ \A b \in DOMAIN mem : b \in DOMAIN mem' /\ mem'[b] = mem[b]
          /\ \E D \in SUBSET (Addresses \ {0}) : mem' \in [D -> Addresses]
        BY <1>2, <1>6, <2>1, ReadFacts
    <2>4. PICK D \in SUBSET (Addresses \ {0}) : mem' \in [D -> Addresses]
        BY <2>3
    <2>5. CASE v = 0
        <3>1. Finish(0)
            BY <1>5, <1>10, <2>5
        <3>2. PICK e : Trail(e, Steps, mem') /\ e[Steps] = 0
            BY <1>2, <2>2, <2>5, TrailEnds
        <3>3. Results(e, Append(found, 0), mem', wrapped')
            <4>1. offsets[Steps] \in Int
                BY <1>2, <1>6, ElementOfSeq DEF Setting, Steps
            <4>3. AddOffset(e[Steps], offsets[Steps]) = 0
                BY <3>2, <4>1, AddressFacts
            <4>2. Len(Append(found, 0)) = 1 /\ Append(found, 0)[1] = 0
                BY <1>7, AddressFacts
            <4> QED
                BY <4>2, <4>3 DEF Results
        <3> QED
            BY <1>1, <1>2, <1>4, <1>8, <2>3, <2>4, <3>1, <3>2, <3>3, AddressFacts,
               FinishKeepsInv
    <2>6. CASE v # 0
        <3>1. /\ current' = v /\ next' = next + 1 /\ state' = state /\ walk' = walk
              /\ found' = found
            BY <1>5, <1>10, <2>6 DEF GoOn
        <3>2. Trail(d, next, mem)'
            BY <1>4, <2>2, <3>1 DEF Trail, Known, Answer, Before, AddOffset, Steps
        <3>3. Setting'
            BY <1>2, <1>4, <2>3, <3>1 DEF Setting
        <3> QED
            BY <1>1, <1>2, <1>4, <2>2, <3>1, <3>2, <3>3 DEF WalkInv, Setting
    <2> QED
        BY <2>5, <2>6
<1> QED
    BY <1>9, <1>10

\* What holds on every walk but the first.
LEMMA OnWalk ==
    ASSUME WalkInv, NEW name \in {"pointer", "resolve", "global", "pair", "pairString"},
           On(name)
    PROVE  /\ state = "walking" /\ Setting /\ walk = Len(found) + 1 /\ walk \in 2 .. 6
           /\ Walks[walk] = name
           /\ \E c : /\ Trail(c, Steps, mem) /\ Position(c)
                     /\ Results(c, found, mem, wrapped)
<1>1. state = "walking" /\ Walks[walk] = name /\ walk \in 1 .. 6
    BY DEF On, WalkInv
<1>2. walk # 1
    BY <1>1 DEF Walks
<1> QED
    BY <1>1, <1>2 DEF WalkInv

\* Where the addresses lead to null, they lead nowhere else.
LEMMA NullOnTrail ==
    ASSUME Setting, NEW c, Trail(c, Steps, mem), NEW k \in 1 .. Steps,
           AddOffset(c[k], offsets[k]) = 0
    PROVE  /\ \A j \in k + 1 .. Steps : c[j] = 0
           /\ AddOffset(c[Steps], offsets[Steps]) = 0
<1>1. /\ Steps \in Nat \ {0} /\ Steps \in 1 .. Steps
      /\ \A j \in 1 .. Steps : offsets[j] \in Int
    BY OnTrail
<1>2. CASE k = Steps
    BY <1>1, <1>2
<1>3. CASE k # Steps
    <2>1. k + 1 \in 1 .. Steps /\ k + 1 \in 2 .. Steps + 1 /\ (k + 1) - 1 = k
        BY <1>1, <1>3
    <2>2. Before(c, k + 1) = 0
        BY <2>1, OnTrail
    <2>3. c[k + 1] = 0
        BY <2>1, <2>2 DEF Trail, Answer
    <2>4. \A j \in k + 1 .. Steps : j \in 1 .. Steps /\ k + 1 <= j
        BY <1>1, <2>1
    <2>5. \A j \in k + 1 .. Steps : c[j] = 0
        BY <2>1, <2>3, <2>4 DEF Trail
    <2>6. Steps \in k + 1 .. Steps
        BY <1>1, <2>1
    <2> QED
        BY <1>1, <2>5, <2>6, AddressFacts
<1> QED
    BY <1>2, <1>3

\* A walk goes on.
LEMMA GoOnKeepsInv ==
    ASSUME Setting, state = "walking", walk = Len(found) + 1, walk \in 2 .. 6,
           NEW a \in Addresses, GoOn(a), UNCHANGED <<pathVars, object, base>>,
           NEW D \in SUBSET (Addresses \ {0}), mem' \in [D -> Addresses],
           \A b \in DOMAIN mem : b \in DOMAIN mem' /\ mem'[b] = mem[b],
           wrapped' \in BOOLEAN, wrapped => wrapped',
           NEW c, Trail(c, Steps, mem), Results(c, found, mem, wrapped), Position(c)'
    PROVE  WalkInv'
<1>1. /\ offsets' = offsets /\ object' = object /\ base' = base
      /\ found' = found /\ state' = state /\ walk' = walk /\ current' = a
    BY DEF GoOn, pathVars
<1>2. Trail(c, Steps, mem') /\ Results(c, found, mem', wrapped')
    BY TrailKept, ResultsKept
<1>3. /\ offsets \in Seq(Int) /\ Steps' = Steps
      /\ Trail(c, Steps, mem)' /\ Results(c, found, mem, wrapped)'
    BY <1>1, <1>2
       DEF Trail, Results, Known, Answer, Before, AddOffset, Wraps, Steps, Setting
<1>4. Setting'
    BY <1>1 DEF Setting
<1> QED
    BY <1>1, <1>3, <1>4 DEF WalkInv

LEMMA PointerKeepsInv ==
    ASSUME WalkInv, Pointer
    PROVE  WalkInv'
<1>1. /\ state = "walking" /\ Setting /\ walk = Len(found) + 1 /\ walk \in 2 .. 6
      /\ Walks[walk] = "pointer"
    BY OnWalk DEF Pointer
<1>2. PICK c : Trail(c, Steps, mem) /\ Position(c) /\ Results(c, found, mem, wrapped)
    BY OnWalk DEF Pointer
<1>3. walk = 2 /\ Len(found) = 1
    <2>1. walk = 2
        BY <1>1 DEF Walks
    <2>2. Len(found) \in Nat
        BY <1>1 DEF Setting
    <2>3. walk \in Int /\ Len(found) = walk - 1
        BY <1>1, <2>2
    <2> QED
        BY <2>1, <2>3
<1>4. next \in 1 .. Steps /\ current = c[next]
    BY <1>2, <1>3 DEF Position
<1> DEFINE a == AddOffset(current, offsets[next])
<1>5. PICK v \in Addresses :
        Read(a, v) /\ (IF v = 0 \/ AtLast THEN Finish(v) ELSE GoOn(v))
    BY DEF Pointer, PointerEnd
<1>6. UNCHANGED <<pathVars, object, base>> /\ wrapped' = wrapped /\ wrapped \in BOOLEAN
    BY <1>1 DEF Pointer, Setting
<1>7. /\ Steps \in Nat \ {0} /\ a \in Addresses /\ a = Before(c, next + 1)
      /\ found[1] = AddOffset(c[Steps], offsets[Steps])
    <2>1. Steps \in Nat \ {0} /\ c[next] \in Addresses /\ offsets[next] \in Int
        BY <1>1, <1>2, <1>4, OnTrail
    <2>2. next + 1 \in 2 .. Steps + 1 /\ (next + 1) - 1 = next
        BY <1>4, <2>1
    <2>3. a = Before(c, next + 1)
        BY <1>1, <1>2, <1>4, <2>2, OnTrail
    <2>4. a \in Addresses
        BY <1>4, <2>1, AddressFacts
    <2>5. found[1] = AddOffset(c[Steps], offsets[Steps])
        BY <1>2, <1>3 DEF Results
    <2> QED
        BY <2>1, <2>3, <2>4, <2>5
<1> HIDE DEF a
<1>8. /\ \E D \in SUBSET (Addresses \ {0}) : mem' \in [D -> Addresses]
      /\ \A b \in DOMAIN mem : b \in DOMAIN mem' /\ mem'[b] = mem[b]
      /\ Known(mem', a) /\ v = Answer(mem', a)
      /\ Known(mem, a) => v = Answer(mem, a)
    BY <1>1, <1>5, <1>7, ReadFacts
<1>9. PICK D \in SUBSET (Addresses \ {0}) : mem' \in [D -> Addresses]
    BY <1>8
<1>10. next # Steps => next + 1 \in 1 .. Steps /\ v = c[next + 1]
    <2>1. SUFFICES ASSUME next # Steps
                   PROVE  next + 1 \in 1 .. Steps /\ v = c[next + 1]
        OBVIOUS
    <2>2. next + 1 \in 1 .. Steps
        BY <1>4, <1>7, <2>1
    <2> QED
        BY <1>2, <1>7, <1>8, <2>2 DEF Trail
<1>11. CASE v = 0 \/ AtLast
    <2>1. Finish(v)
        BY <1>5, <1>11
    <2>2. Known(mem', found[1]) /\ v = Answer(mem', found[1])
        <3>1. CASE next = Steps
            BY <1>4, <1>7, <1>8, <3>1 DEF a
        <3>2. CASE next # Steps
            <4>1. v = 0 /\ c[next + 1] = 0 /\ next + 1 \in 1 .. Steps
                BY <1>10, <1>11, <3>2 DEF AtLast, Steps
            <4>2. Steps \in 1 .. Steps /\ next + 1 <= Steps /\ offsets[Steps] \in Int
                BY <1>1, <1>2, <1>7, <4>1, OnTrail
            <4>3. c[Steps] = 0
                BY <1>2, <4>1, <4>2 DEF Trail
            <4>4. found[1] = 0
                BY <1>7, <4>2, <4>3, AddressFacts
            <4> QED
                BY <4>1, <4>4 DEF Known, Answer
        <3> QED
            BY <3>1, <3>2
    <2>3. Results(c, Append(found, v), mem', wrapped')
        BY <1>1, <1>2, <1>3, <1>6, <1>8, <2>2, ResultsAppended
    <2>4. Trail(c, Steps, mem')
        BY <1>1, <1>2, <1>8, TrailKept
    <2>5. walk \in 1 .. 6 /\ (walk \in Pairs => Steps = 2)
        BY <1>3 DEF Pairs
    <2> QED
        BY <1>1, <1>6, <1>8, <1>9, <2>1, <2>3, <2>4, <2>5, FinishKeepsInv
<1>12. CASE ~(v = 0 \/ AtLast)
    <2>1. GoOn(v) /\ next # Steps
        BY <1>5, <1>12 DEF AtLast, Steps
    <2>2. Position(c)'
        BY <1>3, <1>6, <1>10, <2>1 DEF Position, GoOn, Pairs, Steps, pathVars
    <2> QED
        BY <1>1, <1>2, <1>6, <1>8, <1>9, <2>1, <2>2, GoOnKeepsInv
<1> QED
    BY <1>11, <1>12

\* What a walk that reads where it is finds there.
LEMMA ReadOnTrail ==
    ASSUME Setting, NEW c, Trail(c, Steps, mem), NEW k \in 1 .. Steps,
           NEW v \in Addresses, Read(Before(c, k), v)
    PROVE  v = c[k]
<1>1. Before(c, k) \in Addresses
    BY OnTrail
<1> QED
    BY <1>1, ReadFacts DEF Trail

LEMMA ResolveKeepsInv ==
    ASSUME WalkInv, Resolve
    PROVE  WalkInv'
<1>1. /\ state = "walking" /\ Setting /\ walk = Len(found) + 1 /\ walk \in 2 .. 6
      /\ Walks[walk] = "resolve"
    BY OnWalk DEF Resolve
<1>2. PICK c : Trail(c, Steps, mem) /\ Position(c) /\ Results(c, found, mem, wrapped)
    BY OnWalk DEF Resolve
<1>3. walk = 3 /\ Len(found) = 2
    <2>1. walk = 3
        BY <1>1 DEF Walks
    <2>2. Len(found) \in Nat
        BY <1>1 DEF Setting
    <2>3. walk \in Int /\ Len(found) = walk - 1
        BY <1>1, <2>2
    <2> QED
        BY <2>1, <2>3
<1>4. /\ next \in 1 .. Steps
      /\ ~wrapped => /\ current # 0 /\ current = Before(c, next)
                     /\ \A k \in 1 .. next - 1 : ~Wraps(c[k], offsets[k])
    BY <1>2, <1>3 DEF Position
<1>5. PICK v \in Addresses :
        /\ Read(current, v)
        /\ wrapped' = (wrapped \/ Wraps(v, offsets[next]))
        /\ IF Add(v, offsets[next]) = 0 \/ AtLast
           THEN Finish(Add(v, offsets[next])) ELSE GoOn(Add(v, offsets[next]))
    BY DEF Resolve
<1> DEFINE a == Add(v, offsets[next])
<1>6. /\ UNCHANGED <<pathVars, object, base>> /\ wrapped \in BOOLEAN
      /\ current \in Addresses
    BY <1>1 DEF Resolve, Setting
<1>7. /\ Steps \in Nat \ {0} /\ Steps \in 1 .. Steps
      /\ \A k \in 1 .. Steps : c[k] \in Addresses /\ offsets[k] \in Int
    BY <1>1, <1>2, OnTrail
<1>8. a \in Addresses /\ Wraps(v, offsets[next]) \in BOOLEAN
    BY <1>4, <1>7, AddressFacts
<1>9. wrapped' \in BOOLEAN /\ (wrapped => wrapped')
    BY <1>5, <1>6, <1>8
<1>10. /\ \E D \in SUBSET (Addresses \ {0}) : mem' \in [D -> Addresses]
       /\ \A b \in DOMAIN mem : b \in DOMAIN mem' /\ mem'[b] = mem[b]
    BY <1>1, <1>5, <1>6, ReadFacts
<1>11. PICK D \in SUBSET (Addresses \ {0}) : mem' \in [D -> Addresses]
    BY <1>10
<1>12. ASSUME ~wrapped'
       PROVE  /\ ~wrapped /\ a = AddOffset(c[next], offsets[next])
              /\ a = Before(c, next + 1)
              /\ \A k \in 1 .. next : ~Wraps(c[k], offsets[k])
    <2>1. ~wrapped /\ ~Wraps(v, offsets[next])
        BY <1>5, <1>6, <1>12
    <2>2. v = c[next]
        BY <1>1, <1>2, <1>4, <1>5, <2>1, ReadOnTrail
    <2>3. a = AddOffset(c[next], offsets[next])
        BY <1>4, <1>7, <2>1, <2>2, AddressFacts
    <2>4. next + 1 \in 2 .. Steps + 1 /\ (next + 1) - 1 = next
        BY <1>4, <1>7
    <2>5. a = Before(c, next + 1)
        BY <1>1, <1>2, <2>3, <2>4, OnTrail
    <2>6. \A k \in 1 .. next : ~Wraps(c[k], offsets[k])
        BY <1>4, <2>1, <2>2
    <2> QED
        BY <2>1, <2>3, <2>5, <2>6
<1> HIDE DEF a
<1>13. CASE a = 0 \/ AtLast
    <2>1. Finish(a)
        BY <1>5, <1>13 DEF a
    <2>2. found[1] = AddOffset(c[Steps], offsets[Steps])
        BY <1>2, <1>3 DEF Results
    <2>3. ASSUME ~wrapped'
          PROVE  a = found[1] /\ \A k \in 1 .. Steps : ~Wraps(c[k], offsets[k])
        <3>1. CASE next = Steps
            BY <1>12, <2>2, <2>3, <3>1
        <3>2. CASE next # Steps
            <4>1. a = 0
                BY <1>13, <3>2 DEF AtLast, Steps
            <4>2. /\ \A j \in next + 1 .. Steps : c[j] = 0
                  /\ AddOffset(c[Steps], offsets[Steps]) = 0
                BY <1>1, <1>2, <1>4, <1>12, <2>3, <4>1, NullOnTrail
            <4>3. \A k \in 1 .. Steps : k \in 1 .. next \/ k \in next + 1 .. Steps
                BY <1>4, <1>7
            <4>4. \A k \in next + 1 .. Steps : ~Wraps(c[k], offsets[k])
                BY <4>2 DEF Wraps
            <4> QED
                BY <1>12, <2>2, <2>3, <4>1, <4>2, <4>3, <4>4
        <3> QED
            BY <3>1, <3>2
    <2>4. Results(c, Append(found, a), mem', wrapped')
        BY <1>1, <1>2, <1>3, <1>8, <1>9, <1>10, <2>3, ResultsAppended
    <2>5. Trail(c, Steps, mem')
        BY <1>1, <1>2, <1>10, TrailKept
    <2>6. walk \in 1 .. 6 /\ (walk \in Pairs => Steps = 2)
        BY <1>3 DEF Pairs
    <2> QED
        BY <1>1, <1>6, <1>8, <1>9, <1>10, <1>11, <2>1, <2>4, <2>5, <2>6, FinishKeepsInv
<1>14. CASE ~(a = 0 \/ AtLast)
    <2>1. GoOn(a) /\ next # Steps /\ a # 0
        BY <1>5, <1>14 DEF AtLast, Steps, a
    <2>2. next + 1 \in 1 .. Steps /\ (next + 1) - 1 = next
        BY <1>4, <1>7, <2>1
    <2>3. /\ walk' = walk /\ next' = next + 1 /\ current' = a
          /\ offsets' = offsets /\ base' = base
        BY <1>6, <2>1 DEF GoOn, pathVars
    <2>4. ~wrapped' => /\ a # 0 /\ a = Before(c, next + 1)
                       /\ \A k \in 1 .. next : ~Wraps(c[k], offsets[k])
        BY <1>12, <2>1
    <2>5. Position(c)'
        <3>1. Before(c, next)' = Before(c, next + 1)
            BY <2>3 DEF Before, AddOffset
        <3>2. \A k \in 1 .. next : Wraps(c[k], offsets[k])' = Wraps(c[k], offsets[k])
            BY <2>3 DEF Wraps
        <3> QED
            BY <1>3, <2>2, <2>3, <2>4, <3>1, <3>2 DEF Position, Pairs, Steps, Wraps
    <2> QED
        BY <1>1, <1>2, <1>6, <1>8, <1>9, <1>10, <1>11, <2>1, <2>5, GoOnKeepsInv
<1> QED
    BY <1>13, <1>14

LEMMA GlobalKeepsInv ==
    ASSUME WalkInv, Global
    PROVE  WalkInv'
<1>1. /\ state = "walking" /\ Setting /\ walk = Len(found) + 1 /\ walk \in 2 .. 6
      /\ Walks[walk] = "global"
    BY OnWalk DEF Global
<1>2. PICK c : Trail(c, Steps, mem) /\ Position(c) /\ Results(c, found, mem, wrapped)
    BY OnWalk DEF Global
<1>3. walk = 4 /\ Len(found) = 3
    <2>1. walk = 4
        BY <1>1 DEF Walks
    <2>2. Len(found) \in Nat
        BY <1>1 DEF Setting
    <2>3. walk \in Int /\ Len(found) = walk - 1
        BY <1>1, <2>2
    <2> QED
        BY <2>1, <2>3
<1>4. /\ next \in 1 .. Steps + 1
      /\ ~wrapped => current # 0 /\ current = Before(c, next)
    BY <1>2, <1>3 DEF Position
<1>5. /\ found[1] = AddOffset(c[Steps], offsets[Steps])
      /\ ~wrapped => \A k \in 1 .. Steps : ~Wraps(c[k], offsets[k])
    BY <1>2, <1>3 DEF Results
<1>6. PICK v \in Addresses :
        /\ Read(current, v)
        /\ IF next > Len(offsets) THEN Finish(v)
           ELSE IF Add(v, offsets[next]) = 0 THEN Finish(0)
           ELSE GoOn(Add(v, offsets[next]))
    BY DEF Global
<1>7. /\ UNCHANGED <<pathVars, object, base>> /\ wrapped \in BOOLEAN
      /\ wrapped' = wrapped /\ current \in Addresses
    BY <1>1 DEF Global, Setting
<1>8. /\ Steps \in Nat \ {0} /\ Steps \in 1 .. Steps
      /\ \A k \in 1 .. Steps : c[k] \in Addresses /\ offsets[k] \in Int
    BY <1>1, <1>2, OnTrail
<1>9. /\ \E D \in SUBSET (Addresses \ {0}) : mem' \in [D -> Addresses]
      /\ \A b \in DOMAIN mem : b \in DOMAIN mem' /\ mem'[b] = mem[b]
      /\ v = Answer(mem', current)
    BY <1>1, <1>6, <1>7, ReadFacts
<1>10. PICK D \in SUBSET (Addresses \ {0}) : mem' \in [D -> Addresses]
    BY <1>9
<1>11. Trail(c, Steps, mem')
    BY <1>1, <1>2, <1>9, TrailKept
<1>12. walk \in 1 .. 6 /\ (walk \in Pairs => Steps = 2)
    BY <1>3 DEF Pairs
<1>13. ASSUME NEW a \in Addresses, Finish(a), ~wrapped => a = Answer(mem', found[1])
       PROVE  WalkInv'
    <2>1. Results(c, Append(found, a), mem', wrapped')
        BY <1>1, <1>2, <1>3, <1>7, <1>9, <1>13, ResultsAppended
    <2> QED
        BY <1>1, <1>7, <1>9, <1>10, <1>11, <1>12, <1>13, <2>1, FinishKeepsInv
<1>14. CASE next = Steps + 1
    <2>1. Finish(v)
        BY <1>6, <1>8, <1>14 DEF Steps
    <2>2. Before(c, Steps + 1) = found[1]
        BY <1>5, <1>8 DEF Before
    <2>3. ~wrapped => v = Answer(mem', found[1])
        BY <1>4, <1>9, <1>14, <2>2
    <2> QED
        BY <1>13, <2>1, <2>3
<1>15. CASE next # Steps + 1
    <2> DEFINE a == Add(v, offsets[next])
    <2>1. next \in 1 .. Steps /\ ~(next > Len(offsets))
        BY <1>4, <1>8, <1>15 DEF Steps
    <2>2. a \in Addresses
        BY <1>8, <2>1, AddressFacts
    <2>3. ASSUME ~wrapped
          PROVE  a = AddOffset(c[next], offsets[next]) /\ a = Before(c, next + 1)
        <3>1. v = c[next]
            BY <1>1, <1>2, <1>4, <1>6, <2>1, <2>3, ReadOnTrail
        <3>2. ~Wraps(v, offsets[next])
            BY <1>5, <2>1, <2>3, <3>1
        <3>3. a = AddOffset(c[next], offsets[next])
            BY <1>8, <2>1, <3>1, <3>2, AddressFacts
        <3>4. next + 1 \in 2 .. Steps + 1 /\ (next + 1) - 1 = next
            BY <1>8, <2>1
        <3> QED
            BY <1>1, <1>2, <3>3, <3>4, OnTrail
    <2>4. CASE a = 0
        <3>1. Finish(0)
            BY <1>6, <2>1, <2>4
        <3>2. ~wrapped => found[1] = 0
            <4>1. SUFFICES ASSUME ~wrapped
                           PROVE  AddOffset(c[Steps], offsets[Steps]) = 0
                BY <1>5
            <4> QED
                BY <1>1, <1>2, <2>1, <2>3, <2>4, <4>1, NullOnTrail
        <3>3. ~wrapped => 0 = Answer(mem', found[1])
            BY <3>2 DEF Answer
        <3> QED
            BY <1>13, <3>1, <3>3, AddressFacts
    <2>5. CASE a # 0
        <3>1. GoOn(a)
            BY <1>6, <2>1, <2>5
        <3> HIDE DEF a
        <3>2. /\ walk' = walk /\ next' = next + 1 /\ current' = a
              /\ offsets' = offsets /\ base' = base
            BY <1>7, <3>1 DEF GoOn, pathVars
        <3>3. next + 1 \in 1 .. Steps + 1
            BY <1>8, <2>1
        <3>4. Before(c, next)' = Before(c, next + 1)
            BY <3>2 DEF Before, AddOffset
        <3>5. Position(c)'
            BY <1>3, <1>7, <2>3, <2>5, <3>2, <3>3, <3>4 DEF Position, Pairs, Steps
        <3> QED
            BY <1>1, <1>2, <1>7, <1>9, <1>10, <2>2, <3>1, <3>5, GoOnKeepsInv
    <2> QED
        BY <2>4, <2>5
<1> QED
    BY <1>14, <1>15

LEMMA PairKeepsInv ==
    ASSUME WalkInv, Pair
    PROVE  WalkInv'
<1>1. /\ state = "walking" /\ Setting /\ walk = Len(found) + 1 /\ walk \in 2 .. 6
      /\ Walks[walk] = "pair"
    BY OnWalk DEF Pair
<1>2. PICK c : Trail(c, Steps, mem) /\ Position(c) /\ Results(c, found, mem, wrapped)
    BY OnWalk DEF Pair
<1>3. walk = 5 /\ Len(found) = 4
    <2>1. walk = 5
        BY <1>1 DEF Walks
    <2>2. Len(found) \in Nat
        BY <1>1 DEF Setting
    <2>3. walk \in Int /\ Len(found) = walk - 1
        BY <1>1, <2>2
    <2> QED
        BY <2>1, <2>3
<1>4. Steps = 2 /\ found[1] = AddOffset(c[Steps], offsets[Steps])
    BY <1>2, <1>3 DEF Position, Results, Pairs
<1>5. PICK child \in Addresses :
        /\ Read(AddOffset(object, offsets[1]), child)
        /\ Finish(AddOffset(child, offsets[2]))
    BY DEF Pair
<1>6. /\ UNCHANGED <<pathVars, object, base>> /\ wrapped \in BOOLEAN
      /\ wrapped' = wrapped
    BY <1>1 DEF Pair, Setting
<1>7. /\ c[1] = object /\ offsets[1] \in Int /\ offsets[2] \in Int
      /\ Before(c, 2) = AddOffset(object, offsets[1])
    BY <1>1, <1>2, <1>4, OnTrail DEF Before
<1>8. AddOffset(object, offsets[1]) \in Addresses
    BY <1>1, <1>7, AddressFacts DEF Setting
<1>9. /\ \E D \in SUBSET (Addresses \ {0}) : mem' \in [D -> Addresses]
      /\ \A b \in DOMAIN mem : b \in DOMAIN mem' /\ mem'[b] = mem[b]
    BY <1>1, <1>5, <1>8, ReadFacts
<1>10. PICK D \in SUBSET (Addresses \ {0}) : mem' \in [D -> Addresses]
    BY <1>9
<1>11. child = c[2]
    BY <1>1, <1>2, <1>4, <1>5, <1>7, ReadOnTrail
<1> DEFINE a == AddOffset(child, offsets[2])
<1>12. a \in Addresses /\ a = found[1] /\ Finish(a)
    BY <1>4, <1>5, <1>7, <1>11, AddressFacts
<1> HIDE DEF a
<1>13. Trail(c, Steps, mem')
    BY <1>1, <1>2, <1>9, TrailKept
<1>14. Results(c, Append(found, a), mem', wrapped')
    BY <1>1, <1>2, <1>3, <1>6, <1>9, <1>12, ResultsAppended
<1> QED
    BY <1>1, <1>3, <1>4, <1>6, <1>9, <1>10, <1>12, <1>13, <1>14, FinishKeepsInv

LEMMA PairStringKeepsInv ==
    ASSUME WalkInv, PairString
    PROVE  WalkInv'
<1>1. /\ state = "walking" /\ Setting /\ walk = Len(found) + 1 /\ walk \in 2 .. 6
      /\ Walks[walk] = "pairString"
    BY OnWalk DEF PairString
<1>2. PICK c : Trail(c, Steps, mem) /\ Position(c) /\ Results(c, found, mem, wrapped)
    BY OnWalk DEF PairString
<1>3. walk = 6 /\ Len(found) = 5
    <2>1. walk = 6
        BY <1>1 DEF Walks
    <2>2. Len(found) \in Nat
        BY <1>1 DEF Setting
    <2>3. walk \in Int /\ Len(found) = walk - 1
        BY <1>1, <2>2
    <2> QED
        BY <2>1, <2>3
<1>4. /\ Steps = 2 /\ found[1] = AddOffset(c[Steps], offsets[Steps])
      /\ next \in 1 .. 2 /\ current = Before(c, next)
    BY <1>2, <1>3 DEF Position, Results, Pairs
<1>5. PICK v \in Addresses :
        /\ Read(current, v)
        /\ IF AtLast THEN Finish(AddOffset(v, offsets[next]))
           ELSE GoOn(AddOffset(v, offsets[next]))
    BY DEF PairString
<1>6. /\ UNCHANGED <<pathVars, object, base>> /\ wrapped \in BOOLEAN
      /\ wrapped' = wrapped /\ current \in Addresses
    BY <1>1 DEF PairString, Setting
<1>7. /\ \E D \in SUBSET (Addresses \ {0}) : mem' \in [D -> Addresses]
      /\ \A b \in DOMAIN mem : b \in DOMAIN mem' /\ mem'[b] = mem[b]
    BY <1>1, <1>5, <1>6, ReadFacts
<1>8. PICK D \in SUBSET (Addresses \ {0}) : mem' \in [D -> Addresses]
    BY <1>7
<1> DEFINE a == AddOffset(v, offsets[next])
<1>9. v = c[next] /\ offsets[next] \in Int
    BY <1>1, <1>2, <1>4, <1>5, ReadOnTrail, OnTrail
<1>10. a \in Addresses /\ a = Before(c, next + 1)
    <2>1. a \in Addresses
        BY <1>9, AddressFacts
    <2>2. a = Before(c, next + 1)
        BY <1>4, <1>9 DEF Before
    <2> QED
        BY <2>1, <2>2
<1>11. CASE AtLast
    <2>1. Finish(a) /\ a = found[1]
        BY <1>4, <1>5, <1>9, <1>11 DEF AtLast, Steps
    <2> HIDE DEF a
    <2>2. Trail(c, Steps, mem')
        BY <1>1, <1>2, <1>7, TrailKept
    <2>3. Results(c, Append(found, a), mem', wrapped')
        BY <1>1, <1>2, <1>3, <1>6, <1>7, <1>10, <2>1, ResultsAppended
    <2> QED
        BY <1>1, <1>3, <1>4, <1>6, <1>7, <1>8, <1>10, <2>1, <2>2, <2>3, FinishKeepsInv
<1>12. CASE ~AtLast
    <2>1. GoOn(a) /\ next = 1
        BY <1>4, <1>5, <1>12 DEF AtLast, Steps
    <2> HIDE DEF a
    <2>2. /\ walk' = walk /\ next' = 2 /\ current' = a
          /\ offsets' = offsets /\ base' = base
        BY <1>6, <2>1 DEF GoOn, pathVars
    <2>3. Before(c, next)' = Before(c, 2)
        BY <2>2 DEF Before, AddOffset
    <2>4. Position(c)'
        BY <1>3, <1>4, <1>10, <2>1, <2>2, <2>3 DEF Position, Pairs, Steps
    <2> QED
        BY <1>1, <1>2, <1>3, <1>6, <1>7, <1>8, <1>10, <2>1, <2>4, GoOnKeepsInv
<1> QED
    BY <1>11, <1>12

LEMMA BeginKeepsInv ==
    ASSUME WalkInv, Begin
    PROVE  WalkInv'
<1>1. /\ state = "parsed" /\ offsets # << >> /\ offsets' = offsets /\ state' = "walking"
      /\ base' \in Addresses \ {0} /\ object' \in Addresses
      /\ mem' = [b \in {base'} |-> object']
      /\ walk' = 1 /\ current' = object' /\ next' = 1
      /\ found' = found /\ wrapped' = wrapped
    BY DEF Begin, pathVars
<1>2. offsets \in Seq(Int) /\ found = << >> /\ wrapped = FALSE
    BY <1>1 DEF WalkInv
<1>3. Setting'
    <2>1. mem' \in [{base'} -> Addresses] /\ {base'} \in SUBSET (Addresses \ {0})
        BY <1>1
    <2>2. base' \in DOMAIN mem' /\ mem'[base'] = object'
        BY <1>1
    <2>3. found' \in Seq(Addresses) /\ wrapped' \in BOOLEAN /\ current' \in Addresses
        <3>1. found' \in Seq(Addresses)
            BY <1>1, <1>2
        <3>2. wrapped' \in BOOLEAN
            BY <1>1, <1>2
        <3> QED
            BY <1>1, <3>1, <3>2
    <2>4. \E D \in SUBSET (Addresses \ {0}) : mem' \in [D -> Addresses]
        BY <2>1
    <2> QED
        BY <1>1, <1>2, <2>2, <2>3, <2>4 DEF Setting
<1>4. Len(offsets) \in Nat \ {0}
    BY <1>1, <1>2, EmptySeq
<1>5. PICK c : c \in [1 .. 1 -> Addresses] /\ c[1] = object'
    <2>1. \A x \in Addresses : [k \in 1 .. 1 |-> x] \in [1 .. 1 -> Addresses]
        OBVIOUS
    <2>2. \A x \in Addresses : [k \in 1 .. 1 |-> x][1] = x
        OBVIOUS
    <2> QED
        BY <1>1, <2>1, <2>2
<1>6. Trail(c, next, mem)'
    <2>1. base' \in DOMAIN mem' /\ mem'[base'] = object' /\ base' # 0
        BY <1>1
    <2>2. (Known(mem, Before(c, 1)) /\ c[1] = Answer(mem, Before(c, 1)))'
        <3>1. Before(c, 1)' = base'
            BY DEF Before
        <3>2. Known(mem', base') /\ c[1] = Answer(mem', base')
            BY <1>5, <2>1 DEF Known, Answer
        <3> QED
            BY <3>1, <3>2
    <2>3. Trail(c, 1, mem)'
        <3>1. \A k \in 1 .. 1 : k = 1
            OBVIOUS
        <3>2. \A k \in 1 .. 1 : (Known(mem, Before(c, k)) /\ c[k] = Answer(mem, Before(c, k)))'
            BY <2>2, <3>1
        <3>3. \A j, k \in 1 .. 1 : j <= k /\ c[j] = 0 => c[k] = 0
            BY <3>1
        <3>4. 1 \in 1 .. Len(offsets')
            BY <1>1, <1>4
        <3> QED
            BY <1>5, <3>2, <3>3, <3>4 DEF Trail, Steps
    <2> QED
        BY <1>1, <2>3 DEF Trail
<1>7. current' = c[next']
    BY <1>1, <1>5
<1>8. walk' = Len(found') + 1 /\ walk' \in 1 .. 6 /\ walk' = 1
    BY <1>1, <1>2
<1> QED
    BY <1>1, <1>2, <1>3, <1>6, <1>7, <1>8 DEF WalkInv

\* The addresses agree with where the path leads at every step.
LEMMA WalkInvariance == OffsetSpec => []WalkInv
<1>1. OffsetInit => WalkInv
    BY DEF OffsetInit, WalkInv
<1>2. WalkInv /\ [OffsetNext]_offsetVars => WalkInv'
    <2> SUFFICES ASSUME WalkInv, [OffsetNext]_offsetVars
                 PROVE  WalkInv'
        OBVIOUS
    <2>1. CASE ParseToken
        <3>1. /\ state = "parsing" /\ state' \in {"parsing", "parsed"}
              /\ walk' = walk /\ found' = found /\ wrapped' = wrapped
              /\ offsets' = Append(offsets, ValueOf[rest[First(NonBlanks)]])
              /\ ValueOf[rest[First(NonBlanks)]] \in Int
            BY <2>1, PathAssumption DEF ParseToken, IsNumber
        <3>2. offsets' \in Seq(Int)
            BY <3>1, AppendProperties DEF WalkInv
        <3> QED
            BY <3>1, <3>2 DEF WalkInv
    <2>2. CASE Throw
        BY <2>2 DEF Throw, WalkInv, pathVars
    <2>3. CASE Empty
        BY <2>3 DEF Empty, WalkInv, pathVars
    <2>4. CASE UNCHANGED offsetVars
        <3>1. /\ offsets' = offsets /\ state' = state /\ object' = object /\ base' = base
              /\ mem' = mem /\ walk' = walk /\ current' = current /\ next' = next
              /\ found' = found /\ wrapped' = wrapped
            BY <2>4 DEF offsetVars, pathVars
        <3>2. Setting' <=> Setting
            BY <3>1 DEF Setting
        <3>3. Steps' = Steps
            BY <3>1 DEF Steps
        <3>4. ASSUME NEW c
              PROVE  /\ Trail(c, next, mem)' <=> Trail(c, next, mem)
                     /\ Trail(c, Steps, mem)' <=> Trail(c, Steps, mem)
                     /\ Position(c)' <=> Position(c)
                     /\ Results(c, found, mem, wrapped)' <=> Results(c, found, mem, wrapped)
            BY <3>1 DEF Trail, Position, Results, Known, Answer, Before, AddOffset, Wraps,
                        Steps
        <3> QED
            BY <3>1, <3>2, <3>3, <3>4 DEF WalkInv
    <2> QED
        BY <2>1, <2>2, <2>3, <2>4, BeginKeepsInv, EncodedKeepsInv, PointerKeepsInv,
           ResolveKeepsInv, GlobalKeepsInv, PairKeepsInv, PairStringKeepsInv
           DEF OffsetNext
<1> QED
    BY <1>1, <1>2, PTL DEF OffsetSpec

\* Whatever the game's memory holds, all natives that are given the same object
\* and offsets speak of the same place.
THEOREM WalksMeet == OffsetSpec => []WalksAgree
<1>1. WalkInv => WalksAgree
    <2> SUFFICES ASSUME WalkInv, state = "done", offsets # << >>
                 PROVE  LET content == IF found[1] = 0 THEN 0 ELSE mem[found[1]]
                        IN  /\ found[2] = content
                            /\ ~wrapped => found[3] = found[1] /\ found[4] = content
                            /\ Len(offsets) = 2 => found[5] = found[1] /\ found[6] = found[1]
        BY DEF WalksAgree
    <2>1. /\ Len(found) >= 4 /\ (Steps = 2 => Len(found) = 6) /\ Len(found) \in Nat
          /\ \E c : Results(c, found, mem, wrapped)
        BY DEF WalkInv, Setting
    <2> QED
        BY <2>1 DEF Results, Answer, Steps
<1> QED
    BY <1>1, WalkInvariance, PTL
=============================================================================
