--------------------------- MODULE EncodedFields ---------------------------
(***************************************************************************)
(* The game's encoded integers, as the data natives read and write them.   *)
(*                                                                         *)
(* A field holds a key and a payload.  The key, which the game has given   *)
(* the field, names a cell of the game's global tables; the cell holds the *)
(* salt the payload is masked with and a check word.  Writing a field      *)
(* takes a new salt, masks the payload with it and replaces the cell; the  *)
(* key stays.  Nothing keeps two fields from having the same key.          *)
(*                                                                         *)
(* Fields sit in entries of an object's table.  An entry can name another  *)
(* as its mirror, by an index that is itself an encoded field; writing a   *)
(* field of an entry writes the same field of the mirror.                  *)
(*                                                                         *)
(* A half word is the set of its bits, so that exclusive or is symmetric   *)
(* difference; a word is two halves, the high one first.                   *)
(***************************************************************************)
EXTENDS Integers, FiniteSetsExt

CONSTANTS
    Bits,         \* 0..w-1, w the width of a half word (16 in the code)
    Keys,         \* cells of the global tables
    Entries,      \* entries an object's table can point to
    Offsets,      \* fields of an entry that scripts set
    Words,        \* values scripts set
    Table,        \* the object's table: the entry at an index, or None
    None          \* the null pointer

Half == SUBSET Bits
Word == Half \X Half

MirrorIndex == "mirror"
Fields == Entries \X (Offsets \cup {MirrorIndex})

ASSUME Encodings ==
    /\ Bits \subseteq Nat /\ Words \subseteq Word
    /\ MirrorIndex \notin Offsets
    /\ None \notin Entries /\ None \notin Fields
    /\ Table \in [Word -> Entries \cup {None}]

a (+) b == (a \ b) \cup (b \ a)
Masked(word, salt) == <<word[1] (+) salt, word[2] (+) salt>>

Number(half) == MapThenSumSet(LAMBDA i : 2 ^ i, half)
HalfOf(n) == {i \in Bits : (n \div 2 ^ i) % 2 = 1}

\* Both halves added, without the carry.
Mixed(word) == HalfOf(Number(word[1]) + Number(word[2]))

\* An index without an entry reads as zero and changes nothing.
Indices == {index \in Word : Table[index] # None}

MinusOne == <<Bits, Bits>>

VARIABLES
    key,          \* the key of each field
    payload,      \* the payload of each field
    cell,         \* the salt and the check word of each key
    value,        \* history: what each field was last set to, or Lost once
                  \* another field with its key has been set
    last          \* history: the entry, field and value of the last SetData,
                  \* until another write

vars == <<key, payload, cell, value, last>>

Zero == <<{}, {}>>
Lost == << >>

Init ==
    /\ key \in [Fields -> Keys]
    /\ cell = [k \in Keys |-> [salt |-> {}, check |-> Mixed(Zero)]]
    /\ \E mirror \in [Entries -> Indices \cup {MinusOne}] :
          payload = [f \in Fields |-> IF f[2] = MirrorIndex THEN mirror[f[1]]
                                      ELSE Zero]
    /\ value = payload
    /\ last = << >>

-----------------------------------------------------------------------------
\* Mutant of Decode: the salt is not spread over both halves.
DecodeLowHalf(f) ==
    IF f = None THEN Zero
    ELSE <<payload[f][1], payload[f][2] (+) cell[key[f]].salt>>

\* AbsoluteDecode; a null field reads as zero.
Decode(f) ==
    IF f = None THEN Zero ELSE Masked(payload[f], cell[key[f]].salt)

\* Mutant of Cell: the sum is not mixed with the salt.
CellUnmixed(word, salt) == [salt |-> salt, check |-> Mixed(word)]

Cell(word, salt) == [salt |-> salt, check |-> salt (+) Mixed(word)]

\* AbsoluteEncode, as a function on memory; a null field is not written.
Encode(m, f, word, salt) ==
    IF f = None THEN m
    ELSE [payload |-> [m.payload EXCEPT ![f] = Masked(word, salt)],
          cell |-> [m.cell EXCEPT ![key[f]] = Cell(word, salt)],
          value |-> [g \in Fields |-> IF g = f THEN word
                                      ELSE IF key[g] = key[f] THEN Lost
                                      ELSE m.value[g]]]

Memory == [payload |-> payload, cell |-> cell, value |-> value]

Field(entry, offset) == IF entry = None THEN None ELSE <<entry, offset>>

\* Mutant of MirrorOf: every entry is its own mirror.
MirrorOfItself(m, entry) == entry

\* The mirror is looked up after the field has been written.
MirrorOf(m, entry) ==
    IF entry = None THEN None
    ELSE LET f == <<entry, MirrorIndex>>
             index == Masked(m.payload[f], m.cell[key[f]].salt)
         IN  IF index = MinusOne THEN None ELSE Table[index]

\* cqx_setStaticData and cqx_setLevelData; every write draws its own salt.
SetData(index, offset, word) ==
    \E s1, s2 \in Half :
        LET entry  == Table[index]
            first  == Encode(Memory, Field(entry, offset), word, s1)
            mirror == MirrorOf(first, entry)
            both   == Encode(first, Field(mirror, offset), word, s2)
        IN  /\ payload' = both.payload
            /\ cell' = both.cell
            /\ value' = both.value
            /\ last' = <<entry, offset, word>>
            /\ UNCHANGED key

\* cqx_setObjectData writes one field of anything.
SetField(f, word) ==
    \E salt \in Half :
        LET m == Encode(Memory, f, word, salt)
        IN  /\ payload' = m.payload
            /\ cell' = m.cell
            /\ value' = m.value
            /\ last' = << >>
            /\ UNCHANGED key

Next ==
    \/ \E index \in Indices, offset \in Offsets, word \in Words :
          SetData(index, offset, word)
    \/ \E f \in Entries \X Offsets, word \in Words : SetField(f, word)

Spec == Init /\ [][Next]_vars

-----------------------------------------------------------------------------
TypeOK ==
    /\ key \in [Fields -> Keys]
    /\ payload \in [Fields -> Word]
    /\ cell \in [Keys -> [salt : Half, check : Half]]
    /\ value \in [Fields -> Word \cup {Lost}]
    /\ last \in {<< >>} \cup (Entries \X Offsets \X Words)

\* A field reads as what it was last set to, through any number of new salts
\* and writes to other fields, unless one of those has the same key.
ReadsAsSet == \A f \in Fields : value[f] # Lost => Decode(f) = value[f]

\* The check word the game compares fits the value in the same case.
CheckFits ==
    \A f \in Fields :
        value[f] # Lost /\ f[2] # MirrorIndex =>
            cell[key[f]].check = cell[key[f]].salt (+) Mixed(Decode(f))

\* When a script has set a field of an entry, the entry and its mirror agree on
\* it, whatever they held before: the value is seen at either index.  Shared
\* keys can break that for the two fields, or lead to another mirror.
MirrorAgrees ==
    LET e == last[1]  mirror == value[<<e, MirrorIndex>>]
    IN  last # << >> /\ mirror \notin {Lost, MinusOne} =>
          LET f == <<e, last[2]>>  g == <<Table[mirror], last[2]>>
          IN  /\ Decode(g) = last[3]
              /\ f = g \/ key[f] # key[g] => Decode(f) = last[3]

=============================================================================
