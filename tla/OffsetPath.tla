----------------------------- MODULE OffsetPath -----------------------------
(***************************************************************************)
(* Paths of offsets such as "0x64+12", and the natives that follow them    *)
(* through the game's memory.                                              *)
(*                                                                         *)
(* A path is parsed token by token; a token that is no number makes        *)
(* std::wstring::substr or std::stol throw, which nothing catches.  Five   *)
(* pieces of code then follow offsets, each in a loop of its own: the      *)
(* walks.  Some start at an object, some at a place that points to it; two *)
(* let an address wrap, three do not.                                      *)
(*                                                                         *)
(* A parsed path is followed by all walks, one after the other.  The       *)
(* memory is any memory: what a place holds is chosen when it is first     *)
(* read.  Places do not overlap, and the game does not write while one     *)
(* native runs, which does so on the game's thread.                        *)
(***************************************************************************)
EXTENDS Integers, Sequences, FiniteSets

CONSTANTS
    Size,         \* addresses are 0 .. Size-1 (2^32 in the code)
    Numbers,      \* numerals that std::stol accepts
    ValueOf,      \* their values
    Paths         \* the texts of scripts: sequences of Items

Blank == " "
Plus  == "+"
Junk  == "?"      \* anything else: a letter, or a numeral out of range
Items == Numbers \cup {Blank, Plus, Junk}

Addresses == 0 .. Size - 1

\* Two numerals in a row would be one numeral.
ASSUME PathAssumption ==
    /\ Size \in Nat \ {0}
    /\ {Blank, Plus, Junk} \cap Numbers = {}
    /\ ValueOf \in [Numbers -> Int]
    /\ \A path \in Paths :
          /\ path \in Seq(Items)
          /\ \A i \in 2 .. Len(path) : ~{path[i - 1], path[i]} \subseteq Numbers

VARIABLES
    path,         \* the text
    rest,         \* what ParseOffsetPath has not looked at
    offsets,      \* what it has found
    state,        \* "parsing", "thrown", "parsed", "walking", "done"
    object,       \* the object the script names
    base,         \* a place that points to it
    mem,          \* what the places hold that have been read
    walk,         \* the walk in progress, an index of Walks
    current,      \* the address it has come to
    next,         \* the offset it takes next
    found,        \* the result of each walk
    wrapped       \* history: an address has left the address space

pathVars == <<path, rest, offsets>>
offsetVars == <<pathVars, state, object, base, mem, walk, current, next, found, wrapped>>

Walks == <<"encoded", "pointer", "resolve", "global", "pair", "pairString">>
OnePath == 1 .. 4           \* the walks for a path of any length
Pairs   == 5 .. 6           \* those for just two offsets

OffsetInit ==
    /\ path \in Paths
    /\ rest = path
    /\ offsets = << >>
    /\ state = IF path = << >> THEN "parsed" ELSE "parsing"
    /\ object = 0 /\ base = 0 /\ mem = << >>
    /\ walk = 0 /\ current = 0 /\ next = 1 /\ found = << >>
    /\ wrapped = FALSE

-----------------------------------------------------------------------------
(* ParseOffsetPath.                                                        *)

First(S) == CHOOSE i \in S : \A j \in S : i <= j

TokenEnd == LET pluses == {i \in DOMAIN rest : rest[i] = Plus}
            IN  IF pluses = {} THEN Len(rest) + 1 ELSE First(pluses)

NonBlanks == {i \in 1 .. TokenEnd - 1 : rest[i] # Blank}

IsNumber == NonBlanks # {} /\ rest[First(NonBlanks)] \in Numbers

\* Mutant of LastToken: a plus at the end begins another token.
LastTokenNoPlus == TokenEnd > Len(rest)

LastToken == TokenEnd >= Len(rest)

\* std::stol takes the number at the front of the token and leaves the rest.
ParseToken ==
    /\ state = "parsing" /\ IsNumber
    /\ offsets' = Append(offsets, ValueOf[rest[First(NonBlanks)]])
    /\ IF LastToken
       THEN state' = "parsed" /\ UNCHANGED rest
       ELSE rest' = SubSeq(rest, TokenEnd + 1, Len(rest)) /\ UNCHANGED state
    /\ UNCHANGED <<path, object, base, mem, walk, current, next, found, wrapped>>

\* A token without a number throws.
Throw ==
    /\ state = "parsing" /\ ~IsNumber
    /\ state' = "thrown"
    /\ UNCHANGED <<pathVars, object, base, mem, walk, current, next, found, wrapped>>

-----------------------------------------------------------------------------
(* Addresses and memory.                                                   *)

\* In 64 bits; null stays null, and what leaves the address space becomes null.
AddOffset(a, offset) ==
    IF a = 0 \/ a + offset <= 0 \/ a + offset >= Size THEN 0 ELSE a + offset

\* In 32 bits: null stays null, and the rest wraps.
Add(a, offset) == IF a = 0 THEN 0 ELSE (a + offset) % Size

Wraps(a, offset) == a # 0 /\ a + offset \notin Addresses

\* Reading null answers null and does not touch the memory.
Read(a, v) ==
    /\ a = 0 => v = 0
    /\ a \in DOMAIN mem => v = mem[a]
    /\ mem' = IF a = 0 THEN mem
              ELSE [b \in DOMAIN mem \cup {a} |-> IF b = a THEN v ELSE mem[b]]

-----------------------------------------------------------------------------
(* The walks.                                                              *)

AtLast == next = Len(offsets)

\* What the script passes: an object, or a place that holds it.
Begin ==
    /\ state = "parsed" /\ walk = 0 /\ offsets # << >>
    /\ state' = "walking"
    /\ base' \in Addresses \ {0}
    /\ object' \in Addresses
    /\ mem' = [b \in {base'} |-> object']
    /\ walk' = 1 /\ current' = object' /\ next' = 1
    /\ UNCHANGED <<pathVars, found, wrapped>>

\* An empty path leads nowhere; the walks that can meet one answer null at once.
Empty ==
    /\ state = "parsed" /\ walk = 0 /\ offsets = << >>
    /\ state' = "done"
    /\ found' = <<0, 0, 0>>
    /\ UNCHANGED <<pathVars, object, base, mem, walk, current, next, wrapped>>

Start(w) ==
    /\ walk' = w
    /\ current' = IF Walks[w] \in {"encoded", "pointer", "pair"} THEN object ELSE base
    /\ next' = 1

Finish(a) ==
    /\ found' = Append(found, a)
    /\ IF walk + 1 \in OnePath \/ (walk + 1 \in Pairs /\ Len(offsets) = 2)
       THEN Start(walk + 1) /\ UNCHANGED state
       ELSE state' = "done" /\ UNCHANGED <<walk, current, next>>

GoOn(a) == current' = a /\ next' = next + 1 /\ UNCHANGED <<state, walk, found>>

On(name) == state = "walking" /\ Walks[walk] = name

\* ResolveEncodedPath: follow all offsets but the last, which is only added.
Encoded ==
    /\ On("encoded")
    /\ \E v \in Addresses :
          IF AtLast
          THEN v = 0 /\ Finish(AddOffset(current, offsets[next])) /\ UNCHANGED mem
          ELSE /\ Read(AddOffset(current, offsets[next]), v)
               /\ IF v = 0 THEN Finish(0) ELSE GoOn(v)
    /\ UNCHANGED <<pathVars, object, base, wrapped>>

\* Mutant of PointerEnd: the last offset is added and not followed.
PointerEndUnread(a, v) == a

\* Where a path ends that was followed to the place a, which holds v.
PointerEnd(a, v) == v

\* ResolvePointerPath: follow all offsets.
Pointer ==
    /\ On("pointer")
    /\ \E v \in Addresses :
          /\ Read(AddOffset(current, offsets[next]), v)
          /\ IF v = 0 \/ AtLast
             THEN Finish(PointerEnd(AddOffset(current, offsets[next]), v))
             ELSE GoOn(v)
    /\ UNCHANGED <<pathVars, object, base, wrapped>>

\* AbsoluteResolvePath: read, then add, for each offset.
Resolve ==
    /\ On("resolve")
    /\ \E v \in Addresses :
          LET a == Add(v, offsets[next])
          IN  /\ Read(current, v)
              /\ wrapped' = (wrapped \/ Wraps(v, offsets[next]))
              /\ IF a = 0 \/ AtLast THEN Finish(a) ELSE GoOn(a)
    /\ UNCHANGED <<pathVars, object, base>>

\* Walk: the same, and the place it ends at is read.
Global ==
    /\ On("global")
    /\ \E v \in Addresses :
          /\ Read(current, v)
          /\ IF next > Len(offsets) THEN Finish(v)
             ELSE IF Add(v, offsets[next]) = 0 THEN Finish(0)
             ELSE GoOn(Add(v, offsets[next]))
    /\ UNCHANGED <<pathVars, object, base, wrapped>>

\* cqx_getObjectInfo2nd and cqx_setObjectInfo2nd: one offset followed, one added.
Pair ==
    /\ On("pair")
    /\ \E child \in Addresses :
          /\ Read(AddOffset(object, offsets[1]), child)
          /\ Finish(AddOffset(child, offsets[2]))
    /\ UNCHANGED <<pathVars, object, base, wrapped>>

\* cqx_getObjectInfo2nd for a string: read, then add, twice.
PairString ==
    /\ On("pairString")
    /\ \E v \in Addresses :
          LET a == AddOffset(v, offsets[next])
          IN  /\ Read(current, v)
              /\ IF AtLast THEN Finish(a) ELSE GoOn(a)
    /\ UNCHANGED <<pathVars, object, base, wrapped>>

OffsetNext ==
    \/ ParseToken
    \/ Throw
    \/ Empty
    \/ Begin
    \/ Encoded
    \/ Pointer
    \/ Resolve
    \/ Global
    \/ Pair
    \/ PairString

OffsetSpec == OffsetInit /\ [][OffsetNext]_offsetVars
-----------------------------------------------------------------------------
(* Properties.                                                             *)

\* Where the tokens of a path begin: at its start, and behind each plus but one
\* at its end.
TokenStarts ==
    {i \in DOMAIN path : i = 1 \/ path[i - 1] = Plus}

\* The token at i is the numeral at j and possibly more.
Numeral(i, j) ==
    path[j] \in Numbers /\ \A k \in i .. j - 1 : path[k] = Blank

\* Parsing finds the numbers between the pluses, in their order, and throws only
\* when one of them is missing: a plus at the end, blanks and trailing text do no
\* harm.
ParsedOrThrown ==
    /\ state = "parsed" =>
          /\ Len(offsets) = Cardinality(TokenStarts)
          /\ \A i \in TokenStarts : \E j \in i .. Len(path) :
                /\ Numeral(i, j)
                /\ offsets[Cardinality({k \in TokenStarts : k <= i})] = ValueOf[path[j]]
    /\ state = "thrown" =>
          \E i \in TokenStarts : \A j \in i .. Len(path) : ~Numeral(i, j)

\* All natives that are given the same object and offsets speak of the same
\* place: the five loops agree, each up to where it starts and whether it reads
\* the place it ends at; the two that wrap differ only when an address wraps.
WalksAgree ==
    state = "done" /\ offsets # << >> =>
        LET content == IF found[1] = 0 THEN 0 ELSE mem[found[1]]
        IN  /\ found[2] = content
            /\ ~wrapped => found[3] = found[1] /\ found[4] = content
            /\ Len(offsets) = 2 => found[5] = found[1] /\ found[6] = found[1]
=============================================================================
