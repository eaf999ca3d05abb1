--------------------------- MODULE SkillDataStore ---------------------------
(***************************************************************************)
(* The numbers cqx_saveDataSkillFile keeps per character, in memory and in *)
(* SoundPacks/sounds_effect_chr.npk.                                       *)
(*                                                                         *)
(* A client of the game reads the whole file the first time a script asks  *)
(* for anything, keeps what it has read for as long as it runs, and        *)
(* rewrites the whole file from that copy on every save.  Several clients  *)
(* run from one directory; a client can end at any point.  Inside a client *)
(* a mutex makes each call one operation, so a call is only split where    *)
(* another client, or the end of this one, can be seen: a save truncates   *)
(* the file and then writes it line by line.                               *)
(*                                                                         *)
(* A character's name is a sequence of bytes, and its lines go under an    *)
(* escaped form of it.  The four numbers of a save are one value, and a    *)
(* line is written whole or not at all: a line that is cut short has no    *)
(* closing bracket and reads as nothing.                                   *)
(***************************************************************************)
EXTENDS Naturals, SequencesExt

CONSTANTS
    Clients,      \* the game clients that share the directory
    Characters,   \* their names in UTF-8, the empty one for none
    Values        \* what a save can record

ASSUME NamesAreBytes == IsFiniteSet(Characters) /\ Characters \subseteq Seq(0..255)

Absent == "absent"
ASSUME AbsentIsNone == Absent \notin Values

VARIABLES
    file,         \* the lines of the file, each a character and a value
    client,       \* the state of each client
    told,         \* what scripts were last told is saved, per character
    mishaps       \* history: what has happened that can lose an entry

storeVars == <<file, client, told, mishaps>>

\* MakeCharacterDataKey: for each byte a backslash, an x, and its two halves in
\* decimal.  The backslash and the x are the number 10, which sorts like them.
Decimal(n) == IF n < 10 THEN <<n>> ELSE <<1, n - 10>>
Escaped(byte) == <<10>> \o Decimal(byte \div 16) \o Decimal(byte % 16)

\* Mutant: each byte replaces the key of those before it.
KeyOfLast(name) == IF name = << >> THEN << >> ELSE Escaped(Last(name))

KeyOf(name) == FlattenSeq([i \in DOMAIN name |-> Escaped(name[i])])

Keys == {KeyOf(c) : c \in Characters}

Tables == [Keys -> Values \cup {Absent}]
Empty == [k \in Keys |-> Absent]

\* Zeros where a client has written beyond the end of the file: no line break
\* ends them, so that the line that follows is not readable either.
Hole == << <<0>>, Absent >>

\* The last line of a character is the one that counts.
Parse(lines) ==
    [k \in Keys |->
        LET at == {i \in DOMAIN lines :
                     /\ lines[i][1] = k
                     /\ i > 1 => lines[i - 1] # Hole}
        IN  IF at = {} THEN Absent ELSE lines[Max(at)][2]]

\* The map is ordered by key: where two keys first differ, the one that comes
\* before the other ends, or has the smaller number.
Before(a, b) ==
    \E i \in 1 .. Len(b) :
        /\ i <= Len(a) + 1
        /\ \A j \in 1 .. i - 1 : a[j] = b[j]
        /\ i <= Len(a) => a[i] < b[i]

InOrder(S) ==
    CHOOSE s \in [1 .. Cardinality(S) -> S] : \A i, j \in DOMAIN s : i < j => Before(s[i], s[j])

\* A save writes the lines in the order of the map.
Lines(table) ==
    LET keys == InOrder({k \in Keys : table[k] # Absent})
    IN  [i \in DOMAIN keys |-> <<keys[i], table[keys[i]]>>]

\* "fresh" is history: the client's table is what the file held when it read
\* it, and no other client has opened the file for writing since.
Down == [up |-> FALSE, loaded |-> FALSE, table |-> Empty, fresh |-> FALSE,
         writing |-> FALSE, pos |-> 0, saving |-> << >>]

StoreInit ==
    /\ \E table \in Tables : file = Lines(table)
    /\ client = [p \in Clients |-> Down]
    /\ told = [n \in Characters |-> Parse(file)[KeyOf(n)]]
    /\ mishaps = {}

Set(p, r) == client' = [client EXCEPT ![p] = r]

SomeoneWrites == \E q \in Clients : client[q].writing

-----------------------------------------------------------------------------
Start(p) ==
    /\ ~client[p].up
    /\ Set(p, [Down EXCEPT !.up = TRUE])
    /\ UNCHANGED <<file, told, mishaps>>

\* A client that ends inside a save leaves what it has written.
End(p) ==
    /\ client[p].up
    /\ Set(p, Down)
    /\ mishaps' = IF client[p].writing THEN mishaps \cup {"cut"} ELSE mishaps
    /\ UNCHANGED <<file, told>>

\* LoadSkillDataLocked: the flag is set before the file is opened, and a file
\* that does not open reads as an empty one.
Load(c, opened) ==
    IF c.loaded THEN c
    ELSE [c EXCEPT !.loaded = TRUE,
                   !.fresh = opened /\ ~SomeoneWrites,
                   !.table = IF opened THEN Parse(file) ELSE Empty]

LoadMishap(c, opened) ==
    IF c.loaded \/ opened THEN {} ELSE {"unread"}

\* cqx_getinfoFromData: nothing but the load changes state.
GetInfo(p) ==
    /\ client[p].up /\ ~client[p].writing
    /\ \E opened \in BOOLEAN :
          /\ Set(p, Load(client[p], opened))
          /\ mishaps' = mishaps \cup LoadMishap(client[p], opened)
    /\ UNCHANGED <<file, told>>

\* cqx_saveDataSkillFile up to the truncation of the file.
BeginSave(p, n, v) ==
    /\ client[p].up /\ ~client[p].writing
    /\ \E opened \in BOOLEAN :
          LET c == Load(client[p], opened)
          IN  /\ client' = [q \in Clients |->
                    IF q = p THEN [c EXCEPT !.table[KeyOf(n)] = v, !.writing = TRUE,
                                            !.pos = 1, !.saving = <<n, v>>]
                    ELSE [client[q] EXCEPT !.fresh = FALSE]]
              /\ mishaps' = mishaps \cup LoadMishap(client[p], opened)
                    \cup IF c.fresh /\ ~SomeoneWrites THEN {} ELSE {"stale"}
    /\ file' = << >>
    /\ UNCHANGED told

\* A save that cannot open the file keeps the value in memory only, and
\* answers as if it had saved it.
SaveUnopened(p, n, v) ==
    /\ client[p].up /\ ~client[p].writing
    /\ \E opened \in BOOLEAN :
          /\ Set(p, [Load(client[p], opened) EXCEPT !.table[KeyOf(n)] = v])
          /\ mishaps' = mishaps \cup {"unsaved"}
                            \cup LoadMishap(client[p], opened)
    /\ told' = [told EXCEPT ![n] = v]
    /\ UNCHANGED file

\* Mutant: every line carries the value of the first.
LineOfFirst(c) == <<Lines(c.table)[c.pos][1], Lines(c.table)[1][2]>>

Line(c) == Lines(c.table)[c.pos]

\* A client writes at its own position, over what is there.
WriteLine(p) ==
    LET c == client[p]
    IN  /\ c.writing /\ c.pos <= Len(Lines(c.table))
        /\ file' = IF c.pos <= Len(file) THEN ReplaceAt(file, c.pos, Line(c))
                   ELSE Append(file \o [i \in 1..(c.pos - 1 - Len(file)) |-> Hole],
                               Line(c))
        /\ Set(p, [c EXCEPT !.pos = @ + 1])
        /\ UNCHANGED <<told, mishaps>>

CloseSave(p) ==
    LET c == client[p]
    IN  /\ c.writing /\ c.pos > Len(Lines(c.table))
        /\ told' = [told EXCEPT ![c.saving[1]] = c.saving[2]]
        /\ Set(p, [c EXCEPT !.writing = FALSE, !.pos = 0,
                            !.saving = << >>])
        /\ UNCHANGED <<file, mishaps>>

-----------------------------------------------------------------------------
StoreNext ==
    \E p \in Clients :
        \/ Start(p) \/ End(p) \/ GetInfo(p) \/ WriteLine(p) \/ CloseSave(p)
        \/ \E n \in Characters, v \in Values :
              BeginSave(p, n, v) \/ SaveUnopened(p, n, v)

StoreSpec == StoreInit /\ [][StoreNext]_storeVars

-----------------------------------------------------------------------------
StoreTypeOK ==
    /\ file \in Seq((Keys \X Values) \cup {Hole})
    /\ client \in [Clients -> [up : BOOLEAN, loaded : BOOLEAN, table : Tables,
                              fresh : BOOLEAN, writing : BOOLEAN, pos : Nat,
                              saving : (Characters \X Values) \cup {<< >>}]]
    /\ \A p \in Clients :
          client[p].writing => client[p].loaded /\ client[p].saving # << >>
    /\ told \in [Characters -> Values \cup {Absent}]
    /\ mishaps \subseteq {"cut", "unread", "unsaved", "stale"}

\* The entry of every character is what scripts were last told is saved, over
\* any number of saves, clients, ends and restarts, as long as none of four
\* things has happened: a client ended inside a save, a file did not open for
\* reading, a file did not open for writing, or a client saved from a copy
\* that another client's save had overtaken.
SavedUnlessMishap ==
    mishaps = {} /\ ~SomeoneWrites =>
        \A n \in Characters : Parse(file)[KeyOf(n)] = told[n]

\* Without clients that overtake one another, and with files that open, a
\* client that ends inside a save can lose entries but changes none: what can
\* still be read of any other character is what was last saved.
CutLosesOnly ==
    [][\A p \in Clients, n \in Characters :
         /\ mishaps = {} /\ client[p].writing /\ ~client'[p].up
         /\ n # client[p].saving[1]
         => Parse(file)[KeyOf(n)] \in {told[n], Absent}]_storeVars
=============================================================================
