---------------------------- MODULE NativeCalls ----------------------------
(***************************************************************************)
(* One call of one of the natives that work on the game itself: everything *)
(* callback_registry.cpp registers but the three that call script          *)
(* functions (VmStack).  A native reads its arguments from the VM's stack, *)
(* one slot after the other, and refuses the call at the first that does   *)
(* not convert; then it calls into the game, and then it returns.          *)
(*                                                                         *)
(* The VM does not check how many arguments there are: a slot beyond them  *)
(* holds what the calling script has left there.                           *)
(*                                                                         *)
(* Natives run to their end on the game's thread, but a packet takes       *)
(* several of them, and all of them and the game share one packet writer.  *)
(* Numbers are the game's 32-bit integers, scaled down by the base Byte;   *)
(* an address is a number, 0 the null pointer.                             *)
(***************************************************************************)
EXTENDS Integers, Sequences

CONSTANTS
    Byte,         \* how many values a byte has, 256 in the code
    Numbers,      \* integers a script passes
    MaxFields     \* bound: fields a script writes into one packet

Word  == Byte * Byte
Dword == Word * Word
Qword == Dword * Dword

ASSUME ByteAssumption == Byte \in Nat /\ Byte > 1 /\ Byte % 2 = 0
ASSUME NumbersAssumption ==
    {0, 1} \subseteq Numbers /\ Numbers \subseteq -(Dword \div 2) .. (Dword \div 2) - 1
ASSUME BoundAssumption == MaxFields \in Nat

VARIABLES
    call,         \* the native in progress, or Idle
    writer,       \* the packet in the game's writer
    script        \* history: the packet as the script believes it, or Forgotten

vars == <<call, writer, script>>

-----------------------------------------------------------------------------
(* Reading an argument: the values a getter can make of a slot, none if it *)
(* does not convert.  An instance has a pointer of the game inside, or     *)
(* only its user pointer, or neither.                                      *)

Kinds == {"int", "float", "bool", "string", "wrapped", "instance", "hollow", "other"}

\* sq_getinteger takes a float as well, and cuts its fraction off.
GetInteger(kind) == IF kind \in {"int", "float"} THEN Numbers ELSE {}
GetFloat(kind)   == GetInteger(kind)
GetBool(kind)    == IF kind = "bool" THEN {0, 1} ELSE GetInteger(kind)
GetString(kind)  == IF kind = "string" THEN {1} ELSE {}

\* Mutant: the integer is not compared with zero.
GetObjectOrNull(kind) ==
    IF kind \in {"wrapped", "instance"} THEN {1} ELSE GetInteger(kind)

\* The wrapped pointer, else the user pointer, else an integer that is one.
GetObject(kind) ==
    IF kind \in {"wrapped", "instance"} THEN {1} ELSE GetInteger(kind) \ {0}

\* The address of a string as an integer.
GetAddress(kind) == GetInteger(kind) \ {0}

Get(type, kind) ==
    CASE type = "int"     -> GetInteger(kind)
      [] type = "float"   -> GetFloat(kind)
      [] type = "bool"    -> GetBool(kind)
      [] type = "string"  -> GetString(kind)
      [] type = "object"  -> GetObject(kind)
      [] type = "address" -> GetAddress(kind)

Pointers == {"string", "object", "address"}

-----------------------------------------------------------------------------
(* The natives, by the types of their arguments.                           *)

DrawNatives ==
    [ cqx_getScreenX          |-> << >>,
      cqx_getSkillCurrentCool |-> <<"object">>,
      cqx_DrawSkillIcon       |-> <<"object", "int", "int", "float", "float", "int">>,
      cqx_DrawItemSlot        |-> <<"int", "int", "int", "int">>,
      cqx_drawText            |-> <<"int", "int", "int", "string">>,
      cqx_drawTips            |-> <<"int", "int", "int", "int", "string", "int", "int">>,
      cqx_drawImage           |-> <<"string", "int", "int", "int", "int", "float", "float">> ]

NoticeNative == [ cqx_sendNotice |-> <<"string", "int", "int">> ]

PacketNatives ==
    [ cqx_packetWriteHeader |-> <<"int">>,
      cqx_PacketWriteData   |-> <<"int", "int">>,
      cqx_SendPacket        |-> << >>,
      cqx_exitDungeon       |-> << >>,
      cqx_startDungeon      |-> <<"int", "int", "int">> ]

EntryNatives ==
    [ cqx_readValue         |-> <<"int", "string", "bool", "int">>,
      cqx_getStaticData     |-> <<"object", "int", "int">>,
      cqx_getLeveData       |-> <<"object", "int", "int", "int">>,
      cqx_setStaticData     |-> <<"object", "int", "int", "int">>,
      cqx_setLevelData      |-> <<"object", "int", "int", "int", "int">>,
      cqx_saveDataSkillFile |-> <<"int", "int", "int", "int">>,
      cqx_getinfoFromData   |-> <<"int">> ]

FieldNatives ==
    [ cqx_GetChrName       |-> << >>,
      cqx_getObjectAnyInfo |-> <<"object", "string", "int">>,
      cqx_getObjectInfo    |-> <<"object", "int", "int">>,
      cqx_setObjectData    |-> <<"object", "int", "bool", "int">>,
      cqx_getObjectInfo2nd |-> <<"object", "int", "int", "int">>,
      cqx_setObjectInfo2nd |-> <<"object", "int", "int", "bool", "int">> ]

SlotNative == [ cqx_getItemSlotIndex |-> <<"object", "int">> ]

PathNatives ==
    [ cqx_pushObject |-> <<"string", "int", "string">>,
      sqx_customName |-> <<"address">> ]

Tables == {DrawNatives, NoticeNative, PacketNatives, EntryNatives, FieldNatives,
           SlotNative, PathNatives}
Natives == UNION {DOMAIN table : table \in Tables}
Types(n) == (CHOOSE table \in Tables : n \in DOMAIN table)[n]

\* The last argument of two natives may be missing, and is this then.
Optional == [cqx_PacketWriteData |-> 4, cqx_startDungeon |-> 0]

-----------------------------------------------------------------------------
(* The packet writer of the game.  Beginning a packet starts it anew; what *)
(* is written after one has been sent goes into a packet without an id.    *)

NoPacket == [id |-> << >>, fields |-> << >>]
GamePacket == [id |-> <<0>>, fields |-> << >>]

\* Mutant: the upper half of the widest field is the sign bit.
FieldUnextended(value, width) ==
    CASE width = 1 -> [bytes |-> 1, wire |-> value % Byte]
      [] width = 2 -> [bytes |-> 2, wire |-> value % Word]
      [] width = 3 -> [bytes |-> 4, wire |-> value % Dword]
      [] OTHER     -> [bytes |-> 8, wire |-> (value % Dword)
                                             + Dword * (IF value < 0 THEN 1 ELSE 0)]

\* A field as it goes over the wire.  The upper half of the widest one is
\* value >> 31.
Field(value, width) ==
    CASE width = 1 -> [bytes |-> 1, wire |-> value % Byte]
      [] width = 2 -> [bytes |-> 2, wire |-> value % Word]
      [] width = 3 -> [bytes |-> 4, wire |-> value % Dword]
      [] OTHER     -> [bytes |-> 8, wire |-> (value % Dword)
                          + Dword * ((value \div (Dword \div 2)) % Dword)]

\* The calls into the game.
Begin(id)           == [op |-> "begin", value |-> id, width |-> 0]
Write(value, width) == [op |-> "write", value |-> value, width |-> width]
Send                == [op |-> "send", value |-> 0, width |-> 0]
Use                 == [op |-> "use", value |-> 0, width |-> 0]

Perform(c) ==
    writer' = CASE c.op = "begin" -> [id |-> <<c.value>>, fields |-> << >>]
                [] c.op = "write" ->
                      [writer EXCEPT !.fields = Append(@, Field(c.value, c.width))]
                [] c.op = "send"  -> NoPacket
                [] OTHER          -> writer

ExitDungeon == <<Begin(45), Send>>

\* Mutant: the second packet is not begun.
StartDungeonOnce(dungeon, first, second) ==
    <<Begin(15), Send, Write(dungeon, 2), Write(first % Byte, 1),
      Write(second % Byte, 1), Write(0, 1), Write(0, 1), Send>>

\* cqx_startDungeon leaves the dungeon the player is in, and enters the next.
StartDungeon(dungeon, first, second) ==
    <<Begin(15), Send,
      Begin(16), Write(dungeon, 2), Write(first % Byte, 1), Write(second % Byte, 1),
      Write(0, 1), Write(0, 1), Send>>

\* What a native may call, given the numbers it has read.  An image that is not
\* found is replaced by a tip.
Calls(n, got) ==
    CASE n = "cqx_packetWriteHeader" -> {<<Begin(got[1])>>}
      [] n = "cqx_PacketWriteData"   -> {<<Write(got[1], got[2])>>}
      [] n = "cqx_SendPacket"        -> {<<Send>>}
      [] n = "cqx_exitDungeon"       -> {ExitDungeon}
      [] n = "cqx_startDungeon"      -> {StartDungeon(got[1], got[2], got[3])}
      [] n = "cqx_drawImage"         -> {<<Use>>, <<Use, Use>>}
      [] OTHER                       -> {<<Use>>}

-----------------------------------------------------------------------------
(* A native.  What it has read is kept as far as it matters later: the     *)
(* numbers of the packet natives, whether an address was null, and whether *)
(* a value came from a slot beyond the arguments.                          *)

Idle == [native |-> "none", phase |-> "idle", read |-> 0, misread |-> FALSE,
         null |-> FALSE, got |-> << >>, todo |-> << >>]

Init ==
    /\ call = Idle
    /\ writer = NoPacket
    /\ script = {NoPacket}

\* RegisterSquirrelExtensions has made all of them callable.
CallNative(n) ==
    /\ call = Idle
    /\ n = "cqx_PacketWriteData" => Len(writer.fields) < MaxFields
    /\ call' = [Idle EXCEPT !.native = n, !.phase = "read"]
    /\ UNCHANGED <<writer, script>>

Tracked == call.native \in DOMAIN PacketNatives
Reading == call.phase = "read" /\ call.read < Len(Types(call.native))
Type == Types(call.native)[call.read + 1]

\* A slot is only given if those before it were.
Slot(given) == Reading /\ (given => ~call.misread)

ReadArgument(kind, given) ==
    /\ Slot(given)
    /\ \E v \in Get(Type, kind) :
          call' = [call EXCEPT !.read = @ + 1,
                     !.misread = Tracked /\ ~given,
                     !.null = @ \/ (Type \in Pointers /\ v = 0),
                     !.got = IF Tracked THEN Append(@, v) ELSE @]
    /\ UNCHANGED <<writer, script>>

IsOptional == call.native \in DOMAIN Optional /\ call.read + 1 = Len(Types(call.native))

DefaultArgument(kind, given) ==
    /\ Slot(given) /\ IsOptional
    /\ Get(Type, kind) = {}
    /\ call' = [call EXCEPT !.read = @ + 1, !.got = Append(@, Optional[call.native])]
    /\ UNCHANGED <<writer, script>>

\* The native answers zero, or nothing, and is done.
Refuse(kind, given) ==
    /\ Slot(given) /\ ~IsOptional
    /\ Get(Type, kind) = {}
    /\ call' = Idle
    /\ UNCHANGED <<writer, script>>

Accept ==
    /\ call.phase = "read" /\ call.read = Len(Types(call.native))
    /\ \E todo \in Calls(call.native, call.got) :
          call' = [call EXCEPT !.phase = "act", !.todo = todo]
    /\ UNCHANGED <<writer, script>>

CallGame ==
    /\ call.phase = "act" /\ call.todo # << >>
    /\ Perform(Head(call.todo))
    /\ call' = [call EXCEPT !.todo = Tail(@)]
    /\ UNCHANGED script

\* What the script believes of its packet when the native has not refused.
\* It cannot tell once it, or the game, has used the writer for another.
Bytes(width) == IF width = 3 THEN 4 ELSE IF width \in {1, 2} THEN width ELSE 8

Believed ==
    IF call.misread THEN {}
    ELSE CASE call.native = "cqx_SendPacket" -> {NoPacket}
           [] call.native = "cqx_packetWriteHeader" ->
                 {[id |-> <<call.got[1]>>, fields |-> << >>]}
           [] call.native = "cqx_PacketWriteData" ->
                 {[p EXCEPT !.fields = Append(@, [bytes |-> Bytes(call.got[2]),
                                                  value |-> call.got[1]])] : p \in script}
           [] call.native \in {"cqx_exitDungeon", "cqx_startDungeon"} -> {}
           [] OTHER -> script

Return ==
    /\ call.phase = "act" /\ call.todo = << >>
    /\ call' = Idle
    /\ script' = Believed
    /\ UNCHANGED writer

\* The game sends a packet of its own; scripts may run in between.
GameBegins ==
    /\ call = Idle
    /\ writer' = GamePacket
    /\ script' = {}
    /\ UNCHANGED call

GameSends ==
    /\ call = Idle
    /\ writer' = NoPacket
    /\ script' = {}
    /\ UNCHANGED call

Next ==
    \/ \E n \in Natives : CallNative(n)
    \/ \E kind \in Kinds, given \in BOOLEAN :
          \/ ReadArgument(kind, given)
          \/ DefaultArgument(kind, given)
          \/ Refuse(kind, given)
    \/ Accept \/ CallGame \/ Return
    \/ GameBegins \/ GameSends

Spec == Init /\ [][Next]_vars
-----------------------------------------------------------------------------
(* Properties.                                                             *)

Full(bytes) ==
    CASE bytes = 1 -> Byte [] bytes = 2 -> Word [] bytes = 4 -> Dword [] OTHER -> Qword

\* The receiver, who takes a field for a number in two's complement, reads the
\* script's value, or its low bits if the field is too narrow.
Arrives(field, value) == field.wire = value % Full(field.bytes)

\* No address that a native hands to the game, or reads through, is null,
\* whatever the script passed: the wrapped pointer, the user pointer and the
\* integer that stands for one are each refused then.
NullNeverHanded == call.phase = "act" => ~call.null

\* Whenever the script is in control, the packet in the writer is what the
\* answers of the packet natives have told it: with the id of its header, and
\* with every field that was not refused, in order, in the width that was asked
\* for (or the widest) and with its value, unless the game or a dungeon native
\* has used the writer since or a missing argument was read from a slot beyond.
ScriptPacketWhole ==
    call = Idle =>
        \A p \in script :
            /\ writer.id = p.id
            /\ Len(writer.fields) = Len(p.fields)
            /\ \A i \in DOMAIN p.fields :
                  /\ writer.fields[i].bytes = p.fields[i].bytes
                  /\ Arrives(writer.fields[i], p.fields[i].value)

\* What cqx_startDungeon and cqx_exitDungeon send is whole, whatever packet was
\* begun before: no field of it gets in, and no packet goes without its id.
DungeonPacketsWhole ==
    call.todo # << >> /\ Head(call.todo) = Send =>
        /\ call.native = "cqx_exitDungeon" => writer = [id |-> <<45>>, fields |-> << >>]
        /\ call.native = "cqx_startDungeon" =>
              IF Len(call.todo) > 1 THEN writer = [id |-> <<15>>, fields |-> << >>]
              ELSE LET sent == <<call.got[1], call.got[2], call.got[3], 0, 0>>
                   IN  /\ writer.id = <<16>>
                       /\ Len(writer.fields) = 5
                       /\ \A i \in 1..5 :
                             /\ writer.fields[i].bytes = (IF i = 1 THEN 2 ELSE 1)
                             /\ Arrives(writer.fields[i], sent[i])
=============================================================================
