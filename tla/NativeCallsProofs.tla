------------------------- MODULE NativeCallsProofs -------------------------
(***************************************************************************)
(* For any width of a byte, any numbers a script passes and packets of any *)
(* length: the types of NativeCalls, the numbers a native has read, and    *)
(* the two kinds of packets.                                               *)
(***************************************************************************)
EXTENDS NativeCalls, TLAPS

-----------------------------------------------------------------------------
(* The arithmetic of a field.                                              *)

LEMMA Widths ==
    /\ Word \in Nat /\ Word > 1
    /\ Dword \in Nat /\ Dword > 1
    /\ Qword \in Nat /\ Qword > 1
<1>1. \A m, n \in Nat : m > 1 /\ n > 1 => m * n \in Nat /\ m * n > 1
    OBVIOUS
<1> QED
    BY <1>1, ByteAssumption DEF Word, Dword, Qword

\* The sign bit splits a double word in two halves.
LEMMA DwordIsEven == \E h \in Nat \ {0} : Dword = 2 * h /\ Dword \div 2 = h
<1>1. PICK k \in Nat : Byte = 2 * k
  <2>1. \A b \in Nat : b % 2 = 0 => b = 2 * (b \div 2) /\ b \div 2 \in Nat
    OBVIOUS
  <2> QED
    BY <2>1, ByteAssumption
<1>2. \A a, b, c \in Nat : (2 * a * b) * c = 2 * (a * b * c) /\ a * b * c \in Nat
    OBVIOUS
<1>3. Dword = 2 * (k * Byte * Word)
    BY <1>1, <1>2, Widths, ByteAssumption DEF Dword, Word
<1>4. \A h \in Nat : (2 * h) \div 2 = h
    OBVIOUS
<1>5. k * Byte * Word \in Nat
    BY <1>1, <1>2, Widths, ByteAssumption
<1> QED
    BY <1>3, <1>4, <1>5, Widths

\* A number below the modulus is its own remainder, and one just below zero is
\* short of the modulus by itself.
LEMMA Remainders ==
    ASSUME NEW m \in Nat, m > 0, NEW x \in Int
    PROVE  /\ 0 <= x /\ x < m => x % m = x
           /\ -m <= x /\ x < 0 => x % m = x + m
           /\ x % m \in 0 .. m - 1
OBVIOUS

LEMMA Quotients ==
    ASSUME NEW m \in Nat, m > 0, NEW x \in Int
    PROVE  /\ 0 <= x /\ x < m => x \div m = 0
           /\ -m <= x /\ x < 0 => x \div m = -1
OBVIOUS

\* The upper half of the widest field is the sign of the lower.
LEMMA WidestArrives ==
    ASSUME NEW v \in -(Dword \div 2) .. (Dword \div 2) - 1
    PROVE  (v % Dword) + Dword * ((v \div (Dword \div 2)) % Dword) = v % Qword
<1>1. PICK h \in Nat \ {0} : Dword = 2 * h /\ Dword \div 2 = h
    BY DwordIsEven
<1>2. CASE v >= 0
  <2>1. v % Dword = v /\ v \div h = 0 /\ 0 % Dword = 0
    BY <1>1, <1>2, Remainders, Quotients
  <2>2. Qword >= Dword
    BY Widths DEF Qword
  <2>3. v % Qword = v
    BY <1>1, <1>2, <2>2, Widths, Remainders
  <2> QED
    BY <1>1, <2>1, <2>3, Widths
<1>3. CASE v < 0
  <2>1. v % Dword = v + Dword /\ v \div h = -1 /\ (-1) % Dword = Dword - 1
    BY <1>1, <1>3, Remainders, Quotients, Widths
  <2>2. Qword >= Dword
    BY Widths DEF Qword
  <2>3. v % Qword = v + Qword
    BY <1>1, <1>3, <2>2, Widths, Remainders
  <2>4. Dword * (Dword - 1) = Qword - Dword
    BY Widths DEF Qword
  <2> QED
    BY <1>1, <2>1, <2>3, <2>4, Widths
<1> QED
    BY <1>1, <1>2, <1>3

\* A field carries its value in the width that was asked for, or the widest.
LEMMA FieldArrives ==
    ASSUME NEW v \in -(Dword \div 2) .. (Dword \div 2) - 1, NEW width \in Int
    PROVE  /\ Field(v, width).bytes = Bytes(width)
           /\ Arrives(Field(v, width), v)
BY WidestArrives DEF Field, Bytes, Arrives, Full

-----------------------------------------------------------------------------
(* The types of the packet natives' arguments.                             *)

LEMMA PacketTypes ==
    ASSUME NEW n \in DOMAIN PacketNatives
    PROVE  Types(n) = PacketNatives[n]
<1>1. \A table \in Tables : n \in DOMAIN table => table = PacketNatives
    BY DEF Tables, DrawNatives, NoticeNative, PacketNatives, EntryNatives,
    FieldNatives, SlotNative, PathNatives
<1>2. PacketNatives \in Tables
    BY DEF Tables
<1>3. (CHOOSE table \in Tables : n \in DOMAIN table) = PacketNatives
    BY <1>1, <1>2
<1> QED
    BY <1>3 DEF Types

LEMMA PacketLengths ==
    /\ Types("cqx_packetWriteHeader") = <<"int">>
    /\ Types("cqx_PacketWriteData") = <<"int", "int">>
    /\ Types("cqx_SendPacket") = << >>
    /\ Types("cqx_exitDungeon") = << >>
    /\ Types("cqx_startDungeon") = <<"int", "int", "int">>
    /\ \A n \in DOMAIN PacketNatives : Types(n) \in Seq({"int"})
<1>1. DOMAIN PacketNatives = {"cqx_packetWriteHeader", "cqx_PacketWriteData",
                              "cqx_SendPacket", "cqx_exitDungeon", "cqx_startDungeon"}
    BY DEF PacketNatives
<1>2. /\ PacketNatives["cqx_packetWriteHeader"] = <<"int">>
      /\ PacketNatives["cqx_PacketWriteData"] = <<"int", "int">>
      /\ PacketNatives["cqx_SendPacket"] = << >>
      /\ PacketNatives["cqx_exitDungeon"] = << >>
      /\ PacketNatives["cqx_startDungeon"] = <<"int", "int", "int">>
    BY DEF PacketNatives
<1> QED
  <2>0. /\ <<"int">> \in Seq({"int"}) /\ <<"int", "int">> \in Seq({"int"})
        /\ << >> \in Seq({"int"}) /\ <<"int", "int", "int">> \in Seq({"int"})
    OBVIOUS
  <2>1. \A n \in DOMAIN PacketNatives : PacketNatives[n] \in Seq({"int"})
    BY <1>1, <1>2, <2>0, Zenon
  <2> QED
    BY <1>1, <1>2, <2>1, PacketTypes

\* No getter of an address answers zero.
LEMMA PointersAreNotNull ==
    ASSUME NEW kind, NEW type \in Pointers
    PROVE  0 \notin Get(type, kind)
BY DEF Pointers, Get, GetString, GetObject, GetAddress

LEMMA IntegersAreNumbers ==
    ASSUME NEW kind
    PROVE  Get("int", kind) \subseteq Numbers
BY DEF Get, GetInteger

-----------------------------------------------------------------------------
(* The invariant.                                                          *)

GameCalls == [op : {"begin", "write", "send", "use"}, value : Int, width : Int]
Fields == [bytes : {1, 2, 4, 8}, wire : Int]

CallType ==
    /\ DOMAIN call = {"native", "phase", "read", "misread", "null", "got", "todo"}
    /\ call.phase \in {"idle", "read", "act"}
    /\ call.read \in Nat
    /\ call.got \in Seq(Int)
    /\ call.todo \in Seq(GameCalls)

WriterType ==
    /\ writer \in [id : Seq(Int), fields : Seq(Fields)]
    /\ script \subseteq [id : Seq(Int),
                         fields : Seq([bytes : {1, 2, 4, 8}, value : Numbers])]

TypeInv == CallType /\ WriterType

\* What the packet natives have read: as many numbers as arguments, and the
\* first is one that the script passed.
ReadInv ==
    call.phase # "idle" /\ Tracked =>
        /\ Len(call.got) = call.read
        /\ call.read <= Len(Types(call.native))
        /\ call.phase = "act" => call.read = Len(Types(call.native))
        /\ call.native \in {"cqx_packetWriteHeader", "cqx_PacketWriteData"}
              /\ call.read > 0 => call.got[1] \in Numbers

NullInv == ~call.null

LEMMA TypeInitially == Init => TypeInv /\ ReadInv /\ NullInv
BY DEF Init, TypeInv, CallType, WriterType, ReadInv, NullInv, Idle, NoPacket

LEMMA NumbersAreInts == Numbers \subseteq Int
<1>1. PICK h \in Nat : Dword \div 2 = h
    BY DwordIsEven
<1> QED
    BY <1>1, NumbersAssumption

LEMMA ReadPreserves ==
    ASSUME TypeInv, ReadInv, NullInv, NEW kind \in Kinds, NEW given \in BOOLEAN,
           ReadArgument(kind, given)
    PROVE  TypeInv' /\ ReadInv' /\ NullInv'
<1>1. PICK v \in Get(Type, kind) :
          call' = [call EXCEPT !.read = @ + 1,
                     !.misread = Tracked /\ ~given,
                     !.null = @ \/ (Type \in Pointers /\ v = 0),
                     !.got = IF Tracked THEN Append(@, v) ELSE @]
    BY DEF ReadArgument
<1>2. call.phase = "read" /\ call.read < Len(Types(call.native))
    BY DEF ReadArgument, Slot, Reading
<1>3. Tracked => Type = "int" /\ v \in Numbers
  <2>1. Tracked => Types(call.native) \in Seq({"int"})
    BY PacketLengths DEF Tracked
  <2>2. Tracked => Type = "int"
    BY <1>2, <2>1 DEF Type, TypeInv, CallType, WriterType
  <2> QED
    BY <1>1, <2>2, IntegersAreNumbers
<1>4. ~(Type \in Pointers /\ v = 0)
    BY PointersAreNotNull
<1>5. TypeInv'
  <2>1. call.got \in Seq(Int) /\ (Tracked => Append(call.got, v) \in Seq(Int))
    <3>1. call.got \in Seq(Int)
      BY DEF TypeInv, CallType, WriterType
    <3>2. Tracked => v \in Int
      BY <1>3, NumbersAreInts
    <3> QED
      BY <3>1, <3>2
  <2>2. /\ DOMAIN call' = DOMAIN call
        /\ call'.phase = call.phase
        /\ call'.read = call.read + 1
        /\ call'.got = IF Tracked THEN Append(call.got, v) ELSE call.got
        /\ call'.todo = call.todo
    BY <1>1 DEF TypeInv, CallType, WriterType
  <2>3. UNCHANGED <<writer, script>>
    BY DEF ReadArgument
  <2>4. call'.got \in Seq(Int)
    BY <2>1, <2>2
  <2>5. call'.read \in Nat /\ call'.phase \in {"idle", "read", "act"}
    BY <2>2 DEF TypeInv, CallType, WriterType
  <2> QED
    BY <2>2, <2>3, <2>4, <2>5 DEF TypeInv, CallType, WriterType
<1>6. NullInv'
    BY <1>1, <1>4 DEF NullInv, TypeInv, CallType, WriterType
<1>7. ReadInv'
    BY <1>1, <1>2, <1>3, PacketLengths DEF ReadInv, TypeInv, CallType, WriterType, Tracked, PacketNatives
<1> QED
    BY <1>5, <1>6, <1>7

LEMMA DefaultPreserves ==
    ASSUME TypeInv, ReadInv, NullInv, NEW kind \in Kinds, NEW given \in BOOLEAN,
           DefaultArgument(kind, given)
    PROVE  TypeInv' /\ ReadInv' /\ NullInv'
<1> DEFINE v == Optional[call.native]
<1>1. /\ call.phase = "read"
      /\ call.native \in {"cqx_PacketWriteData", "cqx_startDungeon"}
      /\ call.read + 1 = Len(Types(call.native))
      /\ v \in Int
    BY DEF DefaultArgument, Slot, Reading, IsOptional, Optional
<1>2. call' = [call EXCEPT !.read = @ + 1, !.got = Append(@, v)]
    BY DEF DefaultArgument
<1>3. UNCHANGED <<writer, script>>
    BY DEF DefaultArgument
<1> HIDE DEF v
<1>4. /\ DOMAIN call' = DOMAIN call
      /\ call'.native = call.native /\ call'.phase = call.phase
      /\ call'.read = call.read + 1 /\ call'.null = call.null
      /\ call'.got = Append(call.got, v) /\ call'.todo = call.todo
    BY <1>2 DEF TypeInv, CallType, WriterType
<1>5. call'.got \in Seq(Int) /\ call'.read \in Nat
    BY <1>1, <1>4 DEF TypeInv, CallType, WriterType
<1>6. TypeInv' /\ NullInv'
    BY <1>3, <1>4, <1>5 DEF TypeInv, CallType, WriterType, NullInv
<1>7. ReadInv'
  <2>1. Len(call.got) = call.read
    BY <1>1 DEF ReadInv, Tracked, PacketNatives
  <2>2. call.native = "cqx_PacketWriteData" => call.read = 1 /\ call.got[1] \in Numbers
    <3> SUFFICES ASSUME call.native = "cqx_PacketWriteData"
                 PROVE  call.read = 1 /\ call.got[1] \in Numbers
      OBVIOUS
    <3>1. Len(Types(call.native)) = 2
      BY PacketLengths
    <3>2. call.read + 1 = 2
      BY <1>1, <3>1
    <3>3. call.read = 1
      BY <3>2 DEF TypeInv, CallType, WriterType
    <3> QED
      BY <1>1, <3>3 DEF ReadInv, Tracked, PacketNatives
  <2> QED
    BY <1>1, <1>4, <2>1, <2>2 DEF ReadInv, TypeInv, CallType, WriterType, Tracked
<1> QED
    BY <1>6, <1>7

LEMMA IdleKeeps ==
    ASSUME TypeInv, call' = Idle
    PROVE  /\ DOMAIN call' = DOMAIN call
           /\ call'.phase = "idle" /\ call'.read = 0
           /\ call'.got = << >> /\ call'.todo = << >> /\ ~call'.null
           /\ CallType' /\ NullInv' /\ ReadInv'
<1>1. /\ DOMAIN call' = DOMAIN call
      /\ call'.phase = "idle" /\ call'.read = 0
      /\ call'.got = << >> /\ call'.todo = << >> /\ ~call'.null
    BY DEF TypeInv, CallType, Idle
<1>2. CallType'
    BY <1>1 DEF TypeInv, CallType
<1>3. NullInv' /\ ReadInv'
    BY <1>1 DEF NullInv, ReadInv
<1> QED
    BY <1>1, <1>2, <1>3

\* What a native calls has the form of a call, for any numbers.
LEMMA CallsAreCalls ==
    ASSUME NEW n, NEW got \in Seq(Int),
           n = "cqx_packetWriteHeader" => Len(got) = 1,
           n = "cqx_PacketWriteData" => Len(got) = 2,
           n = "cqx_startDungeon" => Len(got) = 3
    PROVE  Calls(n, got) \subseteq Seq(GameCalls)
<1>1. /\ \A i \in Int : Begin(i) \in GameCalls
      /\ \A i, j \in Int : Write(i, j) \in GameCalls
      /\ Send \in GameCalls /\ Use \in GameCalls
    BY DEF GameCalls, Begin, Write, Send, Use
<1>2. CASE n = "cqx_packetWriteHeader"
  <2>1. Calls(n, got) = {<<Begin(got[1])>>}
    BY <1>2 DEF Calls
  <2>2. got[1] \in Int
    BY <1>2
  <2>3. Begin(got[1]) \in GameCalls
    BY <1>1, <2>2
  <2> QED
    BY <2>1, <2>3
<1>3. CASE n = "cqx_PacketWriteData"
  <2>1. Calls(n, got) = {<<Write(got[1], got[2])>>}
    BY <1>3 DEF Calls
  <2>2. got[1] \in Int /\ got[2] \in Int
    BY <1>3
  <2>3. Write(got[1], got[2]) \in GameCalls
    BY <1>1, <2>2
  <2> QED
    BY <2>1, <2>3
<1>4. CASE n = "cqx_startDungeon"
  <2>1. Calls(n, got) = {StartDungeon(got[1], got[2], got[3])}
    BY <1>4 DEF Calls
  <2>2. got[1] \in Int /\ got[2] % Byte \in Int /\ got[3] % Byte \in Int
    <3>1. Len(got) = 3
      BY <1>4
    <3>2. got[1] \in Int
      BY <3>1
    <3>3. got[2] \in Int
      BY <3>1
    <3>4. got[3] \in Int
      <4>1. \A i \in 1 .. Len(got) : got[i] \in Int
        OBVIOUS
      <4> QED
        BY <3>1, <4>1
    <3> QED
      BY <3>2, <3>3, <3>4, ByteAssumption
  <2> QED
    BY <1>1, <2>1, <2>2 DEF StartDungeon
<1>5. CASE n = "cqx_SendPacket"
  <2>1. Calls(n, got) = {<<Send>>}
    BY <1>5 DEF Calls
  <2> QED
    BY <1>1, <2>1
<1>6. CASE n = "cqx_exitDungeon"
  <2>1. Calls(n, got) = {<<Begin(45), Send>>}
    BY <1>6 DEF Calls, ExitDungeon
  <2> QED
    BY <1>1, <2>1
<1>7. CASE n \notin {"cqx_packetWriteHeader", "cqx_PacketWriteData",
                     "cqx_startDungeon", "cqx_SendPacket", "cqx_exitDungeon"}
  <2>1. Calls(n, got) = {<<Use>>} \/ Calls(n, got) = {<<Use>>, <<Use, Use>>}
    BY <1>7 DEF Calls
  <2>2. <<Use>> \in Seq(GameCalls) /\ <<Use, Use>> \in Seq(GameCalls)
    BY <1>1
  <2> QED
    BY <2>1, <2>2
<1> QED
    BY <1>2, <1>3, <1>4, <1>5, <1>6, <1>7

LEMMA FieldsAreFields ==
    ASSUME NEW v \in Int, NEW width \in Int
    PROVE  Field(v, width) \in Fields
<1>1. /\ v % Byte \in Int /\ v % Word \in Int /\ v % Dword \in Int
      /\ (v % Dword) + Dword * ((v \div (Dword \div 2)) % Dword) \in Int
    BY Widths, ByteAssumption, DwordIsEven
<1> QED
    BY <1>1 DEF Field, Fields

LEMMA PerformTypes ==
    ASSUME TypeInv, NEW c \in GameCalls, Perform(c)
    PROVE  writer' \in [id : Seq(Int), fields : Seq(Fields)]
<1>1. CASE c.op = "begin"
    BY <1>1 DEF Perform, GameCalls
<1>2. CASE c.op = "write"
  <2>1. writer' = [writer EXCEPT !.fields = Append(@, Field(c.value, c.width))]
    BY <1>2 DEF Perform
  <2>2. Field(c.value, c.width) \in Fields
    BY FieldsAreFields DEF GameCalls
  <2>3. Append(writer.fields, Field(c.value, c.width)) \in Seq(Fields)
    BY <2>2 DEF TypeInv, CallType, WriterType
  <2> QED
    BY <2>1, <2>3 DEF TypeInv, CallType, WriterType
<1>3. CASE c.op = "send"
    BY <1>3 DEF Perform, NoPacket
<1>4. CASE c.op = "use"
    BY <1>4 DEF Perform, TypeInv, CallType, WriterType
<1> QED
    BY <1>1, <1>2, <1>3, <1>4 DEF GameCalls

\* Accept and the steps of the native until it returns.
LEMMA AcceptPreserves ==
    ASSUME TypeInv, ReadInv, NullInv, Accept
    PROVE  TypeInv' /\ ReadInv' /\ NullInv'
<1>1. PICK todo \in Calls(call.native, call.got) :
          call' = [call EXCEPT !.phase = "act", !.todo = todo]
    BY DEF Accept
<1>2. /\ call.phase = "read" /\ call.read = Len(Types(call.native))
      /\ UNCHANGED <<writer, script>>
    BY DEF Accept
<1>3. Tracked => Len(call.got) = Len(Types(call.native))
    BY <1>2 DEF ReadInv
<1>4. /\ call.native = "cqx_packetWriteHeader" => Len(call.got) = 1
      /\ call.native = "cqx_PacketWriteData" => Len(call.got) = 2
      /\ call.native = "cqx_startDungeon" => Len(call.got) = 3
    BY <1>3, PacketLengths DEF Tracked, PacketNatives
<1>5. todo \in Seq(GameCalls)
    BY <1>4, CallsAreCalls DEF TypeInv, CallType, WriterType
<1>6. /\ DOMAIN call' = DOMAIN call
      /\ call'.native = call.native /\ call'.phase = "act"
      /\ call'.read = call.read /\ call'.null = call.null
      /\ call'.got = call.got /\ call'.todo = todo
    BY <1>1 DEF TypeInv, CallType, WriterType
<1>7. TypeInv' /\ NullInv'
    BY <1>2, <1>5, <1>6 DEF TypeInv, CallType, WriterType, NullInv
<1>8. ReadInv'
    BY <1>2, <1>6 DEF ReadInv, TypeInv, CallType, WriterType, Tracked
<1> QED
    BY <1>7, <1>8

LEMMA CallPreserves ==
    ASSUME TypeInv, ReadInv, NullInv, CallGame
    PROVE  TypeInv' /\ ReadInv' /\ NullInv'
<1>1. /\ call.phase = "act" /\ call.todo # << >>
      /\ Perform(Head(call.todo)) /\ UNCHANGED script
    BY DEF CallGame
<1>2. Head(call.todo) \in GameCalls /\ Tail(call.todo) \in Seq(GameCalls)
    BY <1>1 DEF TypeInv, CallType, WriterType
<1>3. /\ DOMAIN call' = DOMAIN call
      /\ call'.native = call.native /\ call'.phase = call.phase
      /\ call'.read = call.read /\ call'.null = call.null
      /\ call'.got = call.got /\ call'.todo = Tail(call.todo)
    BY DEF CallGame, TypeInv, CallType, WriterType
<1>4. writer' \in [id : Seq(Int), fields : Seq(Fields)]
    BY <1>1, <1>2, PerformTypes
<1>5. TypeInv' /\ NullInv'
    BY <1>1, <1>2, <1>3, <1>4 DEF TypeInv, CallType, WriterType, NullInv
<1>6. ReadInv'
    BY <1>1, <1>3 DEF ReadInv, TypeInv, CallType, WriterType, Tracked
<1> QED
    BY <1>5, <1>6

\* What a script believes is a packet of numbers that it passed.
Packets == [id : Seq(Int), fields : Seq([bytes : {1, 2, 4, 8}, value : Numbers])]

LEMMA BelievedTypes ==
    ASSUME TypeInv, ReadInv, call.phase = "act"
    PROVE  Believed \subseteq Packets
<1>1. NoPacket \in Packets
    BY DEF NoPacket, Packets
<1>2. script \subseteq Packets
    BY DEF TypeInv, CallType, WriterType, Packets
<1>3. CASE call.native = "cqx_packetWriteHeader"
  <2>1. Len(call.got) = 1
    BY <1>3, PacketLengths DEF ReadInv, Tracked, PacketNatives
  <2>2. call.got[1] \in Int
    BY <2>1 DEF TypeInv, CallType, WriterType
  <2>3. [id |-> <<call.got[1]>>, fields |-> << >>] \in Packets
    BY <2>2 DEF Packets
  <2>4. Believed \subseteq {[id |-> <<call.got[1]>>, fields |-> << >>]}
    BY <1>3 DEF Believed
  <2> QED
    BY <2>3, <2>4
<1>4. CASE call.native = "cqx_PacketWriteData"
  <2> DEFINE f == [bytes |-> Bytes(call.got[2]), value |-> call.got[1]]
  <2>0. Tracked /\ Len(Types(call.native)) = 2
    BY <1>4, PacketLengths DEF Tracked, PacketNatives
  <2>1. Len(call.got) = 2 /\ call.read = 2
    BY <2>0 DEF ReadInv
  <2>2. call.got[1] \in Numbers
    BY <1>4, <2>1 DEF ReadInv, Tracked, PacketNatives
  <2>3. Bytes(call.got[2]) \in {1, 2, 4, 8}
    BY DEF Bytes
  <2>4. f \in [bytes : {1, 2, 4, 8}, value : Numbers]
    BY <2>2, <2>3
  <2>5. Believed \subseteq {[p EXCEPT !.fields = Append(@, f)] : p \in script}
    BY <1>4 DEF Believed
  <2> HIDE DEF f
  <2>6. ASSUME NEW p \in Packets
        PROVE  [p EXCEPT !.fields = Append(@, f)] \in Packets
    <3>1. Append(p.fields, f) \in Seq([bytes : {1, 2, 4, 8}, value : Numbers])
      BY <2>4 DEF Packets
    <3> QED
      BY <3>1 DEF Packets
  <2> QED
    BY <1>2, <2>5, <2>6
<1>5. CASE call.native \notin {"cqx_packetWriteHeader", "cqx_PacketWriteData"}
  <2>1. Believed \in {script, {NoPacket}, {}}
    BY <1>5 DEF Believed
  <2> QED
    BY <1>1, <1>2, <2>1
<1> QED
    BY <1>3, <1>4, <1>5

LEMMA OtherPreserves ==
    ASSUME TypeInv, ReadInv, NullInv,
           \/ \E n \in Natives : CallNative(n)
           \/ \E kind \in Kinds, given \in BOOLEAN : Refuse(kind, given)
           \/ Return \/ GameBegins \/ GameSends
           \/ UNCHANGED vars
    PROVE  TypeInv' /\ ReadInv' /\ NullInv'
<1>1. CASE \E n \in Natives : CallNative(n)
  <2>1. PICK n \in Natives : call' = [Idle EXCEPT !.native = n, !.phase = "read"]
    BY <1>1 DEF CallNative
  <2>2. /\ DOMAIN call' =
              {"native", "phase", "read", "misread", "null", "got", "todo"}
        /\ call'.phase = "read" /\ call'.read = 0
        /\ call'.got = << >> /\ call'.todo = << >> /\ ~call'.null /\ call'.native = n
    BY <2>1 DEF Idle
  <2>3. UNCHANGED <<writer, script>>
    BY <1>1 DEF CallNative
  <2>4. CallType' /\ NullInv' /\ WriterType'
    <3>1. CallType' /\ NullInv'
      BY <2>2 DEF CallType, NullInv
    <3> QED
      BY <2>3, <3>1 DEF TypeInv, WriterType
  <2>5. ReadInv'
    BY <2>2, PacketLengths DEF ReadInv, Tracked, PacketNatives
  <2> QED
    BY <2>4, <2>5 DEF TypeInv
<1>2. CASE \E kind \in Kinds, given \in BOOLEAN : Refuse(kind, given)
  <2>1. call' = Idle /\ UNCHANGED <<writer, script>>
    BY <1>2 DEF Refuse
  <2>2. CallType' /\ NullInv' /\ ReadInv'
    BY <2>1, IdleKeeps
  <2> QED
    BY <2>1, <2>2 DEF TypeInv, WriterType
<1>3. CASE Return
  <2>1. call.phase = "act" /\ call' = Idle /\ script' = Believed /\ writer' = writer
    BY <1>3 DEF Return
  <2>2. CallType' /\ NullInv' /\ ReadInv'
    BY <2>1, IdleKeeps
  <2>3. WriterType'
    BY <2>1, BelievedTypes DEF TypeInv, WriterType, Packets
  <2> QED
    BY <2>2, <2>3 DEF TypeInv
<1>4. CASE GameBegins \/ GameSends
  <2>1. GamePacket \in [id : Seq(Int), fields : Seq(Fields)]
    BY DEF GamePacket
  <2>2. NoPacket \in [id : Seq(Int), fields : Seq(Fields)]
    BY DEF NoPacket
  <2>3. writer' \in {GamePacket, NoPacket} /\ call' = call /\ script' = {}
    BY <1>4 DEF GameBegins, GameSends
  <2> QED
    BY <2>1, <2>2, <2>3 DEF TypeInv, CallType, WriterType, ReadInv, NullInv, Tracked
<1>5. CASE UNCHANGED vars
    BY <1>5 DEF vars, TypeInv, CallType, WriterType, ReadInv, NullInv, Tracked
<1> QED
    BY <1>1, <1>2, <1>3, <1>4, <1>5

THEOREM CallsInvariance == Spec => [](TypeInv /\ ReadInv /\ NullInv)
<1>1. TypeInv /\ ReadInv /\ NullInv /\ [Next]_vars => (TypeInv /\ ReadInv /\ NullInv)'
    BY ReadPreserves, DefaultPreserves, AcceptPreserves, CallPreserves,
    OtherPreserves DEF Next
<1> QED
    BY <1>1, TypeInitially, PTL DEF Spec

\* No address that reaches the game is null, whatever a script passes.
THEOREM NullStaysOut == Spec => []NullNeverHanded
<1>1. NullInv => NullNeverHanded
    BY DEF NullInv, NullNeverHanded
<1> QED
    BY <1>1, CallsInvariance, PTL

-----------------------------------------------------------------------------
(* The packet of the script.                                               *)

\* The writer holds packet p.
Matches(p) ==
    /\ writer.id = p.id
    /\ Len(writer.fields) = Len(p.fields)
    /\ \A i \in DOMAIN p.fields :
          /\ writer.fields[i].bytes = p.fields[i].bytes
          /\ Arrives(writer.fields[i], p.fields[i].value)

AllMatch == \A p \in script : Matches(p)

\* Between two natives the writer holds what the script believes; inside one it
\* holds this before the native's call, and after it what the script will
\* believe next.
ScriptInv ==
    /\ call.phase # "act" => AllMatch
    /\ call.phase = "act" /\ ~Tracked =>
          AllMatch /\ \A i \in 1 .. Len(call.todo) : call.todo[i] = Use
    /\ call.phase = "act" /\ call.todo # << >> =>
          /\ call.native = "cqx_PacketWriteData" =>
                AllMatch /\ call.todo = <<Write(call.got[1], call.got[2])>>
          /\ call.native = "cqx_packetWriteHeader" => call.todo = <<Begin(call.got[1])>>
          /\ call.native = "cqx_SendPacket" => call.todo = <<Send>>
    /\ call.phase = "act" /\ call.todo = << >> => \A p \in Believed : Matches(p)

\* Adding a field to the packet and to the script's idea of it.
LEMMA WriteMatches ==
    ASSUME TypeInv, NEW p \in Packets, Matches(p),
           NEW v \in Numbers, NEW width \in Int,
           writer' = [writer EXCEPT !.fields = Append(@, Field(v, width))],
           NEW q, q = [p EXCEPT !.fields =
                          Append(@, [bytes |-> Bytes(width), value |-> v])]
    PROVE  Matches(q)'
<1> DEFINE f == Field(v, width)
           b == [bytes |-> Bytes(width), value |-> v]
<1>1. f.bytes = b.bytes /\ Arrives(f, b.value)
    BY FieldArrives, NumbersAssumption
<1> HIDE DEF f, b
<1>2. /\ writer'.id = writer.id /\ writer'.fields = Append(writer.fields, f)
      /\ writer.fields \in Seq(Fields)
    BY DEF TypeInv, WriterType, f
<1>3. /\ q.id = p.id /\ q.fields = Append(p.fields, b)
      /\ p.fields \in Seq([bytes : {1, 2, 4, 8}, value : Numbers])
    BY DEF Packets, b
<1>4. /\ writer.id = p.id /\ Len(writer.fields) = Len(p.fields)
      /\ \A i \in 1 .. Len(p.fields) :
            /\ writer.fields[i].bytes = p.fields[i].bytes
            /\ Arrives(writer.fields[i], p.fields[i].value)
    BY <1>3 DEF Matches
<1>5. ASSUME NEW i \in 1 .. Len(p.fields) + 1
      PROVE  /\ writer'.fields[i].bytes = q.fields[i].bytes
             /\ Arrives(writer'.fields[i], q.fields[i].value)
  <2>1. CASE i <= Len(p.fields)
    <3>1. writer'.fields[i] = writer.fields[i] /\ q.fields[i] = p.fields[i]
      BY <1>2, <1>3, <1>4, <2>1
    <3> QED
      BY <1>4, <2>1, <3>1
  <2>2. CASE i = Len(p.fields) + 1
    <3>1. writer'.fields[i] = f /\ q.fields[i] = b
      BY <1>2, <1>3, <1>4, <2>2
    <3> QED
      BY <1>1, <3>1
  <2>3. Len(p.fields) \in Nat
    BY <1>3
  <2>4. i <= Len(p.fields) \/ i = Len(p.fields) + 1
    BY <2>3
  <2> QED
    BY <2>1, <2>2, <2>4
<1>6. DOMAIN q.fields = 1 .. Len(p.fields) + 1 /\ Len(q.fields) = Len(p.fields) + 1
    BY <1>3
<1>7. Len(writer'.fields) = Len(p.fields) + 1
    BY <1>2, <1>4
<1> QED
    BY <1>2, <1>3, <1>4, <1>5, <1>6, <1>7 DEF Matches

LEMMA ScriptInitially == Init => ScriptInv
BY DEF Init, ScriptInv, AllMatch, Matches, NoPacket, Idle

LEMMA ReadingKeepsScript ==
    ASSUME TypeInv, ScriptInv, NEW kind \in Kinds, NEW given \in BOOLEAN,
           \/ ReadArgument(kind, given)
           \/ DefaultArgument(kind, given)
           \/ Refuse(kind, given)
    PROVE  ScriptInv'
<1>1. call.phase = "read" /\ UNCHANGED <<writer, script>>
    BY DEF ReadArgument, DefaultArgument, Refuse, Slot, Reading
<1>2. call'.phase \in {"read", "idle"}
  <2>1. CASE ReadArgument(kind, given)
    BY <1>1, <2>1 DEF ReadArgument, TypeInv, CallType
  <2>2. CASE DefaultArgument(kind, given)
    BY <1>1, <2>2 DEF DefaultArgument, TypeInv, CallType
  <2>3. CASE Refuse(kind, given)
    BY <2>3 DEF Refuse, Idle
  <2> QED
    BY <2>1, <2>2, <2>3
<1>3. AllMatch'
    BY <1>1 DEF ScriptInv, AllMatch, Matches
<1> QED
    BY <1>2, <1>3 DEF ScriptInv

LEMMA AcceptKeepsScript ==
    ASSUME TypeInv, ScriptInv, Accept
    PROVE  ScriptInv'
<1>1. PICK todo \in Calls(call.native, call.got) :
          call' = [call EXCEPT !.phase = "act", !.todo = todo]
    BY DEF Accept
<1>2. call.phase = "read" /\ UNCHANGED <<writer, script>>
    BY DEF Accept
<1>3. /\ call'.native = call.native /\ call'.phase = "act"
      /\ call'.got = call.got /\ call'.todo = todo
    BY <1>1 DEF TypeInv, CallType
<1>4. AllMatch'
    BY <1>2 DEF ScriptInv, AllMatch, Matches
<1>5. CASE call.native = "cqx_PacketWriteData"
  <2>1. todo = <<Write(call.got[1], call.got[2])>>
    BY <1>1, <1>5 DEF Calls
  <2> QED
    BY <1>3, <1>4, <1>5, <2>1 DEF ScriptInv, Tracked, PacketNatives
<1>6. CASE call.native = "cqx_packetWriteHeader"
  <2>1. todo = <<Begin(call.got[1])>>
    BY <1>1, <1>6 DEF Calls
  <2> QED
    BY <1>3, <1>4, <1>6, <2>1 DEF ScriptInv, Tracked, PacketNatives
<1>7. CASE call.native = "cqx_SendPacket"
  <2>1. todo = <<Send>>
    BY <1>1, <1>7 DEF Calls
  <2> QED
    BY <1>3, <1>4, <1>7, <2>1 DEF ScriptInv, Tracked, PacketNatives
<1>8. CASE call.native \in {"cqx_exitDungeon", "cqx_startDungeon"}
  <2>1. CASE call.native = "cqx_exitDungeon"
    <3>1. todo = ExitDungeon
      BY <1>1, <2>1 DEF Calls
    <3> QED
      BY <1>3, <1>4, <2>1, <3>1 DEF ExitDungeon, ScriptInv, Tracked, PacketNatives
  <2>2. CASE call.native = "cqx_startDungeon"
    <3>1. todo = StartDungeon(call.got[1], call.got[2], call.got[3])
      BY <1>1, <2>2 DEF Calls
    <3> QED
      BY <1>3, <1>4, <2>2, <3>1 DEF StartDungeon, ScriptInv, Tracked, PacketNatives
  <2> QED
    BY <1>8, <2>1, <2>2
<1>9. CASE ~Tracked
  <2>1. todo = <<Use>> \/ todo = <<Use, Use>>
    BY <1>1, <1>9 DEF Calls, Tracked, PacketNatives
  <2>2. todo # << >> /\ \A i \in 1 .. Len(todo) : todo[i] = Use
    BY <2>1
  <2>3. call.native \notin {"cqx_PacketWriteData", "cqx_packetWriteHeader",
                            "cqx_SendPacket"}
    BY <1>9 DEF Tracked, PacketNatives
  <2> QED
    BY <1>3, <1>4, <2>2, <2>3 DEF ScriptInv
<1> QED
    BY <1>5, <1>6, <1>7, <1>8, <1>9 DEF Tracked, PacketNatives

LEMMA CallKeepsScript ==
    ASSUME TypeInv, ReadInv, ScriptInv, CallGame
    PROVE  ScriptInv'
<1>1. /\ call.phase = "act" /\ call.todo # << >>
      /\ Perform(Head(call.todo)) /\ script' = script
    BY DEF CallGame
<1>2. /\ call'.native = call.native /\ call'.phase = call.phase
      /\ call'.got = call.got /\ call'.todo = Tail(call.todo)
      /\ call'.misread = call.misread
    BY DEF CallGame, TypeInv, CallType
<1>3. CASE ~Tracked
  <2>1. call.todo \in Seq(GameCalls) /\ \A i \in 1 .. Len(call.todo) : call.todo[i] = Use
    BY <1>1, <1>3 DEF ScriptInv, TypeInv, CallType
  <2>2. Head(call.todo) = Use
    BY <1>1, <2>1
  <2>3. writer' = writer
    BY <1>1, <2>2 DEF Perform, Use
  <2>4. \A i \in 1 .. Len(call'.todo) : call'.todo[i] = Use
    BY <1>1, <1>2, <2>1
  <2>5. AllMatch'
    BY <1>1, <1>3, <2>3 DEF ScriptInv, AllMatch, Matches
  <2>6. call.native \notin {"cqx_PacketWriteData", "cqx_packetWriteHeader",
                            "cqx_SendPacket", "cqx_exitDungeon", "cqx_startDungeon"}
    BY <1>3 DEF Tracked, PacketNatives
  <2>7. ~Tracked' /\ Believed' \subseteq script'
    BY <1>2, <1>3, <2>6 DEF Tracked, Believed
  <2> QED
    BY <1>1, <1>2, <2>4, <2>5, <2>6, <2>7 DEF ScriptInv, AllMatch
<1>4. CASE call.native = "cqx_PacketWriteData"
  <2>1. AllMatch /\ call.todo = <<Write(call.got[1], call.got[2])>>
    BY <1>1, <1>4 DEF ScriptInv
  <2>2. Head(call.todo) = Write(call.got[1], call.got[2]) /\ Tail(call.todo) = << >>
    BY <2>1
  <2>3. writer' = [writer EXCEPT !.fields =
                      Append(@, Field(call.got[1], call.got[2]))]
    BY <1>1, <2>2 DEF Perform, Write
  <2>4. Tracked /\ Len(Types(call.native)) = 2
    BY <1>4, PacketLengths DEF Tracked, PacketNatives
  <2>5. Len(call.got) = 2 /\ call.read = 2
    BY <1>1, <2>4 DEF ReadInv
  <2>6. call.got[1] \in Numbers
    BY <1>1, <1>4, <2>4, <2>5 DEF ReadInv
  <2>7. call.got[2] \in Int
    BY <2>5 DEF TypeInv, CallType
  <2>8. ASSUME NEW q \in Believed'
        PROVE  Matches(q)'
    <3>1. PICK p \in script :
              q = [p EXCEPT !.fields = Append(@, [bytes |-> Bytes(call.got[2]),
                                                  value |-> call.got[1]])]
      BY <1>1, <1>2, <1>4, <2>8 DEF Believed
    <3>2. p \in Packets /\ Matches(p)
      BY <2>1 DEF AllMatch, TypeInv, WriterType, Packets
    <3> QED
      BY <2>3, <2>6, <2>7, <3>1, <3>2, WriteMatches
  <2> QED
    BY <1>1, <1>2, <1>4, <2>2, <2>8 DEF ScriptInv, Tracked, PacketNatives
<1>5. CASE call.native = "cqx_packetWriteHeader"
  <2>1. call.todo = <<Begin(call.got[1])>>
    BY <1>1, <1>5 DEF ScriptInv
  <2>2. Head(call.todo) = Begin(call.got[1]) /\ Tail(call.todo) = << >>
    BY <2>1
  <2>3. writer' = [id |-> <<call.got[1]>>, fields |-> << >>]
    BY <1>1, <2>2 DEF Perform, Begin
  <2>4. Believed' \subseteq {writer'}
    BY <1>2, <1>5, <2>3 DEF Believed
  <2>5. \A p \in Believed' : Matches(p)'
    BY <2>3, <2>4 DEF Matches
  <2> QED
    BY <1>1, <1>2, <1>5, <2>2, <2>5 DEF ScriptInv, Tracked, PacketNatives
<1>6. CASE call.native = "cqx_SendPacket"
  <2>1. call.todo = <<Send>>
    BY <1>1, <1>6 DEF ScriptInv
  <2>2. Head(call.todo) = Send /\ Tail(call.todo) = << >>
    BY <2>1
  <2>3. writer' = NoPacket
    BY <1>1, <2>2 DEF Perform, Send
  <2>4. Believed' \subseteq {NoPacket}
    BY <1>2, <1>6 DEF Believed
  <2>5. \A p \in Believed' : Matches(p)'
    BY <2>3, <2>4 DEF Matches, NoPacket
  <2> QED
    BY <1>1, <1>2, <1>6, <2>2, <2>5 DEF ScriptInv, Tracked, PacketNatives
<1>7. CASE call.native \in {"cqx_exitDungeon", "cqx_startDungeon"}
  <2>1. Believed' = {}
    BY <1>2, <1>7 DEF Believed
  <2> QED
    BY <1>1, <1>2, <1>7, <2>1 DEF ScriptInv, Tracked, PacketNatives
<1> QED
    BY <1>3, <1>4, <1>5, <1>6, <1>7 DEF Tracked, PacketNatives

LEMMA OtherKeepsScript ==
    ASSUME TypeInv, ScriptInv,
           \/ \E n \in Natives : CallNative(n)
           \/ Return \/ GameBegins \/ GameSends
           \/ UNCHANGED vars
    PROVE  ScriptInv'
<1>1. CASE \E n \in Natives : CallNative(n)
  <2>1. /\ call = Idle /\ call'.phase = "read" /\ UNCHANGED <<writer, script>>
    BY <1>1 DEF CallNative, Idle
  <2>2. AllMatch'
    BY <2>1 DEF ScriptInv, AllMatch, Matches, Idle
  <2> QED
    BY <2>1, <2>2 DEF ScriptInv
<1>2. CASE Return
  <2>1. /\ call.phase = "act" /\ call.todo = << >> /\ call'.phase = "idle"
        /\ script' = Believed /\ writer' = writer
    BY <1>2 DEF Return, Idle
  <2>2. AllMatch'
    BY <2>1 DEF ScriptInv, AllMatch, Matches
  <2> QED
    BY <2>1, <2>2 DEF ScriptInv
<1>3. CASE GameBegins \/ GameSends
    BY <1>3 DEF GameBegins, GameSends, ScriptInv, AllMatch, Idle
<1>4. CASE UNCHANGED vars
    BY <1>4 DEF vars, ScriptInv, AllMatch, Matches, Tracked, Believed
<1> QED
    BY <1>1, <1>2, <1>3, <1>4

\* Between two natives the packet in the writer is the one the answers have told
\* the script of, however many natives made it and whatever else was called.
THEOREM ScriptPacketsAreWhole == Spec => []ScriptPacketWhole
<1>1. TypeInv /\ ReadInv /\ ScriptInv /\ [Next]_vars => ScriptInv'
    BY ReadingKeepsScript, AcceptKeepsScript, CallKeepsScript, OtherKeepsScript
    DEF Next
<1>2. ScriptInv => ScriptPacketWhole
    BY DEF ScriptInv, ScriptPacketWhole, AllMatch, Matches, Idle
<1> QED
    BY <1>1, <1>2, ScriptInitially, CallsInvariance, PTL DEF Spec

-----------------------------------------------------------------------------
(* The packets of the dungeon natives.                                     *)

TodoInv == call.phase # "act" => call.todo = << >>

ExitInv ==
    call.phase = "act" /\ call.native = "cqx_exitDungeon" =>
        \/ call.todo = ExitDungeon
        \/ call.todo = <<Send>> /\ writer = [id |-> <<45>>, fields |-> << >>]
        \/ call.todo = << >>

\* The calls of cqx_startDungeon, and the fields of its second packet.
Starting == StartDungeon(call.got[1], call.got[2], call.got[3])
StartField(i) == Field(Starting[3 + i].value, Starting[3 + i].width)

\* How much of the packet is in the writer when so many calls are left.
StartInv ==
    call.phase = "act" /\ call.native = "cqx_startDungeon" =>
        LET left == Len(call.todo)
        IN  /\ left <= 9
            /\ \A i \in 1 .. left : call.todo[i] = Starting[9 - left + i]
            /\ left = 8 => writer = [id |-> <<15>>, fields |-> << >>]
            /\ left \in 1 .. 6 =>
                  /\ writer.id = <<16>>
                  /\ Len(writer.fields) = 6 - left
                  /\ \A i \in 1 .. 6 - left : writer.fields[i] = StartField(i)

\* The calls, one by one.
LEMMA StartingCalls ==
    /\ Len(Starting) = 9
    /\ Starting[1] = Begin(15) /\ Starting[2] = Send /\ Starting[3] = Begin(16)
    /\ Starting[4] = Write(call.got[1], 2)
    /\ Starting[5] = Write(call.got[2] % Byte, 1)
    /\ Starting[6] = Write(call.got[3] % Byte, 1)
    /\ Starting[7] = Write(0, 1) /\ Starting[8] = Write(0, 1) /\ Starting[9] = Send
    /\ Starting \in [1 .. 9 -> {Starting[i] : i \in 1 .. 9}]
BY DEF Starting, StartDungeon

LEMMA StartCall ==
    ASSUME TypeInv, StartInv, CallGame, call.native = "cqx_startDungeon"
    PROVE  StartInv'
<1> DEFINE left == Len(call.todo)
           c == Head(call.todo)
<1>1. /\ call.phase = "act" /\ call.todo # << >> /\ Perform(c)
      /\ call.todo \in Seq(GameCalls)
    BY DEF CallGame, TypeInv, CallType
<1>2. /\ call'.native = call.native /\ call'.phase = call.phase
      /\ call'.got = call.got /\ call'.todo = Tail(call.todo)
    BY DEF CallGame, TypeInv, CallType
<1>3. left \in 1 .. 9 /\ Len(call'.todo) = left - 1
  <2>1. left \in Nat /\ left # 0 /\ Len(Tail(call.todo)) = left - 1
    BY <1>1
  <2>2. left <= 9
    BY <1>1 DEF StartInv
  <2>3. Len(call'.todo) = left - 1
    BY <1>2, <2>1, Zenon
  <2> HIDE DEF left
  <2>4. left \in 1 .. 9
    BY <2>1, <2>2
  <2> QED
    BY <2>3, <2>4
<1>4. Starting' = Starting
    BY <1>2 DEF Starting
<1>5. \A i \in 1 .. left - 1 : call'.todo[i] = Starting[9 - (left - 1) + i]
  <2>1. \A i \in 1 .. left - 1 : call'.todo[i] = call.todo[i + 1]
    BY <1>1, <1>2
  <2>2. \A i \in 1 .. left : call.todo[i] = Starting[9 - left + i]
    BY <1>1 DEF StartInv
  <2>3. \A i \in 1 .. left - 1 : i + 1 \in 1 .. left
                                  /\ 9 - left + (i + 1) = 9 - (left - 1) + i
    BY <1>3
  <2> QED
    BY <2>1, <2>2, <2>3
<1>6. c = Starting[10 - left]
  <2>1. c = call.todo[1]
    BY <1>1
  <2>2. 1 \in 1 .. left /\ 9 - left + 1 = 10 - left
    BY <1>3
  <2> QED
    BY <1>1, <2>1, <2>2 DEF StartInv
<1> HIDE DEF left, c
<1>7. left - 1 = 8 => writer' = [id |-> <<15>>, fields |-> << >>]
    BY <1>1, <1>3, <1>6, StartingCalls DEF Perform, Begin
<1>8. left - 1 \in 1 .. 6 =>
          /\ writer'.id = <<16>>
          /\ Len(writer'.fields) = 6 - (left - 1)
          /\ \A i \in 1 .. 6 - (left - 1) : writer'.fields[i] = StartField(i)
  <2>1. CASE left = 7
    <3>1. writer' = [id |-> <<16>>, fields |-> << >>]
      BY <1>1, <1>6, <2>1, StartingCalls DEF Perform, Begin
    <3> QED
      BY <2>1, <3>1
  <2>2. CASE left \in 2 .. 6
    <3>1. c.op = "write" /\ Field(c.value, c.width) = StartField(7 - left)
      <4>1. 10 - left \in 4 .. 8 /\ 3 + (7 - left) = 10 - left
        BY <2>2
      <4>2. \A i \in 4 .. 8 : Starting[i].op = "write"
        BY StartingCalls DEF Write
      <4> QED
        BY <1>6, <4>1, <4>2 DEF StartField
    <3>2. writer' = [writer EXCEPT !.fields = Append(@, StartField(7 - left))]
      BY <1>1, <3>1 DEF Perform
    <3>3. /\ writer.fields \in Seq(Fields) /\ writer.id = <<16>>
          /\ Len(writer.fields) = 6 - left
          /\ \A i \in 1 .. 6 - left : writer.fields[i] = StartField(i)
      BY <1>1, <2>2 DEF StartInv, TypeInv, WriterType, left
    <3>4. /\ writer'.id = <<16>>
          /\ writer'.fields = Append(writer.fields, StartField(7 - left))
      BY <3>2, <3>3 DEF TypeInv, WriterType
    <3>5. /\ Len(writer'.fields) = 7 - left
          /\ \A i \in 1 .. 6 - left : writer'.fields[i] = writer.fields[i]
          /\ writer'.fields[7 - left] = StartField(7 - left)
      BY <2>2, <3>3, <3>4
    <3>6. \A i \in 1 .. 7 - left : i \in 1 .. 6 - left \/ i = 7 - left
      BY <2>2
    <3>7. 6 - (left - 1) = 7 - left
      BY <2>2
    <3> QED
      BY <3>3, <3>4, <3>5, <3>6, <3>7
  <2>3. left - 1 \in 1 .. 6 => left = 7 \/ left \in 2 .. 6
    BY <1>3
  <2> QED
    BY <2>1, <2>2, <2>3
<1>9. \A i : StartField(i)' = StartField(i)
    BY <1>4 DEF StartField
<1>10. left - 1 <= 9
    BY <1>3
<1>11. LET l == Len(call'.todo)
       IN  /\ l <= 9
           /\ \A i \in 1 .. l : call'.todo[i] = Starting'[9 - l + i]
           /\ l = 8 => writer' = [id |-> <<15>>, fields |-> << >>]
           /\ l \in 1 .. 6 =>
                 /\ writer'.id = <<16>>
                 /\ Len(writer'.fields) = 6 - l
                 /\ \A i \in 1 .. 6 - l : writer'.fields[i] = StartField(i)'
    BY <1>3, <1>4, <1>5, <1>7, <1>8, <1>9, <1>10, Zenon
<1> QED
    BY <1>11 DEF StartInv

LEMMA ExitCall ==
    ASSUME ExitInv, CallGame, TypeInv, call.native = "cqx_exitDungeon"
    PROVE  ExitInv'
<1>1. /\ call.phase = "act" /\ call.todo # << >> /\ Perform(Head(call.todo))
      /\ call'.todo = Tail(call.todo)
    BY DEF CallGame, TypeInv, CallType
<1>2. CASE call.todo = ExitDungeon
  <2>1. Head(call.todo) = Begin(45) /\ Tail(call.todo) = <<Send>>
    BY <1>2 DEF ExitDungeon
  <2>2. writer' = [id |-> <<45>>, fields |-> << >>]
    BY <1>1, <2>1 DEF Perform, Begin
  <2> QED
    BY <1>1, <2>1, <2>2 DEF ExitInv
<1>3. CASE call.todo = <<Send>>
    BY <1>1, <1>3 DEF ExitInv
<1> QED
    BY <1>1, <1>2, <1>3 DEF ExitInv

LEMMA AcceptDungeon ==
    ASSUME TypeInv, TodoInv, Accept
    PROVE  TodoInv' /\ ExitInv' /\ StartInv'
<1>1. PICK todo \in Calls(call.native, call.got) :
          call' = [call EXCEPT !.phase = "act", !.todo = todo]
    BY DEF Accept
<1>2. /\ call'.native = call.native /\ call'.phase = "act"
      /\ call'.got = call.got /\ call'.todo = todo
    BY <1>1 DEF TypeInv, CallType
<1>3. ExitInv'
  <2>1. call.native = "cqx_exitDungeon" => todo = ExitDungeon
    BY <1>1 DEF Calls
  <2> QED
    BY <1>2, <2>1 DEF ExitInv
<1>4. StartInv'
  <2>1. call.native = "cqx_startDungeon" => todo = Starting
    BY <1>1 DEF Calls, Starting
  <2>2. Starting' = Starting
    BY <1>2 DEF Starting
  <2>3. Len(Starting) = 9 /\ \A i \in 1 .. 9 : 9 - 9 + i = i
    BY StartingCalls
  <2>4. ASSUME call.native = "cqx_startDungeon"
        PROVE  /\ call'.todo = Starting' /\ Len(call'.todo) = 9
               /\ \A i \in 1 .. 9 : call'.todo[i] = Starting'[9 - 9 + i]
    BY <1>2, <2>1, <2>2, <2>3, <2>4, Zenon
  <2>5. 9 <= 9 /\ 9 # 8 /\ 9 \notin 1 .. 6
    OBVIOUS
  <2> QED
    BY <1>2, <2>4, <2>5, Zenon DEF StartInv
<1> QED
    BY <1>2, <1>3, <1>4 DEF TodoInv

LEMMA OtherDungeon ==
    ASSUME TypeInv, TodoInv, ExitInv, StartInv,
           \/ \E n \in Natives : CallNative(n)
           \/ \E kind \in Kinds, given \in BOOLEAN :
                 \/ ReadArgument(kind, given)
                 \/ DefaultArgument(kind, given)
                 \/ Refuse(kind, given)
           \/ Return \/ GameBegins \/ GameSends
           \/ UNCHANGED vars
    PROVE  TodoInv' /\ ExitInv' /\ StartInv'
<1>1. CASE UNCHANGED vars
    BY <1>1 DEF vars, TodoInv, ExitInv, StartInv, StartField, Starting
<1>2. CASE ~UNCHANGED vars
  <2>1. call'.phase # "act" /\ call'.todo = << >>
    <3>1. CASE \E n \in Natives : CallNative(n)
      BY <3>1 DEF CallNative, Idle
    <3>2. CASE Return \/ GameBegins \/ GameSends
      BY <3>2 DEF Return, GameBegins, GameSends, Idle
    <3>3. CASE \E kind \in Kinds, given \in BOOLEAN : ReadArgument(kind, given)
      BY <3>3 DEF ReadArgument, Slot, Reading, TypeInv, CallType, TodoInv
    <3>4. CASE \E kind \in Kinds, given \in BOOLEAN : DefaultArgument(kind, given)
      BY <3>4 DEF DefaultArgument, Slot, Reading, TypeInv, CallType, TodoInv
    <3>5. CASE \E kind \in Kinds, given \in BOOLEAN : Refuse(kind, given)
      BY <3>5 DEF Refuse, Idle
    <3> QED
      BY <1>2, <3>1, <3>2, <3>3, <3>4, <3>5
  <2> QED
    BY <2>1 DEF TodoInv, ExitInv, StartInv
<1> QED
    BY <1>1, <1>2

LEMMA CallDungeon ==
    ASSUME TypeInv, TodoInv, ExitInv, StartInv, CallGame
    PROVE  TodoInv' /\ ExitInv' /\ StartInv'
<1>1. /\ call.phase = "act" /\ call'.phase = "act" /\ call'.native = call.native
    BY DEF CallGame, TypeInv, CallType
<1>2. ExitInv'
    BY <1>1, ExitCall DEF ExitInv
<1>3. StartInv'
    BY <1>1, StartCall DEF StartInv
<1> QED
    BY <1>1, <1>2, <1>3 DEF TodoInv

\* A field as the second packet has it carries the number the script gave.
LEMMA NarrowFields ==
    ASSUME NEW v \in Int
    PROVE  /\ Field(v, 2).bytes = 2 /\ Arrives(Field(v, 2), v)
           /\ Field(v % Byte, 1).bytes = 1 /\ Arrives(Field(v % Byte, 1), v)
<1>1. (v % Byte) % Byte = v % Byte
    BY ByteAssumption, Remainders
<1> QED
    BY <1>1 DEF Field, Arrives, Full

LEMMA StartedIsWhole ==
    ASSUME TypeInv, ReadInv, StartInv, call.phase = "act",
           call.native = "cqx_startDungeon",
           call.todo # << >>, Head(call.todo) = Send
    PROVE  IF Len(call.todo) > 1 THEN writer = [id |-> <<15>>, fields |-> << >>]
           ELSE LET sent == <<call.got[1], call.got[2], call.got[3], 0, 0>>
                IN  /\ writer.id = <<16>>
                    /\ Len(writer.fields) = 5
                    /\ \A i \in 1..5 :
                          /\ writer.fields[i].bytes = (IF i = 1 THEN 2 ELSE 1)
                          /\ Arrives(writer.fields[i], sent[i])
<1> DEFINE left == Len(call.todo)
<1>1. left \in 1 .. 9
  <2>1. left \in Nat /\ left # 0 /\ left <= 9
    BY DEF StartInv, TypeInv, CallType
  <2> HIDE DEF left
  <2> QED
    BY <2>1
<1>2. Starting[10 - left] = Send
  <2>1. Head(call.todo) = call.todo[1]
    BY DEF TypeInv, CallType
  <2>2. call.todo[1] = Starting[9 - left + 1]
    <3>1. 1 \in 1 .. left
      <4> HIDE DEF left
      <4> QED
        BY <1>1
    <3>2. \A i \in 1 .. left : call.todo[i] = Starting[9 - left + i]
      BY DEF StartInv
    <3> QED
      BY <3>1, <3>2
  <2>3. 9 - left + 1 = 10 - left
    BY <1>1
  <2> QED
    BY <2>1, <2>2, <2>3
<1>3. left = 8 \/ left = 1
  <2> HIDE DEF left
  <2>1. left \in 2 .. 7 => 10 - left \in 3 .. 8
    OBVIOUS
  <2>2. \A i \in {1, 3, 4, 5, 6, 7, 8} : Starting[i].op # "send"
    BY StartingCalls DEF Begin, Write
  <2>3. left = 9 => 10 - left = 1
    OBVIOUS
  <2> QED
    BY <1>1, <1>2, <2>1, <2>2, <2>3 DEF Send
<1>4. CASE left = 8
    BY <1>4 DEF StartInv
<1>5. CASE left = 1
  <2>1. /\ writer.id = <<16>> /\ Len(writer.fields) = 5
        /\ \A i \in 1 .. 5 : writer.fields[i] = StartField(i)
    BY <1>5 DEF StartInv
  <2>2. Tracked /\ Len(Types(call.native)) = 3
    BY PacketLengths DEF Tracked, PacketNatives
  <2>3. Len(call.got) = 3
    BY <2>2 DEF ReadInv
  <2>4. call.got[1] \in Int /\ call.got[2] \in Int /\ call.got[3] \in Int
    <3>1. \A i \in 1 .. Len(call.got) : call.got[i] \in Int
      BY DEF TypeInv, CallType
    <3> QED
      BY <2>3, <3>1
  <2>5. /\ StartField(1) = Field(call.got[1], 2)
        /\ StartField(2) = Field(call.got[2] % Byte, 1)
        /\ StartField(3) = Field(call.got[3] % Byte, 1)
        /\ StartField(4) = Field(0, 1) /\ StartField(5) = Field(0, 1)
    BY StartingCalls DEF StartField, Write
  <2>6. 0 % Byte = 0
    BY ByteAssumption, Remainders
  <2>7. Field(0, 1).bytes = 1 /\ Arrives(Field(0, 1), 0)
    BY <2>6, NarrowFields
  <2> QED
    BY <1>5, <2>1, <2>4, <2>5, <2>7, NarrowFields
<1> QED
    BY <1>1, <1>3, <1>4, <1>5

\* The packets of the dungeon natives start anew and have all of their fields,
\* whatever the script or the game had begun.
THEOREM DungeonPacketsAreWhole == Spec => []DungeonPacketsWhole
<1>1. Init => TodoInv /\ ExitInv /\ StartInv
    BY DEF Init, Idle, TodoInv, ExitInv, StartInv
<1>2. TypeInv /\ TodoInv /\ ExitInv /\ StartInv /\ [Next]_vars
          => (TodoInv /\ ExitInv /\ StartInv)'
    BY AcceptDungeon, OtherDungeon, CallDungeon DEF Next
<1>3. TypeInv /\ ReadInv /\ TodoInv /\ ExitInv /\ StartInv => DungeonPacketsWhole
  <2> SUFFICES ASSUME TypeInv, ReadInv, TodoInv, ExitInv, StartInv,
                      call.todo # << >>, Head(call.todo) = Send
               PROVE  DungeonPacketsWhole
    BY DEF DungeonPacketsWhole
  <2>1. call.phase = "act"
    BY DEF TodoInv
  <2>2. call.native = "cqx_exitDungeon" => writer = [id |-> <<45>>, fields |-> << >>]
    BY <2>1 DEF ExitInv, ExitDungeon, Begin, Send
  <2> QED
    BY <2>1, <2>2, StartedIsWhole DEF DungeonPacketsWhole
<1> QED
    BY <1>1, <1>2, <1>3, CallsInvariance, PTL DEF Spec
=============================================================================
