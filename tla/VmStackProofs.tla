--------------------------- MODULE VmStackProofs ---------------------------
(***************************************************************************)
(* For any names and arguments, any nesting and any number of steps of the *)
(* game's thread inside the worker's operations: what VmStack says of the  *)
(* natives and of the operations that no such step has straddled.          *)
(***************************************************************************)
EXTENDS VmStack, SequenceTheorems, TLAPS

Frames == ScriptFrames \cup NativeFrames

\* s begins with b.
Over(b, s) == Len(b) <= Len(s) /\ \A k \in 1 .. Len(b) : s[k] = b[k]

\* What the game's thread has left: an operation of the worker only puts
\* values on top of it.
Settled == IF UnderWay THEN worker.below ELSE stack

\* Scripts and natives take turns, and a native with a script on top has
\* called it.
Shape(fs) ==
    /\ fs \in Seq(Frames) /\ fs # << >> /\ fs[1].kind = "script"
    /\ \A i \in 1 .. Len(fs) - 1 :
          /\ fs[i].kind # fs[i + 1].kind
          /\ fs[i].kind = "native" => fs[i].pc = "called"

\* The arguments that a native forwards.
Forwards(f) == Len(f.below) - f.base - f.first + 1

\* The first m values on top of a native's arguments and the function it has
\* found: the environment, and the arguments from the first to forward on.
Given(f, s, m) ==
    /\ Len(f.below) + 2 + m <= Len(s)
    /\ s[Len(f.below) + 2] = f.below[f.base + 1]
    /\ \A k \in 1 .. m :
          s[Len(f.below) + 2 + k] = f.below[f.base + f.first + k - 1]

\* The native f, whose step it is, has left the stack s.
Running(f, s) ==
    LET n == Len(f.below) IN
    /\ f.pc \in {"select", "count", "mark", "name", "zero"} => Len(s) = n
    /\ f.pc \in {"name", "get", "env", "args", "remove", "check", "drop"} =>
          f.old = n - f.base
    /\ f.pc \in {"mark", "name", "get", "env", "args"} =>
          f.count = Forwards(f)
    /\ f.pc \in {"select", "count", "mark", "name", "get", "env"} => f.sent = 0
    /\ f.pc \in {"get", "env"} => Len(s) = n + 1
    /\ f.pc = "args" => /\ f.sent <= f.count /\ Len(s) = n + 2 + f.sent
                        /\ Given(f, s, f.sent)
    /\ f.pc = "remove" => Len(s) = n + 2 /\ s[n + 2] = "result"
    /\ f.pc = "check" => Len(s) = n + 1 /\ s[n + 1] = "result"
    /\ f.pc = "return" =>
          /\ Len(s) = n + 1
          /\ s[n + 1] = IF f.returned THEN "result" ELSE "zero"
    /\ f.pc \in {"remove", "check"} => f.returned
    /\ f.pc \in {"select", "count", "mark", "name", "get", "env", "args", "drop",
                 "zero"} => ~f.returned

\* The native f has called a function, which runs in g.
Called(f, g, s) ==
    /\ f.count = Forwards(f) /\ f.old = Len(f.below) - f.base /\ ~f.returned
    /\ g.base = Len(f.below) + 1 /\ g.params = f.count + 1
    /\ g.top = g.base + g.params /\ g.top < Len(s)
    /\ Given(f, s, f.count)

\* A native that no step has straddled has what it was called with under it,
\* and on top of that what its own steps have put there; those of the natives
\* inside it are farther up.
Sound(fs, s) ==
    \A i \in DOMAIN fs : fs[i].kind = "native" /\ fs[i].clean =>
        /\ fs[i].top = fs[i].base /\ fs[i].base < Len(fs[i].below)
        /\ Over(fs[i].below, s)
        /\ i = Len(fs) => Running(fs[i], s)
        /\ i < Len(fs) => Called(fs[i], fs[i + 1], s)
        /\ \A j \in i + 1 .. Len(fs) : fs[j].kind = "native" =>
              fs[j].clean /\ fs[i + 1].top < fs[j].top

\* Which operation takes which of the worker's steps, and that it has not
\* answered before its last one.
InOrder(w) ==
    /\ w.pc \in {"look", "keep"} => w.op \in {"exists", "register"}
    /\ w.pc \in {"closure", "slot", "settop"} =>
          w.op \in {"define", "force", "install"}
    /\ w.pc # "settop" => ~w.answer

\* The operation w has its own values on top of the stack it has found, in s,
\* and has seen or made what it is about to answer in the root table d.
Operating(w, s, d) ==
    LET n == Len(w.below) IN
    /\ Over(w.below, s)
    /\ w.pc = "root" => Len(s) = n
    /\ w.pc = "name" => Len(s) = n + 1 /\ s[n + 1] = "root"
    /\ w.pc \in {"look", "closure"} =>
          Len(s) = n + 2 /\ s[n + 1] = "root" /\ s[n + 2] = w.name
    /\ w.pc = "slot" =>
          Len(s) = n + 3 /\ s[n + 1] = "root" /\ s[n + 2] = w.name
    /\ w.pc = "keep" /\ w.found => d[w.name] # "none"
    /\ w.pc = "settop" /\ w.answer => d[w.name] = "ours"

\* An operation that no step has straddled is as it should be; one that has
\* been straddled has straddled all natives.
WorkerInv ==
    /\ InOrder(worker)
    /\ UnderWay /\ ~worker.clean =>
          \A i \in DOMAIN frames : frames[i].kind = "native" => ~frames[i].clean
    /\ UnderWay /\ worker.clean =>
          /\ worker.old = Len(worker.below) - Base
          /\ Operating(worker, stack, slot)

IInv ==
    /\ TypeOK
    /\ Shape(frames)
    /\ Sound(frames, Settled)
    /\ WorkerInv

-----------------------------------------------------------------------------
(* What the operations on sequences do.                                    *)

LEMMA Cut ==
    ASSUME NEW S, NEW s \in Seq(S), NEW n \in 0 .. Len(s)
    PROVE  /\ SubSeq(s, 1, n) \in Seq(S) /\ Len(SubSeq(s, 1, n)) = n
           /\ \A k \in 1 .. n : SubSeq(s, 1, n)[k] = s[k]
<1>1. \A i \in 1 .. n : s[i] \in S
    BY ElementOfSeq
<1>2. Len(s) \in Nat
    OBVIOUS
<1> QED
    BY <1>1, <1>2, SubSeqProperties

\* The top activation changes and the others stay.
LEMMA TopChanged ==
    ASSUME NEW S, NEW fs \in Seq(S), fs # << >>, NEW f \in S
    PROVE  LET gs == Append(Front(fs), f)
           IN  /\ gs \in Seq(S) /\ Len(gs) = Len(fs) /\ gs # << >>
               /\ gs[Len(fs)] = f
               /\ \A i \in 1 .. Len(fs) - 1 : gs[i] = fs[i]
<1>1. Len(fs) \in Nat \ {0}
    BY EmptySeq
<1> DEFINE n == Len(fs) - 1
<1>0. n \in 0 .. Len(fs)
    BY <1>1
<1>2. /\ Front(fs) \in Seq(S) /\ Len(Front(fs)) = Len(fs) - 1
      /\ \A i \in 1 .. Len(fs) - 1 : Front(fs)[i] = fs[i]
    BY <1>0, Cut DEF Front
<1> QED
    BY <1>1, <1>2, AppendProperties

\* The stack after sq_settop and after a native has returned.
LEMMA ResizedStack ==
    ASSUME stack \in Seq(Values), NEW n \in Int, NEW filler \in Values
    PROVE  /\ Resized(n, filler) \in Seq(Values)
           /\ n \in 0 .. Len(stack) =>
                 /\ Len(Resized(n, filler)) = n
                 /\ \A k \in 1 .. n : Resized(n, filler)[k] = stack[k]
<1> DEFINE fill == [i \in 1 .. (n - Len(stack)) |-> filler]
<1>0. Len(stack) \in Nat
    OBVIOUS
<1>1. CASE n > Len(stack)
    <2>1. n - Len(stack) \in Nat
        BY <1>0, <1>1
    <2>2. fill \in [1 .. (n - Len(stack)) -> Values]
        OBVIOUS
    <2>3. fill \in Seq(Values)
        BY <2>1, <2>2, SeqDef
    <2>4. stack \o fill \in Seq(Values)
        BY <2>3, ConcatProperties
    <2> QED
        BY <1>0, <1>1, <2>4 DEF Resized
<1>2. CASE n \in 0 .. Len(stack)
    BY <1>0, <1>2, Cut DEF Resized
<1>3. CASE n < 0
    <2>1. SubSeq(stack, 1, n) = << >>
        BY <1>3, SubSeqEmpty
    <2> QED
        BY <1>0, <1>3, <2>1, EmptySeq DEF Resized
<1> QED
    BY <1>0, <1>1, <1>2, <1>3

\* The stack after sq_pop.
LEMMA PoppedStack ==
    ASSUME stack \in Seq(Values), NEW n \in Nat
    PROVE  /\ Popped(n) \in Seq(Values)
           /\ n <= Len(stack) =>
                 /\ Len(Popped(n)) = Len(stack) - n
                 /\ \A k \in 1 .. Len(stack) - n : Popped(n)[k] = stack[k]
<1>1. Len(stack) \in Nat
    OBVIOUS
<1> QED
    BY <1>1, Cut DEF Popped

LEMMA PeekType ==
    ASSUME stack \in Seq(Values), NEW i
    PROVE  Peek(i) \in Values
<1> DEFINE k == IF i < 0 THEN Len(stack) + 1 + i ELSE Base + i
<1>1. CASE k \in 1 .. Len(stack)
    BY <1>1, ElementOfSeq DEF Peek
<1>2. CASE k \notin 1 .. Len(stack)
    BY <1>2 DEF Peek, Values
<1> QED
    BY <1>1, <1>2

-----------------------------------------------------------------------------
(* A step of the game's thread.                                            *)

\* Outside the worker's operations it leaves the activations it says; inside
\* one, it marks them all and the operation.
LEMMA GameEffect ==
    ASSUME TypeOK, NEW fs \in Seq(Frames), Game(fs)
    PROVE  /\ frames' \in Seq(Frames) /\ Len(frames') = Len(fs)
           /\ worker' \in Operations /\ worker'.pc = worker.pc
           /\ worker'.op = worker.op /\ worker'.answer = worker.answer
           /\ straddles' \in 0 .. MaxStraddles
           /\ ~UnderWay => frames' = fs
           /\ UnderWay =>
                 /\ ~worker'.clean
                 /\ \A i \in DOMAIN fs :
                       /\ frames'[i].kind = fs[i].kind
                       /\ fs[i].kind = "native" =>
                             ~frames'[i].clean /\ frames'[i].pc = fs[i].pc
<1> DEFINE g(i) == IF fs[i].kind = "script" THEN fs[i]
                   ELSE [fs[i] EXCEPT !.clean = @ /\ ~UnderWay]
<1>1. /\ frames' = [i \in DOMAIN fs |-> g(i)]
      /\ worker' = [worker EXCEPT !.clean = @ /\ ~UnderWay]
    BY DEF Game
<1>2. Len(fs) \in Nat /\ DOMAIN fs = 1 .. Len(fs)
    OBVIOUS
<1>3. ASSUME NEW i \in 1 .. Len(fs)
      PROVE  /\ g(i) \in Frames /\ g(i).kind = fs[i].kind
             /\ ~UnderWay => g(i) = fs[i]
             /\ UnderWay /\ fs[i].kind = "native" => ~g(i).clean /\ g(i).pc = fs[i].pc
    <2>1. fs[i] \in Frames
        BY <1>3
    <2>2. CASE fs[i] \in ScriptFrames
        BY <2>2 DEF ScriptFrames, Frames
    <2>3. CASE fs[i] \in NativeFrames
        BY <2>3 DEF NativeFrames, Frames
    <2> QED
        BY <2>1, <2>2, <2>3 DEF Frames
<1>4. frames' \in [1 .. Len(fs) -> Frames]
    BY <1>1, <1>2, <1>3
<1>5. frames' \in Seq(Frames) /\ Len(frames') = Len(fs)
    BY <1>2, <1>4, SeqDef
<1>6. ~UnderWay => frames' = fs
    BY <1>1, <1>2, <1>3
<1>7. /\ worker' \in Operations /\ worker'.pc = worker.pc /\ worker'.op = worker.op
      /\ worker'.answer = worker.answer /\ (UnderWay => ~worker'.clean)
    BY <1>1 DEF TypeOK, Operations
<1>8. straddles' \in 0 .. MaxStraddles
    BY Bounds DEF TypeOK, Game
<1> QED
    BY <1>1, <1>2, <1>3, <1>5, <1>6, <1>7, <1>8

\* Only what it leaves outside the worker's operations has to be shown.
LEMMA GameKeepsInv ==
    ASSUME IInv, NEW fs, Game(fs), Shape(fs), stack' \in Seq(Values),
           slot' \in [Names -> {"none", "script", "ours"}],
           ~UnderWay => Sound(fs, stack')
    PROVE  IInv'
<1> USE DEF IInv
<1>1. fs \in Seq(Frames) /\ TypeOK
    BY DEF Shape
<1>2. TypeOK'
    BY <1>1, GameEffect, EmptySeq DEF TypeOK, Frames, Shape
<1>3. CASE UnderWay
    <2>0. /\ frames' \in Seq(Frames) /\ Len(frames') = Len(fs)
          /\ Len(fs) \in Nat \ {0} /\ DOMAIN fs = 1 .. Len(fs)
          /\ \A i \in 1 .. Len(fs) :
                /\ frames'[i].kind = fs[i].kind
                /\ fs[i].kind = "native" => frames'[i].pc = fs[i].pc
        BY <1>1, <1>3, GameEffect, EmptySeq DEF Shape
    <2>1. Shape(frames')
        <3>1. frames' # << >> /\ frames'[1].kind = "script"
            BY <1>1, <2>0, EmptySeq DEF Shape
        <3>2. ASSUME NEW i \in 1 .. Len(fs) - 1
              PROVE  /\ frames'[i].kind # frames'[i + 1].kind
                     /\ frames'[i].kind = "native" => frames'[i].pc = "called"
            <4>1. i \in 1 .. Len(fs) /\ i + 1 \in 1 .. Len(fs)
                BY <2>0
            <4>2. /\ frames'[i].kind = fs[i].kind
                  /\ frames'[i + 1].kind = fs[i + 1].kind
                  /\ fs[i].kind = "native" => frames'[i].pc = fs[i].pc
                BY <2>0, <4>1
            <4> QED
                BY <4>2 DEF Shape
        <3> QED
            BY <2>0, <3>1, <3>2 DEF Shape
    <2>2. UnderWay' /\ ~worker'.clean
        BY <1>1, <1>3, GameEffect DEF UnderWay
    <2>3. \A i \in DOMAIN frames' : frames'[i].kind = "native" => ~frames'[i].clean
        BY <1>1, <1>3, GameEffect
    <2>4. Sound(frames, Settled)'
        BY <2>3 DEF Sound
    <2>5. WorkerInv'
        BY <1>1, <2>2, <2>3, GameEffect DEF WorkerInv, InOrder
    <2> QED
        BY <1>2, <2>1, <2>4, <2>5
<1>4. CASE ~UnderWay
    <2>1. frames' = fs /\ ~UnderWay'
        BY <1>1, <1>4, GameEffect DEF UnderWay
    <2>2. Sound(frames, Settled)'
        BY <1>4, <2>1 DEF Settled
    <2>3. WorkerInv'
        BY <1>1, <2>1, GameEffect DEF WorkerInv, InOrder
    <2> QED
        BY <1>2, <2>1, <2>2, <2>3
<1> QED
    BY <1>3, <1>4

\* What a native that has called a function relies on is under its top.
LEMMA CalledKept ==
    ASSUME NEW f \in NativeFrames, NEW g \in ScriptFrames,
           NEW s \in Seq(Values), NEW t \in Seq(Values),
           Over(f.below, s), Called(f, g, s),
           g.top < Len(t), \A k \in 1 .. g.top : t[k] = s[k]
    PROVE  Over(f.below, t) /\ Called(f, g, t)
<1>1. /\ Len(f.below) \in Nat /\ f.count \in Nat /\ g.top = Len(f.below) + 2 + f.count
      /\ Len(s) \in Nat /\ Len(t) \in Nat
    BY DEF Called, NativeFrames, ScriptFrames
<1>2. Over(f.below, t)
    BY <1>1 DEF Over
<1>3. Given(f, t, f.count)
    <2>1. t[Len(f.below) + 2] = f.below[f.base + 1]
        <3>1. Len(f.below) + 2 \in 1 .. g.top
            BY <1>1
        <3> QED
            BY <3>1 DEF Called, Given
    <2>2. ASSUME NEW k \in 1 .. f.count
          PROVE  t[Len(f.below) + 2 + k] = f.below[f.base + f.first + k - 1]
        <3>1. Len(f.below) + 2 + k \in 1 .. g.top
            BY <1>1
        <3> QED
            BY <3>1 DEF Called, Given
    <2> QED
        BY <1>1, <2>1, <2>2 DEF Given
<1> QED
    BY <1>2, <1>3 DEF Called

\* A native that has called a function, one that no step has straddled, and an
\* activation farther up.
LEMMA Outer ==
    ASSUME NEW fs, NEW s \in Seq(Values), Shape(fs), Sound(fs, s),
           NEW i \in 1 .. Len(fs) - 1, fs[i].kind = "native", fs[i].clean
    PROVE  /\ fs[i] \in NativeFrames /\ fs[i + 1] \in ScriptFrames
           /\ fs[i].top = fs[i].base /\ fs[i].base < Len(fs[i].below)
           /\ Over(fs[i].below, s) /\ Called(fs[i], fs[i + 1], s)
           /\ \A j \in i + 1 .. Len(fs) : fs[j].kind = "native" =>
                 /\ i + 1 < j /\ fs[j].clean /\ fs[i + 1].top < fs[j].top
                 /\ fs[j].top = fs[j].base /\ fs[j].base < Len(fs[j].below)
                 /\ Over(fs[j].below, s)
<1>1. Len(fs) \in Nat \ {0} /\ DOMAIN fs = 1 .. Len(fs) /\ fs \in Seq(Frames)
    BY EmptySeq DEF Shape
<1>2. i \in 1 .. Len(fs) /\ i + 1 \in 1 .. Len(fs) /\ i < Len(fs)
    BY <1>1
<1>3. fs[i] \in Frames /\ fs[i + 1] \in Frames /\ fs[i + 1].kind # "native"
    BY <1>1, <1>2 DEF Shape
<1>4. fs[i] \in NativeFrames /\ fs[i + 1] \in ScriptFrames
    BY <1>3 DEF Frames, ScriptFrames, NativeFrames
<1>5. /\ fs[i].top = fs[i].base /\ fs[i].base < Len(fs[i].below)
      /\ Over(fs[i].below, s) /\ Called(fs[i], fs[i + 1], s)
      /\ \A j \in i + 1 .. Len(fs) : fs[j].kind = "native" =>
            fs[j].clean /\ fs[i + 1].top < fs[j].top
    BY <1>1, <1>2 DEF Sound
<1>6. ASSUME NEW j \in i + 1 .. Len(fs), fs[j].kind = "native"
      PROVE  /\ i + 1 < j /\ fs[j].top = fs[j].base /\ fs[j].base < Len(fs[j].below)
             /\ Over(fs[j].below, s)
    <2>1. j \in DOMAIN fs /\ fs[j].clean
        BY <1>1, <1>2, <1>5, <1>6
    <2>2. i + 1 # j
        BY <1>3, <1>6
    <2> QED
        BY <1>1, <1>2, <1>6, <2>1, <2>2 DEF Sound
<1> QED
    BY <1>4, <1>5, <1>6

\* A native makes a step and remains the top activation.
LEMMA NativeKeepsInv ==
    ASSUME IInv, Cur.kind = "native", NEW f \in NativeFrames,
           Game(Append(Front(frames), f)),
           f.base = Cur.base, f.top = Cur.top, f.below = Cur.below,
           f.clean = Cur.clean,
           stack' \in Seq(Values), UNCHANGED slot,
           ~UnderWay /\ Cur.clean => Over(f.below, stack') /\ Running(f, stack')
    PROVE  IInv'
<1> DEFINE fs == Append(Front(frames), f)
           m  == Len(frames)
<1>1. /\ frames \in Seq(Frames) /\ frames # << >> /\ f \in Frames
      /\ m \in Nat \ {0} /\ DOMAIN frames = 1 .. m
      /\ Cur = frames[m]
    BY EmptySeq DEF IInv, Shape, Frames, Cur, Last
<1>2. /\ fs \in Seq(Frames) /\ Len(fs) = m /\ fs # << >> /\ DOMAIN fs = 1 .. m
      /\ fs[m] = f /\ \A i \in 1 .. m - 1 : fs[i] = frames[i]
    <2> HIDE DEF fs
    <2>1. /\ fs \in Seq(Frames) /\ Len(fs) = m /\ fs # << >>
          /\ fs[m] = f /\ \A i \in 1 .. m - 1 : fs[i] = frames[i]
        BY <1>1, TopChanged DEF fs
    <2> QED
        BY <2>1
<1> HIDE DEF fs
<1>3. Shape(fs)
    <2>1. fs[1].kind = "script"
        BY <1>1, <1>2 DEF IInv, Shape, NativeFrames
    <2>2. ASSUME NEW i \in 1 .. m - 1
          PROVE  /\ fs[i].kind # fs[i + 1].kind
                 /\ fs[i].kind = "native" => fs[i].pc = "called"
        <3>1. /\ frames[i].kind # frames[i + 1].kind
              /\ frames[i].kind = "native" => frames[i].pc = "called"
            BY DEF IInv, Shape
        <3>2. fs[i + 1].kind = frames[i + 1].kind
            BY <1>1, <1>2 DEF NativeFrames
        <3> QED
            BY <1>2, <3>1, <3>2
    <2> QED
        BY <1>2, <2>1, <2>2 DEF Shape
<1>4. ASSUME ~UnderWay
      PROVE  Sound(fs, stack')
    <2>0. Sound(frames, stack) /\ Shape(frames) /\ stack \in Seq(Values)
        BY <1>4 DEF IInv, Settled, TypeOK
    <2>1. SUFFICES ASSUME NEW i \in 1 .. m, fs[i].kind = "native", fs[i].clean
                   PROVE  /\ fs[i].top = fs[i].base /\ fs[i].base < Len(fs[i].below)
                          /\ Over(fs[i].below, stack')
                          /\ i = m => Running(fs[i], stack')
                          /\ i < m => Called(fs[i], fs[i + 1], stack')
                          /\ \A j \in i + 1 .. m : fs[j].kind = "native" =>
                                fs[j].clean /\ fs[i + 1].top < fs[j].top
        BY <1>2 DEF Sound
    <2>2. CASE i = m
        <3>1. Cur.clean /\ Cur.top = Cur.base /\ Cur.base < Len(Cur.below)
            BY <1>1, <1>2, <2>0, <2>1, <2>2 DEF Sound
        <3> QED
            BY <1>1, <1>2, <1>4, <2>2, <3>1
    <2>3. CASE i < m
        <3>0. i \in 1 .. m - 1 /\ fs[i] = frames[i]
            BY <1>1, <1>2, <2>3
        <3>1. /\ frames[i] \in NativeFrames /\ frames[i + 1] \in ScriptFrames
              /\ frames[i].top = frames[i].base /\ frames[i].base < Len(frames[i].below)
              /\ Over(frames[i].below, stack) /\ Called(frames[i], frames[i + 1], stack)
              /\ \A j \in i + 1 .. m : frames[j].kind = "native" =>
                    i + 1 < j /\ frames[j].clean /\ frames[i + 1].top < frames[j].top
              /\ i + 1 < m /\ Cur.clean /\ frames[i + 1].top < Cur.top
              /\ Cur.top = Cur.base /\ Cur.base < Len(Cur.below)
              /\ Over(Cur.below, stack)
            BY <1>1, <2>0, <2>1, <2>3, <3>0, Outer
        <3>2. fs[i + 1] = frames[i + 1]
            BY <1>1, <1>2, <3>1
        <3>3. /\ frames[i + 1].top < Len(stack')
              /\ \A k \in 1 .. frames[i + 1].top : stack'[k] = stack[k]
            <4>1. Over(Cur.below, stack')
                BY <1>4, <3>1
            <4>2. frames[i + 1].top \in Nat
                BY <3>1 DEF ScriptFrames
            <4>3. Cur.base \in Nat /\ Cur.below \in Seq(Values)
                BY DEF NativeFrames
            <4>4. Len(Cur.below) \in Nat /\ Len(stack') \in Nat
                BY <4>3
            <4> QED
                BY <3>1, <4>1, <4>2, <4>3, <4>4 DEF Over
        <3>4. Over(frames[i].below, stack') /\ Called(frames[i], frames[i + 1], stack')
            BY <2>0, <3>1, <3>3, CalledKept
        <3>5. ASSUME NEW j \in i + 1 .. m, fs[j].kind = "native"
              PROVE  fs[j].clean /\ fs[i + 1].top < fs[j].top
            <4>1. CASE j = m
                BY <1>1, <1>2, <3>1, <3>2, <4>1
            <4>2. CASE j # m
                <5>1. j \in 1 .. m - 1 /\ j \in i + 1 .. m
                    <6>1. m \in Nat
                        BY <1>1
                    <6>2. i \in 1 .. m /\ j \in i + 1 .. m
                        BY <2>1, <3>5
                    <6> HIDE DEF m
                    <6> QED
                        BY <4>2, <6>1, <6>2
                <5>2. fs[j] = frames[j]
                    BY <1>2, <5>1
                <5> QED
                    BY <3>1, <3>2, <3>5, <5>1, <5>2
            <4> QED
                BY <4>1, <4>2
        <3>6. Over(fs[i].below, stack') /\ Called(fs[i], fs[i + 1], stack')
            BY <3>0, <3>2, <3>4
        <3>7. fs[i].top = fs[i].base /\ fs[i].base < Len(fs[i].below)
            BY <3>0, <3>1
        <3> QED
            BY <2>3, <3>5, <3>6, <3>7
    <2>4. i = m \/ i < m
        <3>1. m \in Nat /\ i \in 1 .. m
            BY <1>1, <2>1
        <3> HIDE DEF m
        <3> QED
            BY <3>1
    <2> QED
        BY <2>2, <2>3, <2>4
<1>5. slot' \in [Names -> {"none", "script", "ours"}]
    BY DEF IInv, TypeOK
<1> QED
    BY <1>3, <1>4, <1>5, GameKeepsInv DEF fs

\* The frames of a game's thread, and the stack it works on.
LEMMA FramesFacts ==
    ASSUME IInv
    PROVE  /\ frames \in Seq(Frames) /\ frames # << >> /\ Shape(frames)
           /\ Len(frames) \in Nat \ {0} /\ DOMAIN frames = 1 .. Len(frames)
           /\ Cur = frames[Len(frames)] /\ Cur \in Frames
           /\ Cur.kind = "native" => Cur \in NativeFrames /\ Len(frames) > 1
           /\ Cur.kind = "script" => Cur \in ScriptFrames
           /\ stack \in Seq(Values) /\ Len(stack) \in Nat
           /\ slot \in [Names -> {"none", "script", "ours"}]
           /\ ~UnderWay => Sound(frames, stack)
<1>1. /\ frames \in Seq(Frames) /\ frames # << >> /\ Shape(frames)
      /\ stack \in Seq(Values) /\ frames[1].kind = "script"
    BY DEF IInv, Shape, TypeOK
<1>2. Len(frames) \in Nat \ {0} /\ DOMAIN frames = 1 .. Len(frames)
    BY <1>1, EmptySeq
<1>3. Cur = frames[Len(frames)] /\ Cur \in Frames
    BY <1>1, <1>2 DEF Cur, Last
<1>4. /\ Cur.kind = "native" => Cur \in NativeFrames /\ Len(frames) > 1
      /\ Cur.kind = "script" => Cur \in ScriptFrames
    BY <1>1, <1>2, <1>3 DEF Frames, ScriptFrames, NativeFrames
<1> QED
    BY <1>1, <1>2, <1>3, <1>4 DEF IInv, Settled, TypeOK

\* The top activation ends: only the stack above those below it may change.
LEMMA ReturnKeepsInv ==
    ASSUME IInv, At("return"), ReturnNative
    PROVE  IInv'
<1> DEFINE m == Len(frames)
           fs == Front(frames)
<1>0. Cur.kind = "native" /\ Game(fs) /\ stack' = Resized(Cur.top, "stale") /\ slot' = slot
    BY DEF At, ReturnNative
<1>1. /\ m - 1 \in 1 .. m /\ m \in Nat /\ Cur = frames[m] /\ Cur \in NativeFrames
      /\ stack \in Seq(Values) /\ frames \in Seq(Frames)
    BY <1>0, FramesFacts
<1>2. /\ fs \in Seq(Frames) /\ Len(fs) = m - 1 /\ fs # << >> /\ DOMAIN fs = 1 .. m - 1
      /\ \A i \in 1 .. m - 1 : fs[i] = frames[i]
    <2>1. /\ fs \in Seq(Frames) /\ Len(fs) = m - 1
          /\ \A i \in 1 .. m - 1 : fs[i] = frames[i]
        BY <1>1, Cut DEF Front
    <2> QED
        BY <1>1, <2>1, EmptySeq
<1> HIDE DEF fs
<1>3. Shape(fs)
    <2>1. fs[1].kind = "script"
        BY <1>1, <1>2, FramesFacts DEF Shape
    <2>2. ASSUME NEW i \in 1 .. m - 2
          PROVE  fs[i].kind # fs[i + 1].kind /\ (fs[i].kind = "native" => fs[i].pc = "called")
        <3>1. i \in 1 .. m - 1 /\ i + 1 \in 1 .. m - 1
            BY <1>1
        <3>2. /\ frames[i].kind # frames[i + 1].kind
              /\ frames[i].kind = "native" => frames[i].pc = "called"
            BY <3>1, FramesFacts DEF Shape
        <3> QED
            BY <1>2, <3>1, <3>2
    <2> QED
        BY <1>1, <1>2, <2>1, <2>2 DEF Shape
<1>4. stack' \in Seq(Values)
    BY <1>0, <1>1, ResizedStack DEF NativeFrames, Values
<1>5. ASSUME ~UnderWay
      PROVE  Sound(fs, stack')
    <2>0. Sound(frames, stack) /\ Shape(frames) /\ frames[m].kind = "native"
        BY <1>0, <1>1, <1>5, FramesFacts
    <2>1. SUFFICES ASSUME NEW i \in 1 .. m - 1, fs[i].kind = "native", fs[i].clean
                   PROVE  /\ fs[i].top = fs[i].base /\ fs[i].base < Len(fs[i].below)
                          /\ Over(fs[i].below, stack')
                          /\ i < m - 1 /\ Called(fs[i], fs[i + 1], stack')
                          /\ \A j \in i + 1 .. m - 1 : fs[j].kind = "native" =>
                                fs[j].clean /\ fs[i + 1].top < fs[j].top
        BY <1>1, <1>2 DEF Sound
    <2>2. fs[i] = frames[i] /\ i # m /\ m \in i + 1 .. m
        BY <1>1, <1>2, <2>1
    <2>3. /\ frames[i] \in NativeFrames /\ frames[i + 1] \in ScriptFrames
          /\ frames[i].top = frames[i].base /\ frames[i].base < Len(frames[i].below)
          /\ Over(frames[i].below, stack) /\ Called(frames[i], frames[i + 1], stack)
          /\ \A j \in i + 1 .. m : frames[j].kind = "native" =>
                frames[j].clean /\ frames[i + 1].top < frames[j].top
          /\ i + 1 < m /\ frames[i + 1].top < Cur.top
          /\ Cur.top = Cur.base /\ Cur.base < Len(Cur.below) /\ Over(Cur.below, stack)
        BY <1>1, <2>0, <2>1, <2>2, Outer
    <2>4. i < m - 1 /\ fs[i + 1] = frames[i + 1]
        BY <1>1, <1>2, <2>1, <2>3
    <2>5. Len(stack') = Cur.top /\ \A k \in 1 .. Cur.top : stack'[k] = stack[k]
        <3>1. Cur.top \in Nat /\ Len(Cur.below) \in Nat
            BY <1>1 DEF NativeFrames
        <3>2. Cur.top \in 0 .. Len(stack)
            BY <1>1, <2>3, <3>1 DEF Over
        <3> QED
            BY <1>0, <1>1, <3>1, <3>2, ResizedStack DEF Values
    <2>6. Over(frames[i].below, stack') /\ Called(frames[i], frames[i + 1], stack')
        <3>1. frames[i + 1].top \in Nat /\ Cur.top \in Nat
            BY <1>1, <2>3 DEF ScriptFrames, NativeFrames
        <3>2. /\ frames[i + 1].top < Len(stack')
              /\ \A k \in 1 .. frames[i + 1].top : stack'[k] = stack[k]
            BY <2>3, <2>5, <3>1
        <3> QED
            BY <1>1, <1>4, <2>3, <3>2, CalledKept
    <2>7. ASSUME NEW j \in i + 1 .. m - 1, fs[j].kind = "native"
          PROVE  fs[j].clean /\ fs[i + 1].top < fs[j].top
        <3>1. j \in i + 1 .. m /\ j \in 1 .. m - 1
            BY <1>1, <2>1
        <3>2. fs[j] = frames[j]
            BY <1>2, <3>1
        <3> QED
            BY <2>3, <2>4, <2>7, <3>1, <3>2
    <2> QED
        BY <2>2, <2>3, <2>4, <2>6, <2>7
<1> QED
    BY <1>0, <1>3, <1>4, <1>5, FramesFacts, GameKeepsInv DEF fs

\* What lies under a script's call stays when the stack only grows, or when
\* what an inner native was called with stays.
LEMMA CallersKept ==
    ASSUME IInv, ~UnderWay, NEW t \in Seq(Values),
           NEW i \in 1 .. Len(frames) - 1, frames[i].kind = "native", frames[i].clean,
           \/ Over(stack, t)
           \/ \E j \in i + 1 .. Len(frames) :
                 frames[j].kind = "native" /\ Over(frames[j].below, t)
    PROVE  Over(frames[i].below, t) /\ Called(frames[i], frames[i + 1], t)
<1>1. /\ frames[i] \in NativeFrames /\ frames[i + 1] \in ScriptFrames
      /\ Over(frames[i].below, stack) /\ Called(frames[i], frames[i + 1], stack)
      /\ stack \in Seq(Values)
      /\ \A j \in i + 1 .. Len(frames) : frames[j].kind = "native" =>
            /\ frames[i + 1].top < frames[j].top
            /\ frames[j].top = frames[j].base /\ frames[j].base < Len(frames[j].below)
            /\ Over(frames[j].below, stack)
    BY FramesFacts, Outer
<1>2. frames[i + 1].top < Len(stack) /\ frames[i + 1].top \in Nat
    BY <1>1 DEF Called, ScriptFrames
<1>3. CASE Over(stack, t)
    <2>1. frames[i + 1].top < Len(t) /\ \A k \in 1 .. frames[i + 1].top : t[k] = stack[k]
        BY <1>1, <1>2, <1>3 DEF Over
    <2> QED
        BY <1>1, <2>1, CalledKept
<1>4. ASSUME NEW j \in i + 1 .. Len(frames), frames[j].kind = "native",
             Over(frames[j].below, t)
      PROVE  Over(frames[i].below, t) /\ Called(frames[i], frames[i + 1], t)
    <2>1. frames[j] \in Frames
        BY <1>4, FramesFacts
    <2>2. frames[j].base \in Nat /\ Len(frames[j].below) \in Nat
        BY <1>4, <2>1 DEF Frames, ScriptFrames, NativeFrames
    <2>3. frames[i + 1].top < Len(frames[j].below) /\ Over(frames[j].below, stack)
        BY <1>1, <1>2, <1>4, <2>2
    <2>4. frames[i + 1].top < Len(t) /\ \A k \in 1 .. frames[i + 1].top : t[k] = stack[k]
        BY <1>2, <1>4, <2>2, <2>3 DEF Over
    <2> QED
        BY <1>1, <2>4, CalledKept
<1> QED
    BY <1>3, <1>4

\* The stack with values pushed on it.
LEMMA Pushed ==
    ASSUME NEW s \in Seq(Values), NEW e \in Seq(Values)
    PROVE  /\ s \o e \in Seq(Values) /\ Over(s, s \o e)
           /\ Len(s \o e) = Len(s) + Len(e)
BY ConcatProperties DEF Over

LEMMA PushedOne ==
    ASSUME NEW s \in Seq(Values), NEW v \in Values
    PROVE  /\ Append(s, v) \in Seq(Values) /\ Over(s, Append(s, v))
           /\ Len(Append(s, v)) = Len(s) + 1 /\ Append(s, v)[Len(s) + 1] = v
           /\ \A k \in 1 .. Len(s) : Append(s, v)[k] = s[k]
<1>1. /\ Append(s, v) \in Seq(Values) /\ Len(Append(s, v)) = Len(s) + 1
      /\ \A k \in 1 .. Len(s) : Append(s, v)[k] = s[k]
      /\ Append(s, v)[Len(s) + 1] = v /\ Len(s) \in Nat
    BY AppendProperties
<1> QED
    BY <1>1 DEF Over

\* A script calls a native: what it has on the stack is under the new one.
LEMMA CallKeepsInv ==
    ASSUME IInv, NEW op \in Natives, NEW args \in Seq(Values), CallNative(op, args)
    PROVE  IInv'
<1> DEFINE m == Len(frames)
           f == Native(op, Len(stack), Len(stack), stack')
           fs == Append(frames, f)
<1>0. /\ Cur.kind = "script" /\ Game(fs) /\ stack' = stack \o <<"root">> \o args
      /\ slot' = slot
    BY DEF CallNative
<1>1. /\ m \in Nat \ {0} /\ Cur = frames[m] /\ stack \in Seq(Values)
      /\ frames \in Seq(Frames) /\ Len(stack) \in Nat
    BY FramesFacts
<1>2. stack' \in Seq(Values) /\ Over(stack, stack') /\ Len(stack) < Len(stack')
    <2> DEFINE u == stack \o <<"root">>
    <2>1. <<"root">> \in Seq(Values) /\ Len(<<"root">>) = 1
        BY DEF Values
    <2>2. u \in Seq(Values) /\ Over(stack, u) /\ Len(u) = Len(stack) + 1
        BY <1>1, <2>1, Pushed
    <2> HIDE DEF u
    <2>3. u \o args \in Seq(Values) /\ Over(u, u \o args) /\ Len(u \o args) = Len(u) + Len(args)
        BY <2>2, Pushed
    <2>4. stack' = u \o args /\ Len(args) \in Nat
        BY <1>0 DEF u
    <2> QED
        BY <1>1, <2>2, <2>3, <2>4 DEF Over
<1>3. f \in NativeFrames
    BY <1>1, <1>2 DEF Native, NativeFrames
<1>4. /\ f.kind = "native" /\ f.base = Len(stack) /\ f.top = Len(stack)
      /\ f.below = stack' /\ f.pc = "select" /\ f.sent = 0 /\ ~f.returned /\ f.clean
    BY DEF Native
<1> HIDE DEF f
<1>5. /\ fs \in Seq(Frames) /\ Len(fs) = m + 1 /\ fs # << >> /\ DOMAIN fs = 1 .. m + 1
      /\ fs[m + 1] = f /\ \A i \in 1 .. m : fs[i] = frames[i]
    <2>1. f \in Frames
        BY <1>3 DEF Frames
    <2>2. /\ fs \in Seq(Frames) /\ Len(fs) = m + 1
          /\ fs[m + 1] = f /\ \A i \in 1 .. m : fs[i] = frames[i]
        BY <1>1, <2>1, AppendProperties
    <2> QED
        BY <1>1, <2>2, EmptySeq
<1> HIDE DEF fs
<1>6. Shape(fs)
    <2>1. fs[1].kind = "script"
        BY <1>1, <1>5, FramesFacts DEF Shape
    <2>2. ASSUME NEW i \in 1 .. m
          PROVE  fs[i].kind # fs[i + 1].kind /\ (fs[i].kind = "native" => fs[i].pc = "called")
        <3>1. CASE i = m
            BY <1>0, <1>1, <1>4, <1>5, <3>1
        <3>2. CASE i # m
            <4>1. i \in 1 .. m - 1 /\ i + 1 \in 1 .. m
                BY <1>1, <3>2
            <4>2. /\ frames[i].kind # frames[i + 1].kind
                  /\ frames[i].kind = "native" => frames[i].pc = "called"
                BY <4>1, FramesFacts DEF Shape
            <4> QED
                BY <1>5, <4>1, <4>2
        <3> QED
            BY <3>1, <3>2
    <2> QED
        BY <1>1, <1>5, <2>1, <2>2 DEF Shape
<1>7. ASSUME ~UnderWay
      PROVE  Sound(fs, stack')
    <2>0. Sound(frames, stack) /\ Shape(frames)
        BY <1>7, FramesFacts
    <2>1. SUFFICES ASSUME NEW i \in 1 .. m + 1, fs[i].kind = "native", fs[i].clean
                   PROVE  /\ fs[i].top = fs[i].base /\ fs[i].base < Len(fs[i].below)
                          /\ Over(fs[i].below, stack')
                          /\ i = m + 1 => Running(fs[i], stack')
                          /\ i < m + 1 => Called(fs[i], fs[i + 1], stack')
                          /\ \A j \in i + 1 .. m + 1 : fs[j].kind = "native" =>
                                fs[j].clean /\ fs[i + 1].top < fs[j].top
        BY <1>5 DEF Sound
    <2>2. CASE i = m + 1
        <3>1. Over(f.below, stack')
            BY <1>2, <1>4 DEF Over
        <3>2. Running(f, stack')
            BY <1>4 DEF Running
        <3> QED
            BY <1>1, <1>2, <1>4, <1>5, <2>2, <3>1, <3>2
    <2>3. CASE i # m + 1
        <3>0. i \in 1 .. m - 1 /\ fs[i] = frames[i] /\ i + 1 \in 1 .. m /\ fs[i + 1] = frames[i + 1]
            <4>1. i \in 1 .. m /\ fs[i] = frames[i]
                BY <1>1, <1>5, <2>1, <2>3
            <4>2. i # m
                BY <1>0, <1>1, <2>1, <4>1
            <4>3. i \in 1 .. m - 1 /\ i + 1 \in 1 .. m
                BY <1>1, <4>1, <4>2
            <4> QED
                BY <1>5, <4>1, <4>3
        <3>1. /\ frames[i].kind = "native" /\ frames[i].clean
            BY <2>1, <3>0
        <3>2. Over(frames[i].below, stack') /\ Called(frames[i], frames[i + 1], stack')
            BY <1>2, <1>7, <3>0, <3>1, CallersKept
        <3>3. /\ frames[i].top = frames[i].base /\ frames[i].base < Len(frames[i].below)
              /\ frames[i + 1] \in ScriptFrames
              /\ Called(frames[i], frames[i + 1], stack)
              /\ \A j \in i + 1 .. m : frames[j].kind = "native" =>
                    frames[j].clean /\ frames[i + 1].top < frames[j].top
            BY <1>1, <2>0, <3>0, <3>1, Outer
        <3>4. ASSUME NEW j \in i + 1 .. m + 1, fs[j].kind = "native"
              PROVE  fs[j].clean /\ fs[i + 1].top < fs[j].top
            <4>1. CASE j = m + 1
                BY <1>4, <1>5, <3>0, <3>3, <4>1 DEF Called
            <4>2. CASE j # m + 1
                <5>1. j \in i + 1 .. m /\ j \in 1 .. m
                    BY <1>1, <3>0, <4>2
                <5>2. fs[j] = frames[j]
                    BY <1>5, <5>1
                <5> QED
                    BY <3>0, <3>3, <3>4, <5>1, <5>2
            <4> QED
                BY <4>1, <4>2
        <3> QED
            BY <1>1, <2>3, <3>0, <3>2, <3>3, <3>4
    <2> QED
        BY <2>2, <2>3
<1>8. slot' \in [Names -> {"none", "script", "ours"}]
    BY <1>0, FramesFacts
<1> QED
    BY <1>0, <1>2, <1>6, <1>7, <1>8, GameKeepsInv

\* A native calls the function it has found: the environment and the arguments
\* it has copied are the bottom of the function's activation.
LEMMA EnterKeepsInv ==
    ASSUME IInv, EnterFunction
    PROVE  IInv'
<1> DEFINE m == Len(frames)
           f == [Cur EXCEPT !.pc = "called"]
           g == Script(Len(Popped(Params)), Len(stack), Params)
           gs == Append(Front(frames), f)
           fs == gs \o <<g>>
<1>0. /\ Cur.kind = "native" /\ Cur.pc = "args" /\ Cur.sent = Cur.count /\ Game(fs)
      /\ stack' = Append(stack, "local") /\ slot' = slot
    BY DEF EnterFunction, At, Push
<1>1. /\ m \in Nat \ {0} /\ Cur = frames[m] /\ Cur \in NativeFrames
      /\ stack \in Seq(Values) /\ frames \in Seq(Frames) /\ frames # << >>
      /\ Len(stack) \in Nat /\ Cur.count \in Nat /\ Len(Cur.below) \in Nat
      /\ Cur.base \in Nat
    BY <1>0, FramesFacts DEF NativeFrames
<1>2. /\ stack' \in Seq(Values) /\ Over(stack, stack') /\ Len(stack') = Len(stack) + 1
    BY <1>0, <1>1, PushedOne DEF Values
<1>3. /\ f \in NativeFrames /\ f.kind = "native" /\ f.pc = "called" /\ f.top = Cur.top
      /\ f.base = Cur.base /\ f.below = Cur.below /\ f.clean = Cur.clean
      /\ f.count = Cur.count /\ f.old = Cur.old /\ f.returned = Cur.returned
      /\ f.first = Cur.first
    BY <1>1 DEF NativeFrames
<1>4. /\ g \in ScriptFrames /\ g.kind = "script" /\ g.top = Len(stack)
      /\ g.params = Cur.count + 1 /\ g.base = Len(Popped(Cur.count + 1))
    <2>1. Params = Cur.count + 1 /\ Cur.count + 1 \in Nat
        BY <1>1 DEF Params
    <2>2. Popped(Params) \in Seq(Values)
        BY <1>1, <2>1, PoppedStack
    <2>3. Len(Popped(Params)) \in Nat
        BY <2>2
    <2> QED
        BY <1>1, <2>1, <2>3 DEF Script, ScriptFrames
<1> HIDE DEF f, g
<1>5. /\ gs \in Seq(Frames) /\ Len(gs) = m /\ gs[m] = f
      /\ \A i \in 1 .. m - 1 : gs[i] = frames[i]
    <2>1. f \in Frames
        BY <1>3 DEF Frames
    <2> QED
        BY <1>1, <2>1, TopChanged
<1> HIDE DEF gs
<1>6. /\ fs \in Seq(Frames) /\ Len(fs) = m + 1 /\ fs # << >> /\ DOMAIN fs = 1 .. m + 1
      /\ fs[m + 1] = g /\ fs[m] = f /\ \A i \in 1 .. m - 1 : fs[i] = frames[i]
    <2>1. g \in Frames
        BY <1>4 DEF Frames
    <2>2. /\ fs \in Seq(Frames) /\ Len(fs) = m + 1
          /\ fs[m + 1] = g /\ \A i \in 1 .. m : fs[i] = gs[i]
        BY <1>1, <1>5, <2>1
    <2> QED
        BY <1>1, <1>5, <2>2, EmptySeq
<1> HIDE DEF fs
<1>7. Shape(fs)
    <2>1. fs[1].kind = "script"
        BY <1>0, <1>1, <1>6, FramesFacts DEF Shape
    <2>2. ASSUME NEW i \in 1 .. m
          PROVE  fs[i].kind # fs[i + 1].kind /\ (fs[i].kind = "native" => fs[i].pc = "called")
        <3>1. CASE i = m
            BY <1>3, <1>4, <1>6, <3>1
        <3>2. CASE i # m
            <4>1. i \in 1 .. m - 1 /\ i + 1 \in 1 .. m
                BY <1>1, <3>2
            <4>2. /\ frames[i].kind # frames[i + 1].kind
                  /\ frames[i].kind = "native" => frames[i].pc = "called"
                BY <4>1, FramesFacts DEF Shape
            <4>3. fs[i + 1].kind = frames[i + 1].kind
                <5>1. CASE i + 1 = m
                    BY <1>0, <1>1, <1>3, <1>6, <5>1
                <5>2. CASE i + 1 # m
                    BY <1>1, <1>6, <4>1, <5>2
                <5> QED
                    BY <5>1, <5>2
            <4> QED
                BY <1>6, <4>1, <4>2, <4>3
        <3> QED
            BY <3>1, <3>2
    <2> QED
        BY <1>1, <1>6, <2>1, <2>2 DEF Shape
<1>8. ASSUME ~UnderWay
      PROVE  Sound(fs, stack')
    <2>0. Sound(frames, stack) /\ Shape(frames)
        BY <1>8, FramesFacts
    <2>1. SUFFICES ASSUME NEW i \in 1 .. m + 1, fs[i].kind = "native", fs[i].clean
                   PROVE  /\ fs[i].top = fs[i].base /\ fs[i].base < Len(fs[i].below)
                          /\ Over(fs[i].below, stack')
                          /\ i < m + 1 /\ Called(fs[i], fs[i + 1], stack')
                          /\ \A j \in i + 1 .. m + 1 : fs[j].kind = "native" =>
                                fs[j].clean /\ fs[i + 1].top < fs[j].top
        BY <1>1, <1>6 DEF Sound
    <2>2. CASE i = m
        <3>1. /\ Cur.clean /\ Cur.top = Cur.base /\ Cur.base < Len(Cur.below)
              /\ Over(Cur.below, stack) /\ Running(Cur, stack)
            BY <1>1, <1>3, <1>6, <1>0, <2>0, <2>1, <2>2 DEF Sound
        <3>2. /\ Len(stack) = Len(Cur.below) + 2 + Cur.count
              /\ Given(Cur, stack, Cur.count)
              /\ Cur.old = Len(Cur.below) - Cur.base /\ Cur.count = Forwards(Cur)
              /\ ~Cur.returned
            BY <1>0, <3>1 DEF Running
        <3>3. Over(f.below, stack')
            BY <1>1, <1>2, <1>3, <3>1 DEF Over
        <3>4. Given(f, stack', f.count)
            <4>1. /\ stack'[Len(Cur.below) + 2] = Cur.below[Cur.base + 1]
                BY <1>1, <1>2, <3>2 DEF Over, Given
            <4>2. ASSUME NEW k \in 1 .. Cur.count
                  PROVE  stack'[Len(Cur.below) + 2 + k] = Cur.below[Cur.base + Cur.first + k - 1]
                <5>1. Len(Cur.below) + 2 + k \in 1 .. Len(stack)
                    BY <1>1, <3>2
                <5> QED
                    BY <1>2, <3>2, <5>1 DEF Over, Given
            <4> QED
                BY <1>1, <1>2, <1>3, <3>2, <4>1, <4>2 DEF Given
        <3>5. g.base = Len(Cur.below) + 1
            <4>1. Cur.count + 1 \in Nat /\ Cur.count + 1 <= Len(stack)
                BY <1>1, <3>2
            <4>2. Len(Popped(Cur.count + 1)) = Len(stack) - (Cur.count + 1)
                BY <1>1, <4>1, PoppedStack
            <4> QED
                BY <1>1, <1>4, <3>2, <4>2
        <3>6. Called(f, g, stack')
            <4>1. f.count = Forwards(f)
                BY <1>3, <3>2 DEF Forwards
            <4>2. f.old = Len(f.below) - f.base /\ ~f.returned
                BY <1>3, <3>2
            <4>3. /\ g.base = Len(f.below) + 1 /\ g.params = f.count + 1
                  /\ g.top = g.base + g.params /\ g.top < Len(stack')
                <5>1. /\ f.below = Cur.below /\ f.count = Cur.count
                      /\ Len(Cur.below) \in Nat /\ Cur.count \in Nat
                    BY <1>1, <1>3
                <5>2. g.top = Len(Cur.below) + 2 + Cur.count
                    BY <1>4, <3>2
                <5>3. g.top < Len(stack')
                    BY <1>1, <1>2, <1>4
                <5>4. g.base = Len(f.below) + 1 /\ g.params = f.count + 1
                    BY <1>4, <3>5, <5>1
                <5>5. g.top = g.base + g.params
                    BY <5>1, <5>2, <5>4
                <5> QED
                    BY <5>3, <5>4, <5>5
            <4> QED
                BY <3>4, <4>1, <4>2, <4>3 DEF Called
        <3>7. \A j \in i + 1 .. m + 1 : fs[j].kind # "native"
            BY <1>1, <1>4, <1>6, <2>2
        <3> QED
            BY <1>1, <1>3, <1>6, <2>2, <3>1, <3>3, <3>6, <3>7
    <2>3. CASE i # m
        <3>0. i \in 1 .. m - 1 /\ fs[i] = frames[i]
            <4>1. i # m + 1
                BY <1>4, <1>6, <2>1
            <4>2. i \in 1 .. m - 1
                BY <1>1, <2>1, <2>3, <4>1
            <4> QED
                BY <1>6, <4>2
        <3>1. /\ frames[i].kind = "native" /\ frames[i].clean
            BY <2>1, <3>0
        <3>2. Over(frames[i].below, stack') /\ Called(frames[i], frames[i + 1], stack')
            BY <1>2, <1>8, <3>0, <3>1, CallersKept
        <3>3. /\ frames[i].top = frames[i].base /\ frames[i].base < Len(frames[i].below)
              /\ frames[i + 1] \in ScriptFrames
              /\ \A j \in i + 1 .. m : frames[j].kind = "native" =>
                    i + 1 < j /\ frames[j].clean /\ frames[i + 1].top < frames[j].top
            BY <1>1, <2>0, <3>0, <3>1, Outer
        <3>4. i + 1 \in 1 .. m - 1 /\ fs[i + 1] = frames[i + 1]
            <4>1. m \in i + 1 .. m
                BY <1>1, <3>0
            <4>2. i + 1 < m
                BY <1>0, <1>1, <3>3, <4>1
            <4>3. i + 1 \in 1 .. m - 1
                BY <1>1, <3>0, <4>2
            <4> QED
                BY <1>6, <4>3
        <3>5. ASSUME NEW j \in i + 1 .. m + 1, fs[j].kind = "native"
              PROVE  fs[j].clean /\ fs[i + 1].top < fs[j].top
            <4>1. j # m + 1
                BY <1>4, <1>6, <3>5
            <4>2. CASE j = m
                <5>1. m \in i + 1 .. m
                    BY <1>1, <3>0
                <5> QED
                    BY <1>0, <1>1, <1>3, <1>6, <3>3, <3>4, <4>2, <5>1
            <4>3. CASE j # m
                <5>1. j \in i + 1 .. m /\ j \in 1 .. m - 1
                    BY <1>1, <3>0, <4>1, <4>3
                <5>2. fs[j] = frames[j]
                    BY <1>6, <5>1
                <5> QED
                    BY <3>3, <3>4, <3>5, <5>1, <5>2
            <4> QED
                BY <4>2, <4>3
        <3> QED
            BY <1>1, <3>0, <3>2, <3>3, <3>4, <3>5
    <2> QED
        BY <2>2, <2>3
<1>9. slot' \in [Names -> {"none", "script", "ours"}]
    BY <1>0, FramesFacts
<1> QED
    BY <1>0, <1>2, <1>7, <1>8, <1>9, GameKeepsInv DEF fs, gs, f, g

\* The function returns to the native, or fails: what was under its parameters
\* is left, with the result of a function that has returned on top.
LEMMA LeaveKeepsInv ==
    ASSUME IInv, NEW returned \in BOOLEAN, LeaveFunction(returned)
    PROVE  IInv'
<1> DEFINE m == Len(frames)
           caller == Last(Front(frames))
           below == Resized(Cur.top - Cur.params, "stale")
           f == [caller EXCEPT !.pc = IF returned THEN "remove" ELSE "drop",
                               !.returned = returned]
           fs == Append(Front(Front(frames)), f)
<1>0. /\ Cur.kind = "script" /\ m > 1 /\ Game(fs) /\ slot' = slot
      /\ stack' = IF returned THEN Append(below, "result") ELSE below
    BY DEF LeaveFunction
<1>1. /\ m - 1 \in 1 .. m /\ m \in Nat /\ Cur = frames[m] /\ Cur \in ScriptFrames
      /\ stack \in Seq(Values) /\ frames \in Seq(Frames) /\ frames # << >>
      /\ Len(stack) \in Nat /\ Cur.top \in Nat /\ Cur.params \in Nat
    BY <1>0, FramesFacts DEF ScriptFrames
<1>2. /\ Front(frames) \in Seq(Frames) /\ Len(Front(frames)) = m - 1
      /\ Front(frames) # << >>
      /\ \A i \in 1 .. m - 1 : Front(frames)[i] = frames[i]
    <2>1. /\ Front(frames) \in Seq(Frames) /\ Len(Front(frames)) = m - 1
          /\ \A i \in 1 .. m - 1 : Front(frames)[i] = frames[i]
        BY <1>1, Cut DEF Front
    <2> QED
        BY <1>1, <2>1, EmptySeq
<1>3. caller = frames[m - 1] /\ frames[m - 1].kind = "native" /\ caller \in NativeFrames
    <2>1. caller = frames[m - 1]
        <3> HIDE DEF m
        <3> QED
            BY <1>1, <1>2 DEF Last
    <2>2. m - 1 \in 1 .. m - 1 /\ (m - 1) + 1 = m
        BY <1>0, <1>1
    <2>3. frames[m - 1].kind # frames[m].kind
        BY <2>2, FramesFacts DEF Shape
    <2>4. frames[m - 1] \in Frames
        BY <1>1
    <2> QED
        BY <1>0, <1>1, <2>1, <2>3, <2>4 DEF Frames, ScriptFrames, NativeFrames
<1>4. /\ f \in NativeFrames /\ f.kind = "native" /\ f.top = caller.top
      /\ f.base = caller.base /\ f.below = caller.below /\ f.clean = caller.clean
      /\ f.old = caller.old /\ f.returned = returned
      /\ f.pc = IF returned THEN "remove" ELSE "drop"
    <2> HIDE DEF caller
    <2> QED
        BY <1>3 DEF NativeFrames
<1> HIDE DEF f
<1>5. /\ fs \in Seq(Frames) /\ Len(fs) = m - 1 /\ fs # << >> /\ DOMAIN fs = 1 .. m - 1
      /\ fs[m - 1] = f /\ \A i \in 1 .. m - 2 : fs[i] = frames[i]
    <2>1. f \in Frames
        BY <1>4 DEF Frames
    <2> DEFINE front == Front(frames)
    <2>2. front \in Seq(Frames) /\ front # << >> /\ Len(front) = m - 1
        BY <1>2
    <2> HIDE DEF front
    <2>3. LET gs == Append(Front(front), f)
          IN  /\ gs \in Seq(Frames) /\ Len(gs) = Len(front) /\ gs # << >>
              /\ gs[Len(front)] = f
              /\ \A i \in 1 .. Len(front) - 1 : gs[i] = front[i]
        BY <2>1, <2>2, TopChanged
    <2>4. /\ fs \in Seq(Frames) /\ Len(fs) = m - 1 /\ fs # << >> /\ fs[m - 1] = f
          /\ \A i \in 1 .. m - 2 : fs[i] = front[i]
        BY <1>1, <2>2, <2>3 DEF front
    <2>5. \A i \in 1 .. m - 2 : i \in 1 .. m - 1
        BY <1>1
    <2> QED
        BY <1>2, <2>4, <2>5 DEF front
<1> HIDE DEF fs, caller
<1>6. Shape(fs)
    <2>1. fs[1].kind = "script"
        <3>1. frames[1].kind = "script"
            BY FramesFacts DEF Shape
        <3>2. 1 \in 1 .. m - 2
            BY <1>0, <1>1, <1>3, <3>1
        <3> QED
            BY <1>5, <3>1, <3>2
    <2>2. ASSUME NEW i \in 1 .. m - 2
          PROVE  fs[i].kind # fs[i + 1].kind /\ (fs[i].kind = "native" => fs[i].pc = "called")
        <3>1. i \in 1 .. m - 1 /\ i + 1 \in 1 .. m - 1
            BY <1>1
        <3>2. /\ frames[i].kind # frames[i + 1].kind
              /\ frames[i].kind = "native" => frames[i].pc = "called"
            BY <3>1, FramesFacts DEF Shape
        <3>3. fs[i + 1].kind = frames[i + 1].kind
            <4>1. CASE i + 1 = m - 1
                BY <1>3, <1>4, <1>5, <4>1
            <4>2. CASE i + 1 # m - 1
                BY <1>1, <1>5, <3>1, <4>2
            <4> QED
                BY <4>1, <4>2
        <3> QED
            BY <1>5, <3>2, <3>3
    <2> QED
        BY <1>1, <1>5, <2>1, <2>2 DEF Shape
<1>7. below \in Seq(Values) /\ stack' \in Seq(Values)
    <2>1. below \in Seq(Values)
        BY <1>1, ResizedStack DEF Values
    <2> HIDE DEF below
    <2> QED
        BY <1>0, <2>1, PushedOne DEF Values
<1>8. ASSUME ~UnderWay, caller.clean
      PROVE  Over(caller.below, stack') /\ Running(f, stack')
             /\ caller.top = caller.base /\ caller.base < Len(caller.below)
    <2> DEFINE n == Len(caller.below)
    <2>0. m - 1 \in 1 .. Len(frames) - 1 /\ (m - 1) + 1 = m
        BY <1>0, <1>1
    <2>1. /\ Over(caller.below, stack) /\ Called(caller, Cur, stack)
          /\ caller.top = caller.base /\ caller.base < n
        BY <1>1, <1>3, <1>8, <2>0, FramesFacts, Outer
    <2>2. /\ n \in Nat /\ Cur.top - Cur.params = n + 1 /\ n + 1 \in 0 .. Len(stack)
          /\ caller.old = n - caller.base
        <3>1. caller.below \in Seq(Values) /\ caller.count \in Nat /\ Cur.base \in Nat
            BY <1>1, <1>3 DEF NativeFrames, ScriptFrames
        <3>2. /\ caller.old = n - caller.base /\ Cur.base = n + 1
              /\ Cur.top = Cur.base + Cur.params /\ Cur.top < Len(stack)
            BY <2>1 DEF Called
        <3>3. n \in Nat
            BY <3>1
        <3> HIDE DEF n
        <3> QED
            BY <1>1, <3>2, <3>3
    <2>3. Len(below) = n + 1 /\ \A k \in 1 .. n + 1 : below[k] = stack[k]
        <3> DEFINE h == Cur.top - Cur.params
        <3>1. h \in Int /\ h \in 0 .. Len(stack) /\ h = n + 1 /\ "stale" \in Values
            BY <1>1, <2>2 DEF Values
        <3> HIDE DEF h, n
        <3>2. Len(Resized(h, "stale")) = h /\ \A k \in 1 .. h : Resized(h, "stale")[k] = stack[k]
            BY <1>1, <3>1, ResizedStack
        <3> QED
            BY <3>1, <3>2 DEF h
    <2>4. Over(caller.below, below)
        BY <2>1, <2>2, <2>3 DEF Over
    <2> HIDE DEF below
    <2>5. /\ Over(caller.below, stack')
          /\ returned => Len(stack') = n + 2 /\ stack'[n + 2] = "result"
        <3>1. CASE returned
            <4>1. /\ Len(stack') = n + 2 /\ stack'[n + 2] = "result"
                  /\ \A k \in 1 .. n + 1 : stack'[k] = below[k]
                BY <1>0, <1>7, <2>2, <2>3, <3>1, PushedOne DEF Values
            <4> QED
                BY <2>2, <2>3, <2>4, <4>1 DEF Over
        <3>2. CASE ~returned
            BY <1>0, <2>4, <3>2
        <3> QED
            BY <3>1, <3>2
    <2>6. Running(f, stack')
        <3>1. CASE returned
            BY <1>4, <2>2, <2>5, <3>1 DEF Running
        <3>2. CASE ~returned
            BY <1>4, <2>2, <2>5, <3>2 DEF Running
        <3> QED
            BY <3>1, <3>2
    <2> QED
        BY <2>1, <2>5, <2>6
<1>9. ASSUME ~UnderWay
      PROVE  Sound(fs, stack')
    <2>0. Sound(frames, stack) /\ Shape(frames)
        BY <1>9, FramesFacts
    <2>1. SUFFICES ASSUME NEW i \in 1 .. m - 1, fs[i].kind = "native", fs[i].clean
                   PROVE  /\ fs[i].top = fs[i].base /\ fs[i].base < Len(fs[i].below)
                          /\ Over(fs[i].below, stack')
                          /\ i = m - 1 => Running(fs[i], stack')
                          /\ i < m - 1 => Called(fs[i], fs[i + 1], stack')
                          /\ \A j \in i + 1 .. m - 1 : fs[j].kind = "native" =>
                                fs[j].clean /\ fs[i + 1].top < fs[j].top
        BY <1>1, <1>5 DEF Sound
    <2>2. CASE i = m - 1
        BY <1>1, <1>4, <1>5, <1>8, <1>9, <2>1, <2>2
    <2>3. CASE i # m - 1
        <3>0. i \in 1 .. m - 2 /\ i \in 1 .. m - 1 /\ fs[i] = frames[i]
            BY <1>1, <1>5, <2>1, <2>3
        <3>1. /\ frames[i].kind = "native" /\ frames[i].clean /\ m - 1 \in i + 1 .. m
            BY <1>1, <2>1, <3>0
        <3>2. /\ frames[i].top = frames[i].base /\ frames[i].base < Len(frames[i].below)
              /\ \A j \in i + 1 .. m : frames[j].kind = "native" =>
                    i + 1 < j /\ frames[j].clean /\ frames[i + 1].top < frames[j].top
            BY <1>1, <2>0, <3>0, <3>1, Outer
        <3>3. caller.clean
            BY <1>3, <3>1, <3>2
        <3>4. Over(frames[m - 1].below, stack')
            BY <1>3, <1>8, <1>9, <3>3
        <3>5. Over(frames[i].below, stack') /\ Called(frames[i], frames[i + 1], stack')
            BY <1>3, <1>7, <1>9, <3>0, <3>1, <3>4, CallersKept
        <3>6. i + 1 \in 1 .. m - 2 /\ fs[i + 1] = frames[i + 1]
            <4>1. i + 1 < m - 1
                BY <1>3, <3>1, <3>2
            <4>2. i + 1 \in 1 .. m - 2
                BY <1>1, <3>0, <4>1
            <4> QED
                BY <1>5, <4>2
        <3>7. ASSUME NEW j \in i + 1 .. m - 1, fs[j].kind = "native"
              PROVE  fs[j].clean /\ fs[i + 1].top < fs[j].top
            <4>1. CASE j = m - 1
                BY <1>3, <1>4, <1>5, <3>1, <3>2, <3>6, <4>1
            <4>2. CASE j # m - 1
                <5>1. j \in i + 1 .. m /\ j \in 1 .. m - 2
                    BY <1>1, <3>0, <4>2
                <5>2. fs[j] = frames[j]
                    BY <1>5, <5>1
                <5> QED
                    BY <3>2, <3>6, <3>7, <5>1, <5>2
            <4> QED
                BY <4>1, <4>2
        <3> QED
            BY <2>3, <3>0, <3>2, <3>5, <3>6, <3>7
    <2> QED
        BY <2>2, <2>3
<1>10. slot' \in [Names -> {"none", "script", "ours"}]
    BY <1>0, FramesFacts
<1> QED
    BY <1>0, <1>6, <1>7, <1>9, <1>10, GameKeepsInv

\* A script of the game defines a name.
LEMMA DefinitionKeepsInv ==
    ASSUME IInv, NEW n \in Names, ScriptDefines(n)
    PROVE  IInv'
<1>1. /\ Game(frames) /\ stack' = stack /\ slot' = [slot EXCEPT ![n] = "script"]
    BY DEF ScriptDefines
<1>2. slot' \in [Names -> {"none", "script", "ours"}]
    BY <1>1, FramesFacts
<1> QED
    BY <1>1, <1>2, FramesFacts, GameKeepsInv

-----------------------------------------------------------------------------
(* The steps of a native between its call and its return.                  *)

NativeSteps == {"select", "count", "mark", "name", "get", "env", "args", "called",
                "remove", "check", "drop", "zero", "return"}

\* The native on top, when no step has straddled it and none is about to.
LEMMA NativeFacts ==
    ASSUME IInv, Cur.kind = "native"
    PROVE  /\ Cur \in NativeFrames /\ stack \in Seq(Values) /\ Len(stack) \in Nat
           /\ Cur.below \in Seq(Values) /\ Len(Cur.below) \in Nat /\ Cur.base \in Nat
           /\ Cur.first \in {3, 4} /\ Cur.count \in Nat /\ Cur.sent \in Nat
           /\ Cur.old \in Int /\ Cur.top \in Nat
           /\ ~UnderWay /\ Cur.clean =>
                 /\ Cur.base < Len(Cur.below) /\ Over(Cur.below, stack)
                 /\ Running(Cur, stack)
<1>1. /\ Len(frames) \in DOMAIN frames /\ Cur = frames[Len(frames)]
      /\ Cur \in NativeFrames /\ stack \in Seq(Values)
      /\ ~UnderWay => Sound(frames, stack)
    BY FramesFacts
<1>2. ~UnderWay /\ Cur.clean =>
         Cur.base < Len(Cur.below) /\ Over(Cur.below, stack) /\ Running(Cur, stack)
    BY <1>1 DEF Sound
<1> QED
    BY <1>1, <1>2 DEF NativeFrames

\* The native goes on to another step.
LEMMA GotoKeepsInv ==
    ASSUME IInv, Cur.kind = "native", NEW p \in NativeSteps, Goto(p),
           stack' \in Seq(Values), UNCHANGED slot,
           ~UnderWay /\ Cur.clean => /\ Over(Cur.below, stack')
                                    /\ Running([Cur EXCEPT !.pc = p], stack')
    PROVE  IInv'
<1> DEFINE f == [Cur EXCEPT !.pc = p]
<1>1. /\ f \in NativeFrames /\ f.base = Cur.base /\ f.top = Cur.top
      /\ f.below = Cur.below /\ f.clean = Cur.clean
    BY NativeFacts DEF NativeFrames, NativeSteps
<1>2. Game(Append(Front(frames), f))
    BY DEF Goto, Become
<1> HIDE DEF f
<1>3. ~UnderWay /\ Cur.clean => Over(f.below, stack') /\ Running(f, stack')
    BY <1>1 DEF f
<1> QED
    BY <1>1, <1>2, <1>3, NativeKeepsInv

\* What the conditions on a native say of it when it goes on to step p.
LEMMA Moved ==
    ASSUME NEW f \in NativeFrames, NEW p \in NativeSteps
    PROVE  LET g == [f EXCEPT !.pc = p]
           IN  /\ g.pc = p /\ g.below = f.below /\ g.base = f.base
               /\ g.first = f.first /\ g.count = f.count /\ g.sent = f.sent
               /\ g.old = f.old /\ g.returned = f.returned
BY DEF NativeFrames

LEMMA SelectKeepsInv ==
    ASSUME IInv, Select
    PROVE  IInv'
<1>1. PICK p \in {"count", "zero"} : Goto(p)
    BY DEF Select
<1>2. Cur.kind = "native" /\ Cur.pc = "select" /\ stack' = stack /\ slot' = slot
    BY DEF Select, At
<1> DEFINE f == [Cur EXCEPT !.pc = p]
<1>3. p \in NativeSteps
    BY DEF NativeSteps
<1>4. /\ f.pc = p /\ f.below = Cur.below /\ f.sent = Cur.sent
      /\ f.returned = Cur.returned
    BY <1>2, <1>3, NativeFacts, Moved
<1> HIDE DEF f
<1>5. ~UnderWay /\ Cur.clean => Over(Cur.below, stack') /\ Running(f, stack')
    BY <1>2, <1>4, NativeFacts DEF Running
<1> QED
    BY <1>1, <1>2, <1>3, <1>5, NativeFacts, GotoKeepsInv DEF f

LEMMA CountKeepsInv ==
    ASSUME IInv, CountArguments
    PROVE  IInv'
<1>1. Cur.kind = "native" /\ Cur.pc = "count" /\ stack' = stack /\ slot' = slot
    BY DEF CountArguments, At
<1>2. GetTop = Len(stack) - Cur.base /\ GetTop \in Int
    BY <1>1, NativeFacts DEF GetTop, Base
<1>3. CASE GetTop < Cur.first - 1
    <2> DEFINE f == [Cur EXCEPT !.pc = "zero"]
    <2>1. Goto("zero") /\ "zero" \in NativeSteps
        BY <1>3 DEF CountArguments, NativeSteps
    <2>2. f.pc = "zero" /\ f.below = Cur.below /\ f.returned = Cur.returned
        BY <1>1, <2>1, NativeFacts, Moved
    <2> HIDE DEF f
    <2>3. ~UnderWay /\ Cur.clean => Over(Cur.below, stack') /\ Running(f, stack')
        BY <1>1, <2>2, NativeFacts DEF Running
    <2> QED
        BY <1>1, <2>1, <2>3, NativeFacts, GotoKeepsInv DEF f
<1>4. CASE ~(GetTop < Cur.first - 1)
    <2> DEFINE c == IF GetTop >= Cur.first THEN GetTop - Cur.first + 1 ELSE 0
               f == [Cur EXCEPT !.pc = "mark", !.count = c]
    <2>1. Game(Append(Front(frames), f))
        BY <1>4 DEF CountArguments, Become
    <2>2. c \in Nat /\ c = GetTop - Cur.first + 1
        BY <1>1, <1>2, <1>4, NativeFacts
    <2> HIDE DEF c
    <2>3. /\ f \in NativeFrames /\ f.base = Cur.base /\ f.top = Cur.top
          /\ f.below = Cur.below /\ f.clean = Cur.clean /\ f.pc = "mark"
          /\ f.count = c /\ f.sent = Cur.sent /\ f.returned = Cur.returned
          /\ f.first = Cur.first
        BY <1>1, <2>2, NativeFacts DEF NativeFrames
    <2> HIDE DEF f
    <2>4. ~UnderWay /\ Cur.clean => Over(f.below, stack') /\ Running(f, stack')
        <3>1. SUFFICES ASSUME ~UnderWay, Cur.clean
                       PROVE  Over(f.below, stack') /\ Running(f, stack')
            OBVIOUS
        <3>2. /\ Over(Cur.below, stack) /\ Len(stack) = Len(Cur.below)
              /\ Cur.sent = 0 /\ ~Cur.returned
            BY <1>1, <3>1, NativeFacts DEF Running
        <3>3. f.count = Forwards(f)
            BY <1>2, <2>2, <2>3, <3>2 DEF Forwards
        <3> QED
            BY <1>1, <2>3, <3>2, <3>3 DEF Running
    <2> QED
        BY <1>1, <2>1, <2>3, <2>4, NativeFacts, NativeKeepsInv
<1> QED
    BY <1>3, <1>4

LEMMA MarkKeepsInv ==
    ASSUME IInv, MarkTop
    PROVE  IInv'
<1> DEFINE f == [Cur EXCEPT !.pc = "name", !.old = GetTop]
<1>1. /\ Cur.kind = "native" /\ Cur.pc = "mark" /\ stack' = stack /\ slot' = slot
      /\ Game(Append(Front(frames), f))
    BY DEF MarkTop, At, Become
<1>2. GetTop = Len(stack) - Cur.base /\ GetTop \in Int
    BY <1>1, NativeFacts DEF GetTop, Base
<1>3. /\ f \in NativeFrames /\ f.base = Cur.base /\ f.top = Cur.top
      /\ f.below = Cur.below /\ f.clean = Cur.clean /\ f.pc = "name"
      /\ f.count = Cur.count /\ f.sent = Cur.sent /\ f.returned = Cur.returned
      /\ f.first = Cur.first /\ f.old = GetTop
    BY <1>1, <1>2, NativeFacts DEF NativeFrames
<1> HIDE DEF f
<1>4. ~UnderWay /\ Cur.clean => Over(f.below, stack') /\ Running(f, stack')
    BY <1>1, <1>2, <1>3, NativeFacts DEF Running, Forwards
<1> QED
    BY <1>1, <1>3, <1>4, NativeFacts, NativeKeepsInv

LEMMA NameKeepsInv ==
    ASSUME IInv, PushName
    PROVE  IInv'
<1> DEFINE f == [Cur EXCEPT !.pc = "get"]
<1>1. /\ Cur.kind = "native" /\ Cur.pc = "name" /\ slot' = slot /\ Goto("get")
      /\ stack' = Append(stack, "name")
    BY DEF PushName, At, Push
<1>2. /\ stack' \in Seq(Values) /\ Over(stack, stack') /\ Len(stack') = Len(stack) + 1
    BY <1>1, NativeFacts, PushedOne DEF Values, Selectors
<1>3. "get" \in NativeSteps
    BY DEF NativeSteps
<1>4. /\ f.pc = "get" /\ f.below = Cur.below /\ f.base = Cur.base /\ f.first = Cur.first
      /\ f.count = Cur.count /\ f.sent = Cur.sent /\ f.old = Cur.old
      /\ f.returned = Cur.returned
    BY <1>1, <1>3, NativeFacts, Moved
<1> HIDE DEF f
<1>5. ~UnderWay /\ Cur.clean => Over(Cur.below, stack') /\ Running(f, stack')
    <2>1. SUFFICES ASSUME ~UnderWay, Cur.clean
                   PROVE  Over(Cur.below, stack') /\ Running(f, stack')
        OBVIOUS
    <2>2. Over(Cur.below, stack')
        BY <1>1, <1>2, <2>1, NativeFacts DEF Over
    <2>3. Running(f, stack')
        BY <1>1, <1>2, <1>4, <2>1, NativeFacts DEF Running, Forwards
    <2> QED
        BY <2>2, <2>3
<1> QED
    BY <1>1, <1>2, <1>3, <1>5, GotoKeepsInv DEF f

\* The part of the stack under n stays when the top comes down to n or more.
LEMMA StillOver ==
    ASSUME NEW b \in Seq(Values), NEW s \in Seq(Values), NEW t \in Seq(Values),
           Over(b, s), Len(b) <= Len(t),
           \A k \in 1 .. Len(b) : t[k] = s[k]
    PROVE  Over(b, t)
BY DEF Over

LEMMA OverBoth ==
    ASSUME NEW b \in Seq(Values), NEW s \in Seq(Values), NEW t \in Seq(Values),
           Over(b, s), Over(s, t)
    PROVE  Over(b, t)
<1>1. Len(b) \in Nat /\ Len(s) \in Nat /\ Len(t) \in Nat
    OBVIOUS
<1> QED
    BY <1>1 DEF Over

LEMMA GetKeepsInv ==
    ASSUME IInv, GetFunction
    PROVE  IInv'
<1>1. Cur.kind = "native" /\ Cur.pc = "get" /\ slot' = slot
    BY DEF GetFunction, At
<1>2. PICK found \in BOOLEAN : /\ Got(found, "function")
                              /\ Goto(IF found THEN "env" ELSE "drop")
    BY DEF GetFunction
<1> DEFINE p == IF found THEN "env" ELSE "drop"
           f == [Cur EXCEPT !.pc = p]
<1>3. p \in NativeSteps
    BY DEF NativeSteps
<1>4. /\ f.pc = p /\ f.below = Cur.below /\ f.base = Cur.base /\ f.first = Cur.first
      /\ f.count = Cur.count /\ f.sent = Cur.sent /\ f.old = Cur.old
      /\ f.returned = Cur.returned
    <2> HIDE DEF p
    <2> QED
        BY <1>1, <1>3, NativeFacts, Moved
<1> HIDE DEF f
<1> DEFINE u == Popped(1)
<1>5. /\ u \in Seq(Values)
      /\ 1 <= Len(stack) => /\ Len(u) = Len(stack) - 1
                            /\ \A k \in 1 .. Len(stack) - 1 : u[k] = stack[k]
    BY <1>1, NativeFacts, PoppedStack
<1>6. /\ stack' = IF found THEN Append(u, "function") ELSE u
      /\ "function" \in Values
    BY <1>2 DEF Got, Values
<1> HIDE DEF u
<1>7. /\ stack' \in Seq(Values) /\ Over(u, stack')
      /\ found => Len(stack') = Len(u) + 1
    BY <1>5, <1>6, PushedOne DEF Over
<1>8. ~UnderWay /\ Cur.clean => Over(Cur.below, stack') /\ Running(f, stack')
    <2>1. SUFFICES ASSUME ~UnderWay, Cur.clean
                   PROVE  Over(Cur.below, stack') /\ Running(f, stack')
        OBVIOUS
    <2>2. /\ Over(Cur.below, stack) /\ Running(Cur, stack)
          /\ Cur.below \in Seq(Values) /\ Len(Cur.below) \in Nat /\ stack \in Seq(Values)
        BY <1>1, <2>1, NativeFacts
    <2>3. Len(stack) = Len(Cur.below) + 1
        BY <1>1, <2>2 DEF Running
    <2>4. /\ Len(u) = Len(Cur.below)
          /\ \A k \in 1 .. Len(Cur.below) : u[k] = stack[k]
        BY <1>5, <2>2, <2>3
    <2>5. Over(Cur.below, u)
        BY <1>5, <2>2, <2>4, StillOver
    <2>6. Over(Cur.below, stack')
        BY <1>5, <1>7, <2>2, <2>5, OverBoth
    <2>7. found => Len(stack') = Len(Cur.below) + 1
        BY <1>7, <2>4
    <2>8. Running(f, stack')
        BY <1>1, <1>4, <2>2, <2>7 DEF Running, Forwards
    <2> QED
        BY <2>6, <2>8
<1> QED
    <2>1. Goto(p)
        BY <1>2
    <2> HIDE DEF p
    <2> QED
        BY <1>1, <1>3, <1>7, <1>8, <2>1, GotoKeepsInv DEF f

LEMMA EnvironmentKeepsInv ==
    ASSUME IInv, PushEnvironment
    PROVE  IInv'
<1> DEFINE f == [Cur EXCEPT !.pc = "args"]
           n == Len(Cur.below)
<1>1. /\ Cur.kind = "native" /\ Cur.pc = "env" /\ slot' = slot /\ Goto("args")
      /\ stack' = Append(stack, Peek(1))
    BY DEF PushEnvironment, At, Push
<1>2. /\ stack' \in Seq(Values) /\ Over(stack, stack') /\ Len(stack') = Len(stack) + 1
      /\ stack'[Len(stack) + 1] = Peek(1)
    BY <1>1, NativeFacts, PeekType, PushedOne
<1>3. "args" \in NativeSteps
    BY DEF NativeSteps
<1>4. /\ f.pc = "args" /\ f.below = Cur.below /\ f.base = Cur.base /\ f.first = Cur.first
      /\ f.count = Cur.count /\ f.sent = Cur.sent /\ f.old = Cur.old
      /\ f.returned = Cur.returned
    BY <1>1, <1>3, NativeFacts, Moved
<1> HIDE DEF f
<1>5. ~UnderWay /\ Cur.clean => Over(Cur.below, stack') /\ Running(f, stack')
    <2>1. SUFFICES ASSUME ~UnderWay, Cur.clean
                   PROVE  Over(Cur.below, stack') /\ Running(f, stack')
        OBVIOUS
    <2>2. /\ Over(Cur.below, stack) /\ Running(Cur, stack) /\ Cur.base < n
          /\ Cur.base \in Nat /\ n \in Nat /\ Cur.count \in Nat
          /\ Cur.below \in Seq(Values) /\ stack \in Seq(Values)
        BY <1>1, <2>1, NativeFacts
    <2>3. /\ Len(stack) = n + 1 /\ Cur.sent = 0 /\ Cur.count = Forwards(Cur)
          /\ Cur.old = n - Cur.base /\ ~Cur.returned
        BY <1>1, <2>2 DEF Running
    <2>4. Over(Cur.below, stack')
        BY <1>2, <2>2, OverBoth
    <2>5. Peek(1) = Cur.below[Cur.base + 1]
        <3>1. Cur.base + 1 \in 1 .. n /\ Cur.base + 1 \in 1 .. Len(stack)
            BY <2>2, <2>3
        <3>2. Peek(1) = stack[Cur.base + 1]
            BY <3>1 DEF Peek, Base
        <3> QED
            BY <2>2, <3>1, <3>2 DEF Over
    <2>6. Given(f, stack', 0)
        BY <1>2, <1>4, <2>2, <2>3, <2>5 DEF Given
    <2>7. /\ f.sent <= f.count /\ Len(stack') = n + 2 + f.sent
          /\ Given(f, stack', f.sent) /\ f.count = Forwards(f)
          /\ f.old = n - f.base /\ ~f.returned
        BY <1>2, <1>4, <2>2, <2>3, <2>6 DEF Forwards
    <2>8. Running(f, stack')
        BY <1>4, <2>7 DEF Running
    <2> QED
        BY <2>4, <2>8
<1> QED
    BY <1>1, <1>2, <1>3, <1>5, GotoKeepsInv DEF f

LEMMA ArgumentKeepsInv ==
    ASSUME IInv, PushArgument
    PROVE  IInv'
<1> DEFINE c == Cur.sent + 1
           f == [Cur EXCEPT !.sent = c]
           n == Len(Cur.below)
<1>1. /\ Cur.kind = "native" /\ Cur.pc = "args" /\ Cur.sent < Cur.count /\ slot' = slot
      /\ stack' = Append(stack, Argument) /\ Game(Append(Front(frames), f))
    BY DEF PushArgument, At, Push, Become
<1>2. /\ stack' \in Seq(Values) /\ Over(stack, stack') /\ Len(stack') = Len(stack) + 1
      /\ stack'[Len(stack) + 1] = Argument
    BY <1>1, NativeFacts, PeekType, PushedOne DEF Argument
<1>3. /\ f \in NativeFrames /\ f.base = Cur.base /\ f.top = Cur.top
      /\ f.below = Cur.below /\ f.clean = Cur.clean /\ f.pc = "args"
      /\ f.count = Cur.count /\ f.sent = Cur.sent + 1 /\ f.returned = Cur.returned
      /\ f.first = Cur.first /\ f.old = Cur.old
    <2>1. c \in Nat
        BY <1>1, NativeFacts
    <2> HIDE DEF c
    <2>2. /\ f \in NativeFrames /\ f.base = Cur.base /\ f.top = Cur.top
          /\ f.below = Cur.below /\ f.clean = Cur.clean /\ f.pc = "args"
          /\ f.count = Cur.count /\ f.sent = c /\ f.returned = Cur.returned
          /\ f.first = Cur.first /\ f.old = Cur.old
        BY <1>1, <2>1, NativeFacts DEF NativeFrames
    <2> QED
        BY <2>2 DEF c
<1> HIDE DEF f
<1>4. ~UnderWay /\ Cur.clean => Over(f.below, stack') /\ Running(f, stack')
    <2>1. SUFFICES ASSUME ~UnderWay, Cur.clean
                   PROVE  Over(f.below, stack') /\ Running(f, stack')
        OBVIOUS
    <2>2. /\ Over(Cur.below, stack) /\ Running(Cur, stack) /\ Cur.base < n
          /\ Cur.base \in Nat /\ n \in Nat /\ Cur.count \in Nat /\ Cur.sent \in Nat
          /\ Cur.below \in Seq(Values) /\ stack \in Seq(Values) /\ Cur.first \in {3, 4}
        BY <1>1, <2>1, NativeFacts
    <2>3. /\ Len(stack) = n + 2 + Cur.sent /\ Cur.count = Forwards(Cur)
          /\ Given(Cur, stack, Cur.sent)
          /\ Cur.old = n - Cur.base /\ ~Cur.returned
        BY <1>1, <2>2 DEF Running
    <2>4. Over(Cur.below, stack')
        BY <1>2, <2>2, OverBoth
    <2>5. Argument = Cur.below[Cur.base + Cur.first + Cur.sent]
        <3>0. Cur.sent < n - Cur.base - Cur.first + 1 /\ Cur.first \in Nat \ {0}
            BY <1>1, <2>2, <2>3 DEF Forwards
        <3> HIDE DEF n
        <3>1. /\ Cur.base + (Cur.first + Cur.sent) \in 1 .. n
              /\ Cur.base + (Cur.first + Cur.sent) \in 1 .. Len(stack)
              /\ ~(Cur.first + Cur.sent < 0)
            <4> DEFINE b == Cur.base
                       a == Cur.first
                       t == Cur.sent
            <4>1. /\ b \in Nat /\ a \in Nat \ {0} /\ t \in Nat /\ n \in Nat
                  /\ t < n - b - a + 1 /\ Len(stack) = n + 2 + t
                BY <2>2, <2>3, <3>0
            <4> HIDE DEF b, a, t
            <4>2. b + (a + t) \in 1 .. n /\ b + (a + t) \in 1 .. Len(stack) /\ ~(a + t < 0)
                BY <4>1
            <4> QED
                BY <4>2 DEF b, a, t
        <3>2. Argument = stack[Cur.base + (Cur.first + Cur.sent)]
            BY <3>1 DEF Argument, Peek, Base
        <3>3. Cur.base + (Cur.first + Cur.sent) = Cur.base + Cur.first + Cur.sent
            BY <2>2
        <3> QED
            <4>1. stack[Cur.base + (Cur.first + Cur.sent)]
                        = Cur.below[Cur.base + (Cur.first + Cur.sent)]
                BY <2>2, <3>1 DEF Over, n
            <4> QED
                BY <3>2, <3>3, <4>1
    <2>6. Given(f, stack', Cur.sent + 1)
        <3>1. stack'[n + 2] = Cur.below[Cur.base + 1]
            <4>1. n + 2 \in 1 .. Len(stack) /\ stack[n + 2] = Cur.below[Cur.base + 1]
                BY <2>2, <2>3 DEF Given
            <4> QED
                BY <1>2, <4>1 DEF Over
        <3>2. ASSUME NEW k \in 1 .. Cur.sent + 1
              PROVE  stack'[n + 2 + k] = Cur.below[Cur.base + Cur.first + k - 1]
            <4>1. CASE k = Cur.sent + 1
                <5>1. n + 2 + k = Len(stack) + 1
                    <6> HIDE DEF n
                    <6> QED
                        BY <2>2, <2>3, <4>1
                <5>2. Cur.base + Cur.first + k - 1 = Cur.base + Cur.first + Cur.sent
                    BY <2>2, <4>1
                <5> QED
                    BY <1>2, <2>5, <5>1, <5>2
            <4>2. CASE k # Cur.sent + 1
                <5>1. k \in 1 .. Cur.sent /\ n + 2 + k \in 1 .. Len(stack)
                    BY <2>2, <2>3, <4>2
                <5>2. stack[n + 2 + k] = Cur.below[Cur.base + Cur.first + k - 1]
                    BY <2>3, <5>1 DEF Given
                <5> QED
                    BY <1>2, <5>1, <5>2 DEF Over
            <4> QED
                BY <4>1, <4>2
        <3>3. n + 2 + (Cur.sent + 1) <= Len(stack')
            BY <1>2, <2>2, <2>3
        <3> QED
            BY <1>3, <3>1, <3>2, <3>3 DEF Given
    <2>7. /\ f.sent <= f.count /\ Len(stack') = n + 2 + f.sent
          /\ Given(f, stack', f.sent) /\ f.count = Forwards(f)
          /\ f.old = n - f.base /\ ~f.returned
        <3>1. /\ f.sent <= f.count /\ Len(stack') = n + 2 + f.sent
              /\ f.old = n - f.base /\ ~f.returned
            <4> HIDE DEF n
            <4> QED
                BY <1>1, <1>2, <1>3, <2>2, <2>3
        <3>2. f.count = Forwards(f)
            BY <1>3, <2>3 DEF Forwards
        <3> QED
            BY <1>3, <2>6, <3>1, <3>2
    <2>8. Running(f, stack')
        BY <1>3, <2>7 DEF Running
    <2> QED
        BY <1>3, <2>4, <2>8
<1> QED
    BY <1>1, <1>2, <1>3, <1>4, NativeFacts, NativeKeepsInv

LEMMA FailureKeepsInv ==
    ASSUME IInv, CallFails
    PROVE  IInv'
<1> DEFINE f == [Cur EXCEPT !.pc = "drop"]
           n == Len(Cur.below)
           h == Cur.count + 1
<1>1. /\ Cur.kind = "native" /\ Cur.pc = "args" /\ Cur.sent = Cur.count
      /\ slot' = slot /\ Goto("drop") /\ stack' = Popped(h)
    BY DEF CallFails, At, Params
<1>2. h \in Nat
    BY <1>1, NativeFacts
<1> HIDE DEF h
<1>3. /\ stack' \in Seq(Values)
      /\ h <= Len(stack) =>
            /\ Len(stack') = Len(stack) - h
            /\ \A k \in 1 .. Len(stack) - h : stack'[k] = stack[k]
    BY <1>1, <1>2, NativeFacts, PoppedStack
<1>4. "drop" \in NativeSteps
    BY DEF NativeSteps
<1>5. /\ f.pc = "drop" /\ f.below = Cur.below /\ f.base = Cur.base
      /\ f.old = Cur.old /\ f.returned = Cur.returned
    BY <1>1, <1>4, NativeFacts, Moved
<1> HIDE DEF f
<1>6. ~UnderWay /\ Cur.clean => Over(Cur.below, stack') /\ Running(f, stack')
    <2>1. SUFFICES ASSUME ~UnderWay, Cur.clean
                   PROVE  Over(Cur.below, stack') /\ Running(f, stack')
        OBVIOUS
    <2>2. /\ Over(Cur.below, stack) /\ Running(Cur, stack) /\ Cur.count \in Nat
          /\ n \in Nat /\ Cur.below \in Seq(Values) /\ stack \in Seq(Values)
        BY <1>1, <2>1, NativeFacts
    <2>3. /\ Len(stack) = n + 2 + Cur.count
          /\ Cur.old = n - Cur.base /\ ~Cur.returned
        BY <1>1, <2>2 DEF Running
    <2>4. /\ Len(stack') = n + 1 /\ \A k \in 1 .. n : stack'[k] = stack[k]
        <3> HIDE DEF n
        <3>1. h <= Len(stack) /\ Len(stack) - h = n + 1
            BY <2>2, <2>3 DEF h
        <3> QED
            BY <1>3, <2>2, <3>1
    <2>5. Over(Cur.below, stack')
        BY <1>3, <2>2, <2>4, StillOver
    <2>6. Running(f, stack')
        BY <1>5, <2>3 DEF Running
    <2> QED
        BY <2>5, <2>6
<1> QED
    BY <1>1, <1>3, <1>4, <1>6, GotoKeepsInv DEF f

LEMMA RemovalKeepsInv ==
    ASSUME IInv, RemoveFunction
    PROVE  IInv'
<1> DEFINE f == [Cur EXCEPT !.pc = "check"]
           n == Len(Cur.below)
           u == Popped(2)
<1>1. /\ Cur.kind = "native" /\ Cur.pc = "remove" /\ slot' = slot /\ Goto("check")
      /\ stack' = IF Len(stack) > 1 THEN Append(u, Peek(-1)) ELSE << >>
    BY DEF RemoveFunction, At, FunctionRemoved
<1>2. /\ u \in Seq(Values)
      /\ 2 <= Len(stack) => /\ Len(u) = Len(stack) - 2
                            /\ \A k \in 1 .. Len(stack) - 2 : u[k] = stack[k]
    BY <1>1, NativeFacts, PoppedStack
<1> HIDE DEF u
<1>3. /\ stack' \in Seq(Values)
      /\ Len(stack) > 1 => /\ Over(u, stack') /\ Len(stack') = Len(u) + 1
                           /\ stack'[Len(u) + 1] = Peek(-1)
    BY <1>1, <1>2, NativeFacts, PeekType, PushedOne, EmptySeq
<1>4. "check" \in NativeSteps
    BY DEF NativeSteps
<1>5. /\ f.pc = "check" /\ f.below = Cur.below /\ f.base = Cur.base
      /\ f.old = Cur.old /\ f.returned = Cur.returned
    BY <1>1, <1>4, NativeFacts, Moved
<1> HIDE DEF f
<1>6. ~UnderWay /\ Cur.clean => Over(Cur.below, stack') /\ Running(f, stack')
    <2>1. SUFFICES ASSUME ~UnderWay, Cur.clean
                   PROVE  Over(Cur.below, stack') /\ Running(f, stack')
        OBVIOUS
    <2>2. /\ Over(Cur.below, stack) /\ Running(Cur, stack) /\ n \in Nat
          /\ Cur.below \in Seq(Values) /\ stack \in Seq(Values)
        BY <1>1, <2>1, NativeFacts
    <2>3. /\ Len(stack) = n + 2 /\ stack[n + 2] = "result"
          /\ Cur.old = n - Cur.base /\ Cur.returned
        BY <1>1, <2>2 DEF Running
    <2>4. Len(stack) > 1 /\ Len(u) = n /\ \A k \in 1 .. n : u[k] = stack[k]
        <3> HIDE DEF n
        <3>1. Len(stack) > 1 /\ 2 <= Len(stack) /\ Len(stack) - 2 = n
            BY <2>2, <2>3
        <3> QED
            BY <1>2, <3>1
    <2>5. Over(Cur.below, u)
        BY <1>2, <2>2, <2>4, StillOver
    <2>6. Over(Cur.below, stack')
        BY <1>2, <1>3, <2>2, <2>4, <2>5, OverBoth
    <2>7. Peek(-1) = "result"
        <3> HIDE DEF n
        <3>1. Len(stack) + 1 + (-1) = n + 2 /\ n + 2 \in 1 .. Len(stack) /\ -1 < 0
            BY <2>2, <2>3
        <3> QED
            BY <2>3, <3>1 DEF Peek
    <2>8. Len(stack') = n + 1 /\ stack'[n + 1] = "result"
        BY <1>3, <2>4, <2>7
    <2>9. Running(f, stack')
        BY <1>5, <2>3, <2>8 DEF Running
    <2> QED
        BY <2>6, <2>9
<1> QED
    BY <1>1, <1>3, <1>4, <1>6, GotoKeepsInv DEF f

LEMMA CheckKeepsInv ==
    ASSUME IInv, CheckTop
    PROVE  IInv'
<1>1. /\ Cur.kind = "native" /\ Cur.pc = "check" /\ stack' = stack /\ slot' = slot
    BY DEF CheckTop, At
<1> DEFINE p == IF GetTop = Cur.old + 1 THEN "return" ELSE "drop"
           f == [Cur EXCEPT !.pc = p]
           n == Len(Cur.below)
<1>2. Goto(p) /\ p \in NativeSteps
    BY DEF CheckTop, NativeSteps
<1>3. /\ f.pc = p /\ f.below = Cur.below /\ f.base = Cur.base
      /\ f.old = Cur.old /\ f.returned = Cur.returned
    <2> HIDE DEF p
    <2> QED
        BY <1>1, <1>2, NativeFacts, Moved
<1> HIDE DEF f
<1>4. ~UnderWay /\ Cur.clean => Over(Cur.below, stack') /\ Running(f, stack')
    <2>1. SUFFICES ASSUME ~UnderWay, Cur.clean
                   PROVE  Over(Cur.below, stack') /\ Running(f, stack')
        OBVIOUS
    <2>2. /\ Over(Cur.below, stack) /\ Running(Cur, stack) /\ n \in Nat
          /\ Cur.base \in Nat
        BY <1>1, <2>1, NativeFacts
    <2>3. /\ Len(stack) = n + 1 /\ stack[n + 1] = "result"
          /\ Cur.old = n - Cur.base /\ Cur.returned
        BY <1>1, <2>2 DEF Running
    <2>4. p = "return"
        <3> HIDE DEF n
        <3>1. GetTop = Cur.old + 1
            BY <2>2, <2>3 DEF GetTop, Base
        <3> QED
            BY <3>1
    <2>5. Running(f, stack')
        BY <1>1, <1>3, <2>3, <2>4 DEF Running
    <2> QED
        BY <1>1, <2>2, <2>5
<1> QED
    <2> HIDE DEF p
    <2> QED
        BY <1>1, <1>2, <1>4, NativeFacts, GotoKeepsInv DEF f

LEMMA DropKeepsInv ==
    ASSUME IInv, Drop
    PROVE  IInv'
<1> DEFINE f == [Cur EXCEPT !.pc = "zero"]
           n == Len(Cur.below)
           h == Cur.base + Cur.old
<1>1. /\ Cur.kind = "native" /\ Cur.pc = "drop" /\ slot' = slot /\ Goto("zero")
      /\ stack' = Resized(h, "null")
    BY DEF Drop, At, SetTop, Mark, Base
<1>2. h \in Int
    BY <1>1, NativeFacts
<1> HIDE DEF h
<1>3. /\ stack' \in Seq(Values)
      /\ h \in 0 .. Len(stack) =>
            Len(stack') = h /\ \A k \in 1 .. h : stack'[k] = stack[k]
    BY <1>1, <1>2, NativeFacts, ResizedStack DEF Values
<1>4. "zero" \in NativeSteps
    BY DEF NativeSteps
<1>5. f.pc = "zero" /\ f.below = Cur.below /\ f.returned = Cur.returned
    BY <1>1, <1>4, NativeFacts, Moved
<1> HIDE DEF f
<1>6. ~UnderWay /\ Cur.clean => Over(Cur.below, stack') /\ Running(f, stack')
    <2>1. SUFFICES ASSUME ~UnderWay, Cur.clean
                   PROVE  Over(Cur.below, stack') /\ Running(f, stack')
        OBVIOUS
    <2>2. /\ Over(Cur.below, stack) /\ Running(Cur, stack) /\ n \in Nat
          /\ Cur.base \in Nat /\ Cur.below \in Seq(Values) /\ stack \in Seq(Values)
        BY <1>1, <2>1, NativeFacts
    <2>3. Cur.old = n - Cur.base /\ ~Cur.returned
        BY <1>1, <2>2 DEF Running
    <2>4. h = n /\ h \in 0 .. Len(stack)
        <3>1. n <= Len(stack)
            BY <2>2 DEF Over
        <3> HIDE DEF n
        <3> QED
            BY <2>2, <2>3, <3>1 DEF h
    <2>5. Over(Cur.below, stack')
        BY <1>3, <2>2, <2>4, StillOver
    <2>6. Running(f, stack')
        BY <1>3, <1>5, <2>3, <2>4 DEF Running
    <2> QED
        BY <2>5, <2>6
<1> QED
    BY <1>1, <1>3, <1>4, <1>6, GotoKeepsInv DEF f

LEMMA ZeroKeepsInv ==
    ASSUME IInv, PushZero
    PROVE  IInv'
<1> DEFINE f == [Cur EXCEPT !.pc = "return"]
<1>1. /\ Cur.kind = "native" /\ Cur.pc = "zero" /\ slot' = slot /\ Goto("return")
      /\ stack' = Append(stack, "zero")
    BY DEF PushZero, At, Push
<1>2. /\ stack' \in Seq(Values) /\ Over(stack, stack') /\ Len(stack') = Len(stack) + 1
      /\ stack'[Len(stack) + 1] = "zero"
    BY <1>1, NativeFacts, PushedOne DEF Values
<1>3. "return" \in NativeSteps
    BY DEF NativeSteps
<1>4. f.pc = "return" /\ f.below = Cur.below /\ f.returned = Cur.returned
    BY <1>1, <1>3, NativeFacts, Moved
<1> HIDE DEF f
<1>5. ~UnderWay /\ Cur.clean => Over(Cur.below, stack') /\ Running(f, stack')
    <2>1. SUFFICES ASSUME ~UnderWay, Cur.clean
                   PROVE  Over(Cur.below, stack') /\ Running(f, stack')
        OBVIOUS
    <2>2. /\ Over(Cur.below, stack) /\ Running(Cur, stack)
          /\ Cur.below \in Seq(Values) /\ stack \in Seq(Values)
        BY <1>1, <2>1, NativeFacts
    <2>3. Len(stack) = Len(Cur.below) /\ ~Cur.returned
        BY <1>1, <2>2 DEF Running
    <2>4. Over(Cur.below, stack')
        BY <1>2, <2>2, OverBoth
    <2>5. Running(f, stack')
        BY <1>2, <1>4, <2>3 DEF Running
    <2> QED
        BY <2>4, <2>5
<1> QED
    BY <1>1, <1>2, <1>3, <1>5, GotoKeepsInv DEF f

-----------------------------------------------------------------------------
(* The worker's operations.                                                *)

\* An operation goes on: the activations and what lies under it are the same.
LEMMA OperationKeepsInv ==
    ASSUME IInv, UnderWay, NEW w \in Operations, Work(w), w.pc # "idle",
           w.below = worker.below, w.clean = worker.clean, w.old = worker.old,
           InOrder(w), stack' \in Seq(Values),
           slot' \in [Names -> {"none", "script", "ours"}],
           w.clean => Operating(w, stack', slot')
    PROVE  IInv'
<1> USE DEF IInv
<1>1. worker' = w /\ frames' = frames /\ straddles' = straddles
    BY DEF Work
<1>2. UnderWay' /\ Settled' = Settled
    BY <1>1 DEF UnderWay, Settled
<1>3. TypeOK'
    BY <1>1 DEF TypeOK
<1>4. Shape(frames)' /\ Sound(frames, Settled)'
    BY <1>1, <1>2
<1>5. WorkerInv'
    BY <1>1, <1>2 DEF WorkerInv, Base, Cur
<1> QED
    BY <1>3, <1>4, <1>5

\* sq_settop brings back the stack the operation has found.
LEMMA TopRestored ==
    ASSUME IInv, UnderWay, SetTop(worker.old)
    PROVE  /\ stack' \in Seq(Values)
           /\ worker.clean => stack' = worker.below
<1> DEFINE h == Base + worker.old
           n == Len(worker.below)
<1>1. /\ stack \in Seq(Values) /\ worker.below \in Seq(Values) /\ n \in Nat
      /\ worker.old \in Int /\ Base \in Nat
    BY FramesFacts DEF IInv, TypeOK, Operations, Base, Frames, ScriptFrames, NativeFrames
<1>2. h \in Int /\ stack' = Resized(h, "null")
    BY <1>1 DEF SetTop
<1> HIDE DEF h
<1>3. /\ stack' \in Seq(Values)
      /\ h \in 0 .. Len(stack) =>
            Len(stack') = h /\ \A k \in 1 .. h : stack'[k] = stack[k]
    BY <1>1, <1>2, ResizedStack DEF Values
<1>4. ASSUME worker.clean
      PROVE  stack' = worker.below
    <2>1. worker.old = n - Base /\ Over(worker.below, stack)
        BY <1>4 DEF IInv, WorkerInv, Operating
    <2>2. h = n /\ n <= Len(stack)
        <3>1. n <= Len(stack)
            BY <2>1 DEF Over
        <3> HIDE DEF n
        <3> QED
            BY <1>1, <2>1, <3>1 DEF h
    <2>3. Len(stack') = n /\ \A k \in 1 .. n : stack'[k] = worker.below[k]
        BY <1>1, <1>3, <2>1, <2>2 DEF Over
    <2> QED
        BY <1>1, <1>3, <2>3, SeqEqual
<1> QED
    BY <1>3, <1>4

LEMMA IdleWorker ==
    ASSUME IInv
    PROVE  Done \in Operations /\ Done.pc = "idle" /\ InOrder(Done)
<1>1. Idle \in Operations /\ Idle.pc = "idle" /\ ~Idle.answer
    BY Bounds DEF Idle, Operations, WorkerOps
<1> DEFINE found == IF worker.op = "exists" /\ ~Answer THEN {worker.name} ELSE {}
<1>2. found \in SUBSET Names
    BY DEF IInv, TypeOK, Operations
<1>3. Done = [Idle EXCEPT !.missing = found]
    BY DEF Done
<1> HIDE DEF found
<1>4. Done \in Operations /\ Done.pc = "idle" /\ ~Done.answer
    BY <1>1, <1>2, <1>3 DEF Operations
<1> QED
    BY <1>4 DEF InOrder

\* An operation ends with the stack it has found: the natives under it, unless
\* it has straddled them, have theirs.
LEMMA EndKeepsInv ==
    ASSUME IInv, UnderWay, SetTop(worker.old), Work(Done), UNCHANGED slot
    PROVE  IInv'
<1> USE DEF IInv
<1>1. worker' = Done /\ frames' = frames /\ straddles' = straddles /\ ~UnderWay'
    BY IdleWorker DEF Work, UnderWay
<1>2. TypeOK'
    BY <1>1, TopRestored, IdleWorker DEF TypeOK
<1>3. Sound(frames, Settled)'
    <2>1. Settled' = stack'
        BY <1>1 DEF Settled
    <2>2. CASE worker.clean
        <3>1. stack' = Settled
            BY <2>2, TopRestored DEF Settled
        <3> QED
            BY <1>1, <2>1, <3>1
    <2>3. CASE ~worker.clean
        <3>1. \A i \in DOMAIN frames : frames[i].kind = "native" => ~frames[i].clean
            BY <2>3 DEF WorkerInv
        <3>2. Sound(frames, stack')
            BY <3>1 DEF Sound
        <3> QED
            BY <1>1, <2>1, <3>2
    <2> QED
        BY <2>2, <2>3
<1>4. WorkerInv'
    BY <1>1, IdleWorker DEF WorkerInv
<1> QED
    BY <1>1, <1>2, <1>3, <1>4

LEMMA BeginKeepsInv ==
    ASSUME IInv, NEW op \in WorkerOps, NEW n \in Names, Begin(op, n)
    PROVE  IInv'
<1> USE DEF IInv
<1> DEFINE w == [op |-> op, pc |-> "root", name |-> n, old |-> GetTop,
                 found |-> FALSE, answer |-> FALSE, missing |-> {},
                 below |-> stack, clean |-> TRUE]
<1>1. /\ ~UnderWay /\ worker' = w /\ frames' = frames /\ straddles' = straddles
      /\ stack' = stack /\ slot' = slot
    BY DEF Begin, Work
<1>2. stack \in Seq(Values) /\ Base \in Nat /\ GetTop = Len(stack) - Base
    BY FramesFacts DEF Base, GetTop, Frames, ScriptFrames, NativeFrames
<1>3. w \in Operations
    BY <1>2 DEF Operations
<1>4. UnderWay' /\ Settled' = Settled
    BY <1>1 DEF UnderWay, Settled
<1>5. TypeOK'
    BY <1>1, <1>3 DEF TypeOK
<1>6. Shape(frames)' /\ Sound(frames, Settled)'
    BY <1>1, <1>4
<1>7. InOrder(w) /\ Operating(w, stack, slot)
    BY <1>2 DEF InOrder, Operating, Over
<1>8. WorkerInv'
    BY <1>1, <1>2, <1>7 DEF WorkerInv, Base, Cur
<1> QED
    BY <1>5, <1>6, <1>8

\* The operation under way.
LEMMA WorkerFacts ==
    ASSUME IInv
    PROVE  /\ worker \in Operations /\ worker.below \in Seq(Values)
           /\ Len(worker.below) \in Nat /\ worker.name \in Names /\ worker.name \in Values
           /\ stack \in Seq(Values) /\ Len(stack) \in Nat
           /\ slot \in [Names -> {"none", "script", "ours"}]
           /\ InOrder(worker)
           /\ UnderWay /\ worker.clean => Operating(worker, stack, slot)
BY DEF IInv, TypeOK, WorkerInv, Operations, Values

LEMMA RootKeepsInv ==
    ASSUME IInv, PushRoot
    PROVE  IInv'
<1> DEFINE w == [worker EXCEPT !.pc = "name"]
           n == Len(worker.below)
<1>1. /\ worker.pc = "root" /\ Work(w) /\ slot' = slot /\ stack' = Append(stack, "root")
    BY DEF PushRoot, Push
<1>2. /\ stack' \in Seq(Values) /\ Over(stack, stack') /\ Len(stack') = Len(stack) + 1
      /\ stack'[Len(stack) + 1] = "root"
    BY <1>1, WorkerFacts, PushedOne DEF Values
<1>3. /\ w \in Operations /\ w.pc = "name" /\ w.below = worker.below
      /\ w.clean = worker.clean /\ w.old = worker.old /\ w.answer = worker.answer
      /\ w.name = worker.name
    BY WorkerFacts DEF Operations
<1> HIDE DEF w
<1>4. InOrder(w)
    BY <1>1, <1>3, WorkerFacts DEF InOrder
<1>5. ASSUME UnderWay, w.clean
      PROVE  Operating(w, stack', slot')
    <2>1. Over(worker.below, stack) /\ Len(stack) = n
        BY <1>1, <1>3, <1>5, WorkerFacts DEF Operating
    <2>2. Over(worker.below, stack')
        BY <1>2, <2>1, WorkerFacts, OverBoth
    <2> QED
        BY <1>2, <1>3, <2>1, <2>2 DEF Operating
<1> QED
    BY <1>1, <1>2, <1>3, <1>4, <1>5, WorkerFacts, OperationKeepsInv DEF UnderWay

LEMMA KeyKeepsInv ==
    ASSUME IInv, PushKey
    PROVE  IInv'
<1> DEFINE p == IF worker.op \in {"exists", "register"} THEN "look" ELSE "closure"
           w == [worker EXCEPT !.pc = p]
           n == Len(worker.below)
<1>1. /\ worker.pc = "name" /\ Work(w) /\ slot' = slot
      /\ stack' = Append(stack, worker.name)
    BY DEF PushKey, Push
<1>2. /\ stack' \in Seq(Values) /\ Over(stack, stack') /\ Len(stack') = Len(stack) + 1
      /\ stack'[Len(stack) + 1] = worker.name
      /\ \A k \in 1 .. Len(stack) : stack'[k] = stack[k]
    BY <1>1, WorkerFacts, PushedOne
<1>3. /\ w \in Operations /\ w.pc = p /\ w.below = worker.below
      /\ w.clean = worker.clean /\ w.old = worker.old /\ w.answer = worker.answer
      /\ w.name = worker.name /\ w.op = worker.op
    BY WorkerFacts DEF Operations
<1> HIDE DEF w
<1>4. InOrder(w)
    BY <1>1, <1>3, WorkerFacts DEF InOrder, Operations, WorkerOps
<1>5. ASSUME UnderWay, w.clean
      PROVE  Operating(w, stack', slot')
    <2>1. Over(worker.below, stack) /\ Len(stack) = n + 1 /\ stack[n + 1] = "root"
        BY <1>1, <1>3, <1>5, WorkerFacts DEF Operating
    <2>2. Over(worker.below, stack')
        BY <1>2, <2>1, WorkerFacts, OverBoth
    <2>3. Len(stack') = n + 2 /\ stack'[n + 1] = "root" /\ stack'[n + 2] = worker.name
        BY <1>2, <2>1, WorkerFacts
    <2> QED
        BY <1>3, <2>2, <2>3 DEF Operating
<1> QED
    BY <1>1, <1>2, <1>3, <1>4, <1>5, WorkerFacts, OperationKeepsInv DEF UnderWay

LEMMA LookKeepsInv ==
    ASSUME IInv, LookUp
    PROVE  IInv'
<1> DEFINE found == /\ Peek(-2) = "root"
                    /\ Peek(-1) \in Names /\ slot[Peek(-1)] # "none"
           w == [worker EXCEPT !.pc = "keep", !.found = found]
           n == Len(worker.below)
           u == Popped(1)
<1>1. /\ worker.pc = "look" /\ Work(w) /\ slot' = slot
      /\ stack' = IF found THEN Append(u, "value") ELSE u
      /\ found \in BOOLEAN
    BY DEF LookUp, Got
<1>2. /\ u \in Seq(Values)
      /\ 1 <= Len(stack) => /\ Len(u) = Len(stack) - 1
                            /\ \A k \in 1 .. Len(stack) - 1 : u[k] = stack[k]
    BY WorkerFacts, PoppedStack
<1>3. found => Peek(-1) \in Names /\ slot[Peek(-1)] # "none"
    OBVIOUS
<1> HIDE DEF u, found
<1>4. stack' \in Seq(Values) /\ Over(u, stack')
    BY <1>1, <1>2, PushedOne DEF Over, Values
<1>5. /\ w \in Operations /\ w.pc = "keep" /\ w.below = worker.below
      /\ w.clean = worker.clean /\ w.old = worker.old /\ w.answer = worker.answer
      /\ w.name = worker.name /\ w.op = worker.op /\ w.found = found
    BY <1>1, WorkerFacts DEF Operations
<1> HIDE DEF w
<1>6. InOrder(w)
    BY <1>1, <1>5, WorkerFacts DEF InOrder
<1>7. ASSUME UnderWay, w.clean
      PROVE  Operating(w, stack', slot')
    <2>1. /\ Over(worker.below, stack) /\ Len(stack) = n + 2
          /\ stack[n + 2] = worker.name /\ n \in Nat
        BY <1>1, <1>5, <1>7, WorkerFacts DEF Operating
    <2>2. Len(u) = n + 1 /\ \A k \in 1 .. n : u[k] = stack[k]
        <3> HIDE DEF n
        <3> QED
            BY <1>2, <2>1
    <2>3. Over(worker.below, u)
        <3>1. Len(worker.below) <= Len(u)
            BY <2>1, <2>2
        <3> QED
            BY <1>2, <2>1, <2>2, <3>1, WorkerFacts, StillOver
    <2>4. Over(worker.below, stack')
        BY <1>2, <1>4, <2>3, WorkerFacts, OverBoth
    <2>5. Peek(-1) = worker.name
        <3> HIDE DEF n
        <3>1. Len(stack) + 1 + (-1) = n + 2 /\ n + 2 \in 1 .. Len(stack) /\ -1 < 0
            BY <2>1
        <3> QED
            BY <2>1, <3>1 DEF Peek
    <2> QED
        BY <1>1, <1>3, <1>5, <2>4, <2>5 DEF Operating
<1> QED
    BY <1>1, <1>4, <1>5, <1>6, <1>7, WorkerFacts, OperationKeepsInv DEF UnderWay

LEMMA AfterLookKeepsInv ==
    ASSUME IInv, AfterLook
    PROVE  IInv'
<1>1. worker.pc = "keep" /\ UnderWay /\ SetTop(worker.old) /\ slot' = slot
    BY DEF AfterLook, UnderWay
<1>2. CASE worker.op = "exists" \/ worker.found
    BY <1>1, <1>2, EndKeepsInv DEF AfterLook
<1>3. CASE ~(worker.op = "exists" \/ worker.found)
    <2> DEFINE w == [worker EXCEPT !.op = "define", !.pc = "root"]
    <2>1. Work(w)
        BY <1>3 DEF AfterLook
    <2>2. /\ w \in Operations /\ w.pc = "root" /\ w.below = worker.below
          /\ w.clean = worker.clean /\ w.old = worker.old /\ w.answer = worker.answer
        BY WorkerFacts DEF Operations
    <2> HIDE DEF w
    <2>3. InOrder(w)
        BY <1>1, <2>2, WorkerFacts DEF InOrder
    <2>4. stack' \in Seq(Values) /\ (w.clean => Operating(w, stack', slot'))
        BY <1>1, <2>2, TopRestored, WorkerFacts DEF Operating, Over
    <2> QED
        BY <1>1, <2>1, <2>2, <2>3, <2>4, WorkerFacts, OperationKeepsInv
<1> QED
    BY <1>2, <1>3

LEMMA ClosureKeepsInv ==
    ASSUME IInv, PushClosure
    PROVE  IInv'
<1> DEFINE w == [worker EXCEPT !.pc = "slot"]
           n == Len(worker.below)
<1>1. /\ worker.pc = "closure" /\ Work(w) /\ slot' = slot
      /\ stack' = Append(stack, "closure")
    BY DEF PushClosure, Push
<1>2. /\ stack' \in Seq(Values) /\ Over(stack, stack') /\ Len(stack') = Len(stack) + 1
      /\ \A k \in 1 .. Len(stack) : stack'[k] = stack[k]
    BY <1>1, WorkerFacts, PushedOne DEF Values
<1>3. /\ w \in Operations /\ w.pc = "slot" /\ w.below = worker.below
      /\ w.clean = worker.clean /\ w.old = worker.old /\ w.answer = worker.answer
      /\ w.name = worker.name /\ w.op = worker.op
    BY WorkerFacts DEF Operations
<1> HIDE DEF w
<1>4. InOrder(w)
    BY <1>1, <1>3, WorkerFacts DEF InOrder
<1>5. ASSUME UnderWay, w.clean
      PROVE  Operating(w, stack', slot')
    <2>1. /\ Over(worker.below, stack) /\ Len(stack) = n + 2 /\ stack[n + 1] = "root"
          /\ stack[n + 2] = worker.name
        BY <1>1, <1>3, <1>5, WorkerFacts DEF Operating
    <2>2. Over(worker.below, stack')
        BY <1>2, <2>1, WorkerFacts, OverBoth
    <2>3. Len(stack') = n + 3 /\ stack'[n + 1] = "root" /\ stack'[n + 2] = worker.name
        BY <1>2, <2>1, WorkerFacts
    <2> QED
        BY <1>3, <2>2, <2>3 DEF Operating
<1> QED
    BY <1>1, <1>2, <1>3, <1>4, <1>5, WorkerFacts, OperationKeepsInv DEF UnderWay

\* An operation gives up before it has answered.
LEMMA GivingUp ==
    ASSUME IInv, worker.pc \in {"closure", "slot"}, Work(GiveUp),
           stack' \in Seq(Values), Over(stack, stack'), slot' = slot
    PROVE  IInv'
<1> DEFINE w == GiveUp
<1>1. /\ w \in Operations /\ w.pc = "settop" /\ w.below = worker.below
      /\ w.clean = worker.clean /\ w.old = worker.old /\ w.answer = worker.answer
      /\ w.name = worker.name /\ w.op = worker.op
    BY WorkerFacts DEF Operations, GiveUp
<1>2. Work(w)
    OBVIOUS
<1> HIDE DEF w
<1>3. InOrder(w) /\ ~w.answer
    BY <1>1, WorkerFacts DEF InOrder
<1>4. ASSUME UnderWay, w.clean
      PROVE  Operating(w, stack', slot')
    <2>1. Over(worker.below, stack)
        BY <1>1, <1>4, WorkerFacts DEF Operating
    <2>2. Over(worker.below, stack')
        BY <2>1, WorkerFacts, OverBoth
    <2> QED
        BY <1>1, <1>3, <2>2 DEF Operating
<1> QED
    BY <1>1, <1>2, <1>3, <1>4, WorkerFacts, OperationKeepsInv DEF UnderWay

LEMMA ReadFailureKeepsInv ==
    ASSUME IInv, ReadClosureFails
    PROVE  IInv'
<1>1. /\ worker.pc = "closure" /\ Work(GiveUp) /\ slot' = slot
      /\ stack' = stack \/ stack' = Append(stack, "closure")
    BY DEF ReadClosureFails
<1>2. stack' \in Seq(Values) /\ Over(stack, stack')
    <2>1. CASE stack' = stack
        BY <2>1, WorkerFacts DEF Over
    <2>2. CASE stack' = Append(stack, "closure")
        BY <2>2, WorkerFacts, PushedOne DEF Values
    <2> QED
        BY <1>1, <2>1, <2>2
<1> QED
    BY <1>1, <1>2, GivingUp

LEMMA SlotKeepsInv ==
    ASSUME IInv, NewSlot
    PROVE  IInv'
<1> DEFINE w == [worker EXCEPT !.pc = "settop", !.answer = TRUE]
           n == Len(worker.below)
<1>0. worker.pc = "slot" /\ UnderWay
    BY DEF NewSlot, UnderWay
<1>1. /\ w \in Operations /\ w.pc = "settop" /\ w.below = worker.below
      /\ w.clean = worker.clean /\ w.old = worker.old
      /\ w.name = worker.name /\ w.op = worker.op
    BY WorkerFacts DEF Operations
<1>2. InOrder(w)
    <2> HIDE DEF w
    <2> QED
        BY <1>0, <1>1, WorkerFacts DEF InOrder
<1>3. worker.clean => /\ Over(worker.below, stack) /\ Len(stack) = n + 3
                      /\ Table = "root" /\ Peek(-2) = worker.name
    <2>1. SUFFICES ASSUME worker.clean
                   PROVE  /\ Over(worker.below, stack) /\ Len(stack) = n + 3
                          /\ Table = "root" /\ Peek(-2) = worker.name
        OBVIOUS
    <2>2. /\ Over(worker.below, stack) /\ Len(stack) = n + 3 /\ stack[n + 1] = "root"
          /\ stack[n + 2] = worker.name /\ n \in Nat
        BY <1>0, <2>1, WorkerFacts DEF Operating
    <2> HIDE DEF n
    <2>3. /\ Len(stack) + 1 + (-3) = n + 1 /\ n + 1 \in 1 .. Len(stack)
          /\ Len(stack) + 1 + (-2) = n + 2 /\ n + 2 \in 1 .. Len(stack)
          /\ -3 < 0 /\ -2 < 0
        BY <2>2
    <2> QED
        BY <2>2, <2>3 DEF Table, Peek
<1>4. CASE /\ Table = "root" /\ Peek(-2) \in Names
           /\ slot' = [slot EXCEPT ![Peek(-2)] = "ours"]
           /\ stack' = Popped(2) /\ Work(w)
    <2>1. /\ stack' \in Seq(Values)
          /\ 2 <= Len(stack) => /\ Len(stack') = Len(stack) - 2
                                /\ \A k \in 1 .. Len(stack) - 2 : stack'[k] = stack[k]
        BY <1>4, WorkerFacts, PoppedStack
    <2>2. /\ slot' \in [Names -> {"none", "script", "ours"}]
          /\ Peek(-2) = worker.name => slot'[worker.name] = "ours"
        BY <1>4, WorkerFacts
    <2> HIDE DEF w
    <2>3. ASSUME w.clean
          PROVE  Operating(w, stack', slot')
        <3>1. /\ Over(worker.below, stack) /\ Len(stack) = n + 3 /\ n \in Nat
              /\ Peek(-2) = worker.name
            BY <1>1, <1>3, <2>3, WorkerFacts
        <3>2. Len(worker.below) <= Len(stack') /\ \A k \in 1 .. n : stack'[k] = stack[k]
            BY <2>1, <3>1
        <3>3. Over(worker.below, stack')
            BY <2>1, <3>1, <3>2, WorkerFacts, StillOver
        <3> QED
            BY <1>1, <2>2, <3>1, <3>3 DEF Operating
    <2> QED
        BY <1>0, <1>1, <1>2, <1>4, <2>1, <2>2, <2>3, OperationKeepsInv
<1>5. CASE Table # "root" /\ Work(w) /\ stack' = stack /\ slot' = slot
    <2> HIDE DEF w
    <2>1. ~w.clean
        BY <1>1, <1>3, <1>5
    <2> QED
        BY <1>0, <1>1, <1>2, <1>5, <2>1, WorkerFacts, OperationKeepsInv
<1>6. CASE Work(GiveUp) /\ stack' = stack /\ slot' = slot
    <2>1. Over(stack, stack')
        BY <1>6, WorkerFacts DEF Over
    <2> QED
        BY <1>0, <1>6, <2>1, WorkerFacts, GivingUp
<1> QED
    BY <1>4, <1>5, <1>6 DEF NewSlot

-----------------------------------------------------------------------------
(* The invariant.                                                          *)

LEMMA ArgumentsType ==
    ASSUME NEW s \in Selectors, NEW extra \in Extras
    PROVE  << >> \in Seq(Values) /\ <<s>> \o extra \in Seq(Values)
<1> DEFINE most == MaxExtra - (Len(frames) \div 2)
<1>1. PICK k \in 0 .. most : extra \in [1 .. k -> Args]
    BY DEF Extras
<1> HIDE DEF most
<1>2. k \in Nat /\ extra \in [1 .. k -> Values]
    BY <1>1 DEF Values
<1>3. extra \in Seq(Values)
    BY <1>2, SeqDef
<1>4. <<s>> \in Seq(Values)
    BY DEF Values
<1> QED
    BY <1>3, <1>4, ConcatProperties, EmptySeq

LEMMA InitInv == Init => IInv
<1> SUFFICES ASSUME Init
             PROVE  IInv
    OBVIOUS
<1> DEFINE f == Script(0, 0, 0)
<1>1. /\ stack = <<"root", "local">> /\ frames = <<f>> /\ worker = Idle
      /\ slot \in [Names -> {"none", "script"}] /\ straddles = 0
    BY DEF Init
<1>2. f \in Frames /\ f.kind = "script"
    BY DEF Script, Frames, ScriptFrames
<1> HIDE DEF f
<1>3. /\ frames \in Seq(Frames) /\ Len(frames) = 1 /\ frames[1] = f
      /\ frames # << >> /\ DOMAIN frames = {1}
    BY <1>1, <1>2
<1>4. Idle \in Operations /\ Idle.pc = "idle" /\ ~Idle.answer
    BY Bounds DEF Idle, Operations, WorkerOps
<1>5. stack \in Seq(Values)
    BY <1>1 DEF Values
<1>6. TypeOK
    BY <1>1, <1>3, <1>4, <1>5, Bounds DEF TypeOK, Frames
<1>7. Shape(frames)
    BY <1>2, <1>3 DEF Shape
<1>8. Sound(frames, Settled)
    BY <1>2, <1>3 DEF Sound
<1>9. WorkerInv
    BY <1>1, <1>4 DEF WorkerInv, InOrder, UnderWay
<1> QED
    BY <1>6, <1>7, <1>8, <1>9 DEF IInv

LEMMA NextInv == IInv /\ [Next]_vars => IInv'
<1> SUFFICES ASSUME IInv, [Next]_vars
             PROVE  IInv'
    OBVIOUS
<1>0. ASSUME NEW op \in Natives, CallNative(op, << >>)
      PROVE  IInv'
    BY <1>0, CallKeepsInv, EmptySeq
<1>1. ASSUME NEW op \in Natives, NEW s \in Selectors, NEW extra \in Extras,
             CallNative(op, <<s>> \o extra)
      PROVE  IInv'
    BY <1>1, ArgumentsType, CallKeepsInv
<1>2. ASSUME NEW returned \in BOOLEAN, LeaveFunction(returned)
      PROVE  IInv'
    BY <1>2, LeaveKeepsInv
<1>3. ASSUME NEW n \in Names, ScriptDefines(n)
      PROVE  IInv'
    BY <1>3, DefinitionKeepsInv
<1>4. CASE Select
    BY <1>4, SelectKeepsInv
<1>5. CASE CountArguments
    BY <1>5, CountKeepsInv
<1>6. CASE MarkTop
    BY <1>6, MarkKeepsInv
<1>7. CASE PushName
    BY <1>7, NameKeepsInv
<1>8. CASE GetFunction
    BY <1>8, GetKeepsInv
<1>9. CASE PushEnvironment
    BY <1>9, EnvironmentKeepsInv
<1>10. CASE PushArgument
    BY <1>10, ArgumentKeepsInv
<1>11. CASE EnterFunction
    BY <1>11, EnterKeepsInv
<1>12. CASE CallFails
    BY <1>12, FailureKeepsInv
<1>13. CASE RemoveFunction
    BY <1>13, RemovalKeepsInv
<1>14. CASE CheckTop
    BY <1>14, CheckKeepsInv
<1>15. CASE Drop
    BY <1>15, DropKeepsInv
<1>16. CASE PushZero
    BY <1>16, ZeroKeepsInv
<1>17. CASE ReturnNative
    BY <1>17, ReturnKeepsInv DEF ReturnNative
<1>18. CASE GameStep
    BY <1>0, <1>1, <1>2, <1>3, <1>4, <1>5, <1>6, <1>7, <1>8, <1>9, <1>10, <1>11, <1>12,
       <1>13, <1>14, <1>15, <1>16, <1>17, <1>18 DEF GameStep
<1>19. ASSUME NEW op \in WorkerOps, NEW n \in Names, Begin(op, n)
       PROVE  IInv'
    BY <1>19, BeginKeepsInv
<1>20. CASE Restore
    <2>1. UnderWay
        BY <1>20 DEF Restore, UnderWay
    <2> QED
        BY <1>20, <2>1, EndKeepsInv DEF Restore
<1>21. CASE WorkerStep
    BY <1>19, <1>20, <1>21, RootKeepsInv, KeyKeepsInv, LookKeepsInv,
       AfterLookKeepsInv, ClosureKeepsInv, ReadFailureKeepsInv, SlotKeepsInv
       DEF WorkerStep
<1>22. CASE UNCHANGED vars
    <2>1. /\ stack' = stack /\ frames' = frames /\ worker' = worker /\ slot' = slot
          /\ straddles' = straddles
        BY <1>22 DEF vars
    <2>2. TypeOK' /\ Shape(frames)'
        BY <2>1 DEF IInv, TypeOK
    <2>3. Sound(frames, Settled)'
        BY <2>1 DEF IInv, Settled, UnderWay
    <2>4. WorkerInv'
        BY <2>1 DEF IInv, WorkerInv, UnderWay, Base, Cur
    <2> QED
        BY <2>2, <2>3, <2>4 DEF IInv
<1> QED
    BY <1>18, <1>21, <1>22 DEF Next

\* The stack of every native and of every operation of the worker that no step
\* has straddled is the one it has found with its own values on top, however
\* calls nest and fail.
THEOREM StackInvariance == Spec => []IInv
<1> QED
    BY InitInv, NextInv, PTL DEF Spec

\* The stack and the activations hold what they should.
THEOREM TypeCorrect == Spec => []TypeOK
<1>1. IInv => TypeOK
    BY DEF IInv
<1> QED
    BY <1>1, StackInvariance, PTL

-----------------------------------------------------------------------------
(* What the invariant says of the natives.                                 *)

\* What a native that no step has straddled has under it and what it has called
\* are on the stack, inside the worker's operations too.
LEMMA CleanNative ==
    ASSUME IInv, NEW i \in DOMAIN frames, frames[i].kind = "native", frames[i].clean
    PROVE  /\ frames[i] \in NativeFrames /\ Over(frames[i].below, stack)
           /\ frames[i].base < Len(frames[i].below)
           /\ i < Len(frames) => /\ frames[i + 1] \in ScriptFrames
                                 /\ Called(frames[i], frames[i + 1], stack)
<1>1. /\ Shape(frames) /\ Len(frames) \in Nat /\ DOMAIN frames = 1 .. Len(frames)
      /\ frames \in Seq(Frames) /\ stack \in Seq(Values)
    BY FramesFacts
<1>2. Settled \in Seq(Values) /\ Sound(frames, Settled)
    BY <1>1, WorkerFacts DEF IInv, Settled
<1>3. Over(Settled, stack)
    <2>1. CASE UnderWay
        <3>1. worker.clean
            BY <2>1 DEF IInv, WorkerInv
        <3> QED
            BY <2>1, <3>1, WorkerFacts DEF Operating, Settled
    <2>2. CASE ~UnderWay
        BY <1>1, <2>2 DEF Over, Settled
    <2> QED
        BY <2>1, <2>2
<1>4. /\ frames[i] \in NativeFrames /\ Over(frames[i].below, Settled)
      /\ frames[i].base < Len(frames[i].below)
    <2>1. frames[i] \in Frames
        BY <1>1
    <2> QED
        BY <1>1, <1>2, <2>1 DEF Sound, Frames, ScriptFrames, NativeFrames
<1>5. Over(frames[i].below, stack)
    BY <1>1, <1>2, <1>3, <1>4, OverBoth DEF NativeFrames
<1>6. ASSUME i < Len(frames)
      PROVE  /\ frames[i + 1] \in ScriptFrames
             /\ Called(frames[i], frames[i + 1], stack)
    <2>1. i \in 1 .. Len(frames) - 1
        BY <1>1, <1>6
    <2>2. frames[i + 1] \in ScriptFrames /\ Called(frames[i], frames[i + 1], Settled)
        BY <1>1, <1>2, <2>1, Outer
    <2>3. /\ frames[i + 1].top < Len(stack)
          /\ \A k \in 1 .. frames[i + 1].top : stack[k] = Settled[k]
        <3>1. frames[i + 1].top < Len(Settled) /\ frames[i + 1].top \in Nat
            BY <2>2 DEF Called, ScriptFrames
        <3>2. Len(Settled) \in Nat /\ Len(stack) \in Nat
            BY <1>1, <1>2
        <3> QED
            BY <1>3, <3>1, <3>2 DEF Over
    <2> QED
        BY <1>1, <1>2, <1>4, <2>2, <2>3, CalledKept
<1> QED
    BY <1>4, <1>5, <1>6

\* A dispatch native that no step of the worker has straddled returns with one
\* value more than it was called with, the result or zero.
THEOREM OneResult == Spec => []OneResultUnlessStraddled
<1>1. ASSUME IInv
      PROVE  OneResultUnlessStraddled
    <2>1. SUFFICES ASSUME At("return"), Cur.clean, ~UnderWay
                   PROVE  stack = Cur.below \o
                                    <<IF Cur.returned THEN "result" ELSE "zero">>
        BY DEF OneResultUnlessStraddled
    <2> DEFINE n == Len(Cur.below)
               v == IF Cur.returned THEN "result" ELSE "zero"
               t == Cur.below \o <<v>>
    <2>2. /\ Over(Cur.below, stack) /\ Running(Cur, stack) /\ Cur.pc = "return"
          /\ Cur.below \in Seq(Values) /\ stack \in Seq(Values) /\ n \in Nat
        BY <1>1, <2>1, NativeFacts DEF At
    <2>3. Len(stack) = n + 1 /\ stack[n + 1] = v
        BY <2>2 DEF Running
    <2>4. v \in Values
        BY DEF Values
    <2> HIDE DEF v
    <2>5. /\ t \in Seq(Values) /\ Len(t) = n + 1 /\ t[n + 1] = v
          /\ \A k \in 1 .. n : t[k] = Cur.below[k]
        BY <2>2, <2>4
    <2> HIDE DEF t
    <2>6. ASSUME NEW k \in 1 .. n + 1
          PROVE  stack[k] = t[k]
        <3>1. CASE k = n + 1
            BY <2>3, <2>5, <3>1
        <3>2. CASE k # n + 1
            <4>1. k \in 1 .. n
                BY <2>2, <3>2
            <4> QED
                BY <2>2, <2>5, <4>1 DEF Over
        <3> QED
            BY <3>1, <3>2
    <2>7. stack = t
        BY <2>2, <2>3, <2>5, <2>6, SeqEqual
    <2> QED
        BY <2>7 DEF t, v
<1> QED
    BY <1>1, StackInvariance, PTL

\* What an outer activation has left on the stack stays there.
THEOREM OuterKept == Spec => []OuterStackKept
<1>1. ASSUME IInv
      PROVE  OuterStackKept
    <2>1. SUFFICES ASSUME NEW i \in DOMAIN frames, frames[i].kind = "native",
                          frames[i].clean
                   PROVE  IsPrefix(frames[i].below, stack)
        BY DEF OuterStackKept
    <2> DEFINE b == frames[i].below
    <2>2. b \in Seq(Values) /\ Over(b, stack) /\ stack \in Seq(Values)
        BY <1>1, <2>1, CleanNative, FramesFacts DEF NativeFrames
    <2> HIDE DEF b
    <2>3. Len(b) \in 0 .. Len(stack) /\ Len(b) \in 0 .. Len(b)
        BY <2>2 DEF Over
    <2>4. /\ SubSeq(b, 1, Len(b)) \in Seq(Values) /\ Len(SubSeq(b, 1, Len(b))) = Len(b)
          /\ \A k \in 1 .. Len(b) : SubSeq(b, 1, Len(b))[k] = b[k]
        BY <2>2, <2>3, Cut
    <2>5. /\ SubSeq(stack, 1, Len(b)) \in Seq(Values)
          /\ Len(SubSeq(stack, 1, Len(b))) = Len(b)
          /\ \A k \in 1 .. Len(b) : SubSeq(stack, 1, Len(b))[k] = stack[k]
        BY <2>2, <2>3, Cut
    <2>6. SubSeq(b, 1, Len(b)) = SubSeq(stack, 1, Len(b))
        BY <2>2, <2>4, <2>5, SeqEqual DEF Over
    <2>7. IsPrefix(b, stack)
        BY <2>3, <2>6 DEF IsPrefix
    <2> QED
        BY <2>7 DEF b
<1> QED
    BY <1>1, StackInvariance, PTL

\* SubSeq from any position on.
LEMMA Part ==
    ASSUME NEW S, NEW s \in Seq(S), NEW m \in 1 .. Len(s) + 1, NEW n \in Nat,
           m - 1 + n <= Len(s)
    PROVE  LET t == SubSeq(s, m, m - 1 + n)
           IN  /\ t \in Seq(S) /\ Len(t) = n
               /\ \A k \in 1 .. n : t[k] = s[m - 1 + k]
<1>1. Len(s) \in Nat /\ m \in Nat \ {0} /\ m - 1 + n \in m - 1 .. Len(s)
    OBVIOUS
<1>2. \A i \in m .. m - 1 + n : s[i] \in S
    BY <1>1, ElementOfSeq
<1>3. /\ SubSeq(s, m, m - 1 + n) \in Seq(S) /\ Len(SubSeq(s, m, m - 1 + n)) = n
      /\ \A k \in 1 .. n : SubSeq(s, m, m - 1 + n)[k] = s[m + k - 1]
    BY <1>1, <1>2, SubSeqProperties
<1>4. \A k \in 1 .. n : m + k - 1 = m - 1 + k
    BY <1>1
<1> QED
    BY <1>3, <1>4

\* A function that a dispatch native calls gets the environment and exactly the
\* arguments to forward, for any number of them.
THEOREM Forwarding == Spec => []ArgumentsForwarded
<1>1. ASSUME IInv
      PROVE  ArgumentsForwarded
    <2>1. SUFFICES ASSUME NEW i \in DOMAIN frames, i > 1, frames[i].kind = "script",
                          frames[i - 1].clean
                   PROVE  LET f == frames[i]
                              caller == frames[i - 1]
                              given == SubSeq(caller.below, caller.base + 1,
                                              Len(caller.below))
                          IN  /\ SubSeq(stack, f.base + 1, f.base + f.params) =
                                    <<given[1]>> \o SubSeq(given, caller.first, Len(given))
                              /\ f.params = Len(given) - caller.first + 2
        BY DEF ArgumentsForwarded
    <2> DEFINE f == frames[i]
               c == frames[i - 1]
               below == c.below
               n == Len(below)
               given == SubSeq(below, c.base + 1, n)
               passed == SubSeq(given, c.first, Len(given))
               params == SubSeq(stack, f.base + 1, f.base + f.params)
    <2>2. /\ i - 1 \in 1 .. Len(frames) - 1 /\ i - 1 \in DOMAIN frames
          /\ i - 1 < Len(frames) /\ (i - 1) + 1 = i /\ Len(frames) \in Nat
          /\ stack \in Seq(Values) /\ Len(stack) \in Nat
        BY <1>1, <2>1, FramesFacts
    <2>3. c.kind = "native"
        <3>1. frames[i - 1].kind # frames[i].kind /\ frames[i - 1] \in Frames
            BY <1>1, <2>2, FramesFacts DEF Shape
        <3> QED
            BY <2>1, <3>1 DEF Frames, ScriptFrames, NativeFrames
    <2>4. /\ c \in NativeFrames /\ f \in ScriptFrames /\ Over(below, stack)
          /\ c.base < n /\ Called(c, f, stack)
        BY <1>1, <2>1, <2>2, <2>3, CleanNative
    <2>5. /\ below \in Seq(Values) /\ n \in Nat /\ c.base \in Nat /\ c.count \in Nat
          /\ c.first \in {3, 4} /\ f.base \in Nat /\ f.params \in Nat
        BY <2>4 DEF NativeFrames, ScriptFrames
    <2>6. /\ c.count = n - c.base - c.first + 1 /\ f.base = n + 1
          /\ f.params = c.count + 1 /\ Given(c, stack, c.count)
        BY <2>4 DEF Called, Forwards
    <2>7. n + 2 + c.count <= Len(stack)
        BY <2>6 DEF Given
    <2> DEFINE b == c.base
               a == c.first
               m == c.count
    <2>8. /\ b \in Nat /\ a \in {3, 4} /\ m \in Nat /\ n \in Nat /\ b < n
          /\ m = n - b - a + 1 /\ f.base = n + 1 /\ f.params = m + 1
          /\ n + 2 + m <= Len(stack)
        BY <2>4, <2>5, <2>6, <2>7
    <2> HIDE DEF f, c, below, n, b, a, m
    <2>9. /\ given \in Seq(Values) /\ Len(given) = n - b
          /\ \A k \in 1 .. n - b : given[k] = below[b + k]
        <3>1. b + 1 \in 1 .. Len(below) + 1 /\ n - b \in Nat /\ (b + 1) - 1 + (n - b) = n
              /\ (b + 1) - 1 + (n - b) <= Len(below) /\ (b + 1) - 1 = b
            BY <2>8 DEF n
        <3>2. LET t == SubSeq(below, b + 1, (b + 1) - 1 + (n - b))
              IN  /\ t \in Seq(Values) /\ Len(t) = n - b
                  /\ \A k \in 1 .. n - b : t[k] = below[(b + 1) - 1 + k]
            BY <2>5, <3>1, Part
        <3> QED
            BY <3>1, <3>2 DEF b
    <2> HIDE DEF given
    <2>10. /\ passed \in Seq(Values) /\ Len(passed) = m
           /\ \A k \in 1 .. m : passed[k] = given[a - 1 + k]
        <3>1. a \in 1 .. Len(given) + 1 /\ a - 1 + m = Len(given) /\ a - 1 + m <= Len(given)
            BY <2>8, <2>9
        <3>2. LET t == SubSeq(given, a, a - 1 + m)
              IN  /\ t \in Seq(Values) /\ Len(t) = m
                  /\ \A k \in 1 .. m : t[k] = given[a - 1 + k]
            BY <2>8, <2>9, <3>1, Part
        <3> QED
            BY <3>1, <3>2 DEF a
    <2>11. /\ params \in Seq(Values) /\ Len(params) = m + 1
           /\ \A k \in 1 .. m + 1 : params[k] = stack[n + 1 + k]
        <3>1. /\ n + 2 \in 1 .. Len(stack) + 1 /\ m + 1 \in Nat
              /\ (n + 2) - 1 + (m + 1) <= Len(stack)
              /\ (n + 2) - 1 + (m + 1) = f.base + f.params
              /\ n + 2 = f.base + 1 /\ (n + 2) - 1 = n + 1
            BY <2>2, <2>8
        <3>2. LET t == SubSeq(stack, n + 2, (n + 2) - 1 + (m + 1))
              IN  /\ t \in Seq(Values) /\ Len(t) = m + 1
                  /\ \A k \in 1 .. m + 1 : t[k] = stack[(n + 2) - 1 + k]
            BY <2>2, <3>1, Part
        <3> QED
            BY <3>1, <3>2
    <2> HIDE DEF passed, params
    <2>12. given[1] = below[b + 1] /\ given[1] \in Values
        <3>1. 1 \in 1 .. n - b
            BY <2>8
        <3> QED
            BY <2>9, <3>1, ElementOfSeq
    <2>13. stack[n + 2] = below[b + 1]
           /\ \A k \in 1 .. m : stack[n + 2 + k] = below[b + a + k - 1]
        BY <2>6 DEF Given, n, below, b, a, m
    <2> DEFINE r == <<given[1]>> \o passed
    <2>14. /\ r \in Seq(Values) /\ Len(r) = m + 1 /\ r[1] = given[1]
           /\ \A k \in 1 .. m : r[1 + k] = passed[k]
        <3> DEFINE e == <<given[1]>>
        <3>1. e \in Seq(Values) /\ Len(e) = 1 /\ e[1] = given[1]
            BY <2>12
        <3> HIDE DEF e
        <3>2. /\ e \o passed \in Seq(Values) /\ Len(e \o passed) = 1 + m
              /\ \A k \in 1 .. 1 + m : (e \o passed)[k] =
                        IF k <= 1 THEN e[k] ELSE passed[k - 1]
            <4>1. /\ e \o passed \in Seq(Values) /\ Len(e \o passed) = Len(e) + Len(passed)
                  /\ \A k \in 1 .. Len(e) + Len(passed) : (e \o passed)[k] =
                        IF k <= Len(e) THEN e[k] ELSE passed[k - Len(e)]
                BY <2>10, <3>1, ConcatProperties
            <4> QED
                BY <2>10, <3>1, <4>1
        <3>3. (e \o passed)[1] = given[1]
            <4>1. 1 \in 1 .. 1 + m
                BY <2>8
            <4> QED
                BY <3>1, <3>2, <4>1
        <3>4. ASSUME NEW k \in 1 .. m
              PROVE  (e \o passed)[1 + k] = passed[k]
            <4>1. 1 + k \in 1 .. 1 + m /\ ~(1 + k <= 1) /\ (1 + k) - 1 = k
                BY <2>8
            <4> QED
                BY <3>2, <4>1
        <3>5. 1 + m = m + 1
            BY <2>8
        <3> QED
            BY <3>2, <3>3, <3>4, <3>5 DEF e
    <2> HIDE DEF r
    <2>15. ASSUME NEW k \in 1 .. m + 1
           PROVE  params[k] = r[k]
        <3>1. CASE k = 1
            <4>1. n + 1 + k = n + 2
                BY <2>8, <3>1
            <4> QED
                BY <2>11, <2>12, <2>13, <2>14, <3>1, <4>1
        <3>2. CASE k # 1
            <4> DEFINE h == k - 1
            <4>1. /\ h \in 1 .. m /\ 1 + h = k /\ n + 1 + k = n + 2 + h
                  /\ a - 1 + h \in 1 .. n - b /\ b + (a - 1 + h) = b + a + h - 1
                BY <2>8, <3>2
            <4> HIDE DEF h
            <4>2. r[k] = below[b + (a - 1 + h)]
                BY <2>9, <2>10, <2>14, <4>1
            <4>3. params[k] = stack[n + 2 + h]
                BY <2>11, <4>1
            <4>4. stack[n + 2 + h] = below[b + a + h - 1]
                BY <2>13, <4>1
            <4> QED
                BY <4>1, <4>2, <4>3, <4>4
        <3> QED
            BY <3>1, <3>2
    <2>16. params = r
        BY <2>11, <2>14, <2>15, SeqEqual
    <2>17. f.params = Len(given) - a + 2
        BY <2>8, <2>9
    <2> QED
        BY <2>16, <2>17 DEF params, r, passed, given, n, below, a, c, f
<1> QED
    BY <1>1, StackInvariance, PTL

-----------------------------------------------------------------------------
(* What the invariant says of the worker's operations.                     *)

\* No step of the game's thread ends an operation.
LEMMA GameEndsNone ==
    ASSUME IInv, GameStep
    PROVE  worker'.pc = worker.pc
<1>1. worker' = [worker EXCEPT !.clean = @ /\ ~UnderWay]
    BY DEF GameStep, CallNative, Select, CountArguments, MarkTop, PushName, GetFunction,
           PushEnvironment, PushArgument, EnterFunction, CallFails, LeaveFunction,
           RemoveFunction, CheckTop, Drop, PushZero, ReturnNative, ScriptDefines,
           Goto, Become, Game
<1> QED
    BY <1>1, WorkerFacts DEF Operations

\* An operation ends in two ways, and takes its values off the stack in both.
LEMMA Endings ==
    ASSUME IInv, [Next]_vars, UnderWay, worker'.pc = "idle"
    PROVE  /\ SetTop(worker.old) /\ slot' = slot
           /\ \/ worker.pc = "keep" /\ (worker.op = "exists" \/ worker.found)
              \/ worker.pc = "settop"
<1>1. CASE GameStep
    BY <1>1, GameEndsNone DEF UnderWay
<1>2. CASE UNCHANGED vars
    BY <1>2 DEF vars, UnderWay
<1>3. CASE Restore
    BY <1>3 DEF Restore
<1>4. CASE AfterLook
    <2>1. CASE worker.op = "exists" \/ worker.found
        BY <1>4, <2>1 DEF AfterLook
    <2>2. CASE ~(worker.op = "exists" \/ worker.found)
        <3>1. worker' = [worker EXCEPT !.op = "define", !.pc = "root"]
            BY <1>4, <2>2 DEF AfterLook, Work
        <3> QED
            BY <3>1, WorkerFacts DEF Operations
    <2> QED
        BY <2>1, <2>2
<1>5. CASE PushRoot \/ PushKey \/ LookUp \/ PushClosure
    BY <1>5, WorkerFacts DEF PushRoot, PushKey, LookUp, PushClosure, Work, Operations
<1>6. CASE ReadClosureFails \/ NewSlot
    BY <1>6, WorkerFacts DEF ReadClosureFails, NewSlot, GiveUp, Work, Operations
<1>7. ~ \E op \in WorkerOps, n \in Names : Begin(op, n)
    BY DEF Begin
<1> QED
    BY <1>1, <1>2, <1>3, <1>4, <1>5, <1>6, <1>7 DEF Next, WorkerStep

\* An operation of the worker that no step has straddled leaves the stack as it
\* found it, whichever way it ends.
THEOREM StackLeft == Spec => WorkerLeavesStack
<1>1. ASSUME IInv, [Next]_vars
      PROVE  [UnderWay /\ worker'.pc = "idle" /\ worker.clean =>
                 stack' = worker.below]_vars
    BY <1>1, Endings, TopRestored
<1> QED
    BY <1>1, StackInvariance, PTL DEF Spec, WorkerLeavesStack

\* What such an operation answers is true of the root table when it ends.
THEOREM AnswersHold == Spec => AnswerHolds
<1>1. ASSUME IInv, [Next]_vars
      PROVE  [UnderWay /\ worker'.pc = "idle" /\ worker.clean =>
                CASE worker.op = "exists" ->
                        Answer => slot'[worker.name] # "none"
                  [] worker.op = "register" ->
                        Answer /\ slot'[worker.name] # "none"
                  [] OTHER -> Answer => slot'[worker.name] = "ours"]_vars
    <2>1. SUFFICES ASSUME UnderWay, worker'.pc = "idle", worker.clean
                   PROVE  CASE worker.op = "exists" ->
                                  Answer => slot'[worker.name] # "none"
                            [] worker.op = "register" ->
                                  Answer /\ slot'[worker.name] # "none"
                            [] OTHER -> Answer => slot'[worker.name] = "ours"
        OBVIOUS
    <2>2. /\ slot' = slot /\ InOrder(worker) /\ Operating(worker, stack, slot)
          /\ \/ worker.pc = "keep" /\ (worker.op = "exists" \/ worker.found)
             \/ worker.pc = "settop"
        BY <1>1, <2>1, Endings, WorkerFacts
    <2>3. CASE worker.pc = "keep"
        <3>1. /\ worker.op \in {"exists", "register"} /\ Answer = worker.found
              /\ worker.op = "register" => worker.found
              /\ worker.found => slot[worker.name] # "none"
            BY <2>2, <2>3 DEF InOrder, Operating, Answer
        <3> QED
            BY <2>2, <3>1
    <2>4. CASE worker.pc = "settop"
        <3>1. /\ worker.op # "exists" /\ worker.op # "register" /\ Answer = worker.answer
              /\ worker.answer => slot[worker.name] = "ours"
            BY <2>2, <2>4 DEF InOrder, Operating, Answer
        <3> QED
            BY <2>2, <3>1
    <2> QED
        BY <2>2, <2>3, <2>4
<1> QED
    BY <1>1, StackInvariance, PTL DEF Spec, AnswerHolds
=============================================================================
