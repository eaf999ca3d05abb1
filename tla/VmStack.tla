------------------------------ MODULE VmStack ------------------------------
(***************************************************************************)
(* The value stack of the game's Squirrel VM, which two threads of the     *)
(* process work on without any lock.                                       *)
(*                                                                         *)
(*   - The game's thread runs scripts.  A script calls one of the three    *)
(*     dispatch natives (cqx_callSquirrelChr, ..FuncNew, ..Func), which    *)
(*     look a script function up by name, copy their own arguments and     *)
(*     call it; that function may call a native again.                     *)
(*   - The worker's thread looks names up in the VM's root table and       *)
(*     defines natives and closures there.                                 *)
(*                                                                         *)
(* Both speak the stack language of Squirrel: every sq_ call is one step,  *)
(* whose effect on the stack is that of the reference VM the repository    *)
(* carries.  An index counts from the base of the innermost activation, a  *)
(* negative one from the top; the base belongs to the VM, not to the       *)
(* thread that uses it.                                                    *)
(***************************************************************************)
EXTENDS Integers, SequencesExt

CONSTANTS
    Names,        \* names the worker defines in the root table
    Args,         \* values a script passes after the first argument
    MaxExtra,     \* bound: how many of them
    MaxDepth,     \* bound: natives that may be active at a time, more than one
                  \* of them only until a step has straddled
    MaxStraddles  \* bound: steps of the game's thread inside the worker's
                  \* operations

ASSUME Bounds ==
    /\ Names # {}
    /\ MaxExtra \in Nat /\ MaxStraddles \in Nat /\ MaxDepth \in Nat \ {0}

VARIABLES
    stack,        \* the values, bottom first
    frames,       \* the activations of the game's thread, outermost first
    worker,       \* the operation of the worker's thread
    slot,         \* who has defined each name in the root table
    straddles     \* steps of the game's thread inside the worker's operations

vars == <<stack, frames, worker, slot, straddles>>

Natives == {"chr", "new", "func"}
WorkerOps == {"exists", "register", "force", "install"}

\* What a first argument can be: an id of the dispatch table, a function's name,
\* or anything else, such as an integer that is no id.
Selectors == {"id", "name", "other"}

Values == Selectors \cup Args \cup Names \cup
    {"root", "local", "function", "closure", "value", "result", "zero", "null",
     "stale"}

-----------------------------------------------------------------------------
(* The stack operations of the VM.                                         *)

Cur  == Last(frames)
Base == Cur.base
GetTop == Len(stack) - Base

\* The VM does not check an index: outside the stack it reads what is there.
Peek(i) == LET k == IF i < 0 THEN Len(stack) + 1 + i ELSE Base + i
         IN  IF k \in 1..Len(stack) THEN stack[k] ELSE "stale"

Push(v) == stack' = Append(stack, v)

Popped(n) == SubSeq(stack, 1, IF n < Len(stack) THEN Len(stack) - n ELSE 0)

\* Moving the top up uncovers the filler, moving it down drops values.
Resized(n, filler) ==
    IF n <= Len(stack) THEN SubSeq(stack, 1, n)
    ELSE stack \o [i \in 1..(n - Len(stack)) |-> filler]

SetTop(n) == stack' = Resized(Base + n, "null")

\* sq_get replaces the key at the top by its value, or pops it.
Got(found, v) == stack' = IF found THEN Append(Popped(1), v) ELSE Popped(1)

-----------------------------------------------------------------------------
(* Activations.  "clean" is history: the game's thread has made no step    *)
(* while an operation of the worker was under way, in this native.         *)

Script(base, top, params) ==
    [kind |-> "script", base |-> base, top |-> top, params |-> params]

Native(op, base, top, below) ==
    [kind |-> "native", op |-> op, pc |-> "select", base |-> base, top |-> top,
     first |-> IF op = "chr" THEN 4 ELSE 3, count |-> 0, sent |-> 0, old |-> 0,
     returned |-> FALSE, below |-> below, clean |-> TRUE]

\* Between operations the worker knows which name it has just found missing.
Idle == [op |-> "exists", pc |-> "idle", name |-> CHOOSE n \in Names : TRUE,
         old |-> 0, found |-> FALSE, answer |-> FALSE, missing |-> {},
         below |-> << >>, clean |-> TRUE]

UnderWay == worker.pc # "idle"

Init ==
    /\ stack = <<"root", "local">>
    /\ frames = <<Script(0, 0, 0)>>
    /\ worker = Idle
    /\ slot \in [Names -> {"none", "script"}]
    /\ straddles = 0

\* The game's thread makes a step and leaves the activations fs.
Game(fs) ==
    /\ UnderWay => straddles < MaxStraddles
    /\ straddles' = IF UnderWay THEN straddles + 1 ELSE straddles
    /\ frames' = [i \in DOMAIN fs |->
                    IF fs[i].kind = "script" THEN fs[i]
                    ELSE [fs[i] EXCEPT !.clean = @ /\ ~UnderWay]]
    /\ worker' = [worker EXCEPT !.clean = @ /\ ~UnderWay]

Become(f) == Game(Append(Front(frames), f))
At(pc) == Cur.kind = "native" /\ Cur.pc = pc
Goto(pc) == Become([Cur EXCEPT !.pc = pc])

-----------------------------------------------------------------------------
(* The game's thread.                                                      *)

\* A script calls a native with itself as environment and some arguments.
CallNative(op, args) ==
    /\ Cur.kind = "script" /\ Len(frames) < 2 * MaxDepth
    /\ Len(frames) > 1 => straddles = 0
    /\ stack' = stack \o <<"root">> \o args
    /\ Game(Append(frames, Native(op, Len(stack), Len(stack), stack')))
    /\ UNCHANGED slot

\* The first argument decides what to call; one that was not passed reads as
\* anything.  An id must be in the table, a name is taken by two natives only.
Callable(op) == IF op = "chr" THEN {"id"} ELSE {"id", "name"}

Select ==
    /\ At("select")
    /\ \E s \in IF Peek(2) = "stale" THEN Selectors ELSE {Peek(2)} :
          Goto(IF s \in Callable(Cur.op) THEN "count" ELSE "zero")
    /\ UNCHANGED <<stack, slot>>

CountArguments ==
    /\ At("count")
    /\ IF GetTop < Cur.first - 1 THEN Goto("zero")
       ELSE Become([Cur EXCEPT !.pc = "mark",
                      !.count = IF GetTop >= Cur.first
                                THEN GetTop - Cur.first + 1 ELSE 0])
    /\ UNCHANGED <<stack, slot>>

MarkTop ==
    /\ At("mark")
    /\ Become([Cur EXCEPT !.pc = "name", !.old = GetTop])
    /\ UNCHANGED <<stack, slot>>

PushName ==
    /\ At("name") /\ Push("name") /\ Goto("get") /\ UNCHANGED slot

GetFunction ==
    /\ At("get")
    /\ \E found \in BOOLEAN :
          /\ Got(found, "function")
          /\ Goto(IF found THEN "env" ELSE "drop")
    /\ UNCHANGED slot

PushEnvironment ==
    /\ At("env") /\ Push(Peek(1)) /\ Goto("args") /\ UNCHANGED slot

\* Mutant: the arguments of every native are taken from the same index.
ArgumentFromThree == Peek(3 + Cur.sent)

Argument == Peek(Cur.first + Cur.sent)

PushArgument ==
    /\ At("args") /\ Cur.sent < Cur.count
    /\ Push(Argument)
    /\ Become([Cur EXCEPT !.sent = @ + 1])
    /\ UNCHANGED slot

Params == Cur.count + 1

\* The function takes its parameters as the bottom of its own activation.
EnterFunction ==
    /\ At("args") /\ Cur.sent = Cur.count
    /\ Push("local")
    /\ Game(Append(Front(frames), [Cur EXCEPT !.pc = "called"])
              \o <<Script(Len(Popped(Params)), Len(stack), Params)>>)
    /\ UNCHANGED slot

CallFails ==
    /\ At("args") /\ Cur.sent = Cur.count
    /\ stack' = Popped(Params) /\ Goto("drop") /\ UNCHANGED slot

\* sq_call drops the parameters and pushes the result of a call that returned.
LeaveFunction(returned) ==
    /\ Cur.kind = "script" /\ Len(frames) > 1
    /\ LET below  == Resized(Cur.top - Cur.params, "stale")
           caller == Last(Front(frames))
       IN  /\ stack' = IF returned THEN Append(below, "result") ELSE below
           /\ Game(Append(Front(Front(frames)),
                 [caller EXCEPT !.pc = IF returned THEN "remove" ELSE "drop",
                                !.returned = returned]))
    /\ UNCHANGED slot

\* Mutant: the result is removed, not the function under it.
ResultRemoved == Popped(1)

FunctionRemoved == IF Len(stack) > 1 THEN Append(Popped(2), Peek(-1)) ELSE << >>

RemoveFunction ==
    /\ At("remove")
    /\ stack' = FunctionRemoved
    /\ Goto("check")
    /\ UNCHANGED slot

CheckTop ==
    /\ At("check")
    /\ Goto(IF GetTop = Cur.old + 1 THEN "return" ELSE "drop")
    /\ UNCHANGED <<stack, slot>>

\* Mutant: one value too many goes.
OneBelowMark == Cur.old - 1

Mark == Cur.old

Drop == At("drop") /\ SetTop(Mark) /\ Goto("zero") /\ UNCHANGED slot

PushZero == At("zero") /\ Push("zero") /\ Goto("return") /\ UNCHANGED slot

\* The VM takes the value at the top as the result and restores its own top.
ReturnNative ==
    /\ At("return")
    /\ stack' = Resized(Cur.top, "stale")
    /\ Game(Front(frames))
    /\ UNCHANGED slot

\* A script of the game defines one of the names itself.
ScriptDefines(n) ==
    /\ Cur.kind = "script" /\ slot[n] = "none"
    /\ slot' = [slot EXCEPT ![n] = "script"]
    /\ Game(frames)
    /\ UNCHANGED stack

-----------------------------------------------------------------------------
(* The worker's thread.                                                    *)

Work(w) == worker' = w /\ UNCHANGED <<frames, straddles>>
\* What the operation answers when it ends.
Answer == IF worker.pc = "keep" THEN worker.found ELSE worker.answer

Done == [Idle EXCEPT !.missing = IF worker.op = "exists" /\ ~Answer
                                 THEN {worker.name} ELSE {}]

\* The installer only installs a closure whose name it has found missing.
Begin(op, n) ==
    /\ ~UnderWay
    /\ op = "install" => n \in worker.missing
    /\ Work([op |-> op, pc |-> "root", name |-> n, old |-> GetTop,
             found |-> FALSE, answer |-> FALSE, missing |-> {},
             below |-> stack, clean |-> TRUE])
    /\ UNCHANGED <<stack, slot>>

PushRoot ==
    /\ worker.pc = "root" /\ Push("root")
    /\ Work([worker EXCEPT !.pc = "name"])
    /\ UNCHANGED slot

PushKey ==
    /\ worker.pc = "name" /\ Push(worker.name)
    /\ Work([worker EXCEPT !.pc =
              IF worker.op \in {"exists", "register"} THEN "look"
              ELSE "closure"])
    /\ UNCHANGED slot

\* sq_get(-2): the key at the top, in the table below it.
LookUp ==
    /\ worker.pc = "look"
    /\ LET found == /\ Peek(-2) = "root"
                    /\ Peek(-1) \in Names /\ slot[Peek(-1)] # "none"
       IN  /\ Got(found, "value")
           /\ Work([worker EXCEPT !.pc = "keep", !.found = found])
    /\ UNCHANGED slot

\* A name that register_native finds is left as it is.
AfterLook ==
    /\ worker.pc = "keep" /\ SetTop(worker.old)
    /\ Work(IF worker.op = "exists" \/ worker.found THEN Done
            ELSE [worker EXCEPT !.op = "define", !.pc = "root"])
    /\ UNCHANGED slot

\* A new native closure, or one read from a stream that may be malformed.
PushClosure ==
    /\ worker.pc = "closure" /\ Push("closure")
    /\ Work([worker EXCEPT !.pc = "slot"])
    /\ UNCHANGED slot

\* Mutant: the early return forgets the stack.
ReturnAtOnce == Done

GiveUp == [worker EXCEPT !.pc = "settop"]

ReadClosureFails ==
    /\ worker.pc = "closure" /\ worker.op = "install"
    /\ stack' \in {stack, Append(stack, "closure")}
    /\ Work(GiveUp)
    /\ UNCHANGED slot

\* Mutant: the table is looked for one index too high.
TableAtKey == Peek(-2)

Table == Peek(-3)

\* sq_newslot(-3) sets the key in the table and pops both; it reports success
\* without doing either when there is no table at that index, and it may fail.
NewSlot ==
    /\ worker.pc = "slot"
    /\ \/ /\ Table = "root" /\ Peek(-2) \in Names
          /\ slot' = [slot EXCEPT ![Peek(-2)] = "ours"]
          /\ stack' = Popped(2)
          /\ Work([worker EXCEPT !.pc = "settop", !.answer = TRUE])
       \/ /\ Table # "root"
          /\ Work([worker EXCEPT !.pc = "settop", !.answer = TRUE])
          /\ UNCHANGED <<stack, slot>>
       \/ /\ Work(GiveUp)
          /\ UNCHANGED <<stack, slot>>

Restore ==
    /\ worker.pc = "settop" /\ SetTop(worker.old)
    /\ Work(Done)
    /\ UNCHANGED slot

-----------------------------------------------------------------------------
\* Bound: what a script passes after the first argument; a native inside
\* another's function gets one value less.
Extras ==
    UNION {[1..k -> Args] : k \in 0..(MaxExtra - (Len(frames) \div 2))}

GameStep ==
    \/ \E op \in Natives :
          \/ CallNative(op, << >>)
          \/ \E s \in Selectors, extra \in Extras : CallNative(op, <<s>> \o extra)
    \/ Select \/ CountArguments \/ MarkTop \/ PushName \/ GetFunction
    \/ PushEnvironment \/ PushArgument \/ EnterFunction \/ CallFails
    \/ \E returned \in BOOLEAN : LeaveFunction(returned)
    \/ RemoveFunction \/ CheckTop \/ Drop \/ PushZero \/ ReturnNative
    \/ \E n \in Names : ScriptDefines(n)

WorkerStep ==
    \/ \E op \in WorkerOps, n \in Names : Begin(op, n)
    \/ PushRoot \/ PushKey \/ LookUp \/ AfterLook \/ PushClosure
    \/ ReadClosureFails \/ NewSlot \/ Restore

Next == GameStep \/ WorkerStep

Spec == Init /\ [][Next]_vars

-----------------------------------------------------------------------------
ScriptFrames == [kind : {"script"}, base : Nat, top : Nat, params : Nat]

NativeFrames ==
    [kind : {"native"}, op : Natives,
     pc : {"select", "count", "mark", "name", "get", "env", "args", "called",
           "remove", "check", "drop", "zero", "return"},
     base : Nat, top : Nat, first : {3, 4}, count : Nat, sent : Nat, old : Int,
     returned : BOOLEAN, below : Seq(Values), clean : BOOLEAN]

Operations ==
    [op : WorkerOps \cup {"define"},
     pc : {"idle", "root", "name", "look", "keep", "closure", "slot", "settop"},
     name : Names, old : Int, found : BOOLEAN, answer : BOOLEAN,
     missing : SUBSET Names, below : Seq(Values), clean : BOOLEAN]

TypeOK ==
    /\ stack \in Seq(Values)
    /\ frames \in Seq(ScriptFrames \cup NativeFrames) /\ frames # << >>
    /\ worker \in Operations
    /\ slot \in [Names -> {"none", "script", "ours"}]
    /\ straddles \in 0..MaxStraddles

\* When a dispatch native returns, its stack is the one it was called with
\* plus one value: what the script function returned if it did return, and
\* zero in every other case (the comment of GameCallNamed).
\* As long as no operation of the worker straddles a step of the game's thread,
\* that holds however calls nest and fail.
OneResultUnlessStraddled ==
    At("return") /\ Cur.clean /\ ~UnderWay =>
        stack = Cur.below \o <<IF Cur.returned THEN "result" ELSE "zero">>

\* A called function gets the environment of its caller and the caller's
\* arguments from the first one to forward on, all of them and no others: of
\* a call with too few arguments nothing is invented.
ArgumentsForwarded ==
    \A i \in DOMAIN frames :
        LET f == frames[i]
            caller == frames[i - 1]
            given == SubSeq(caller.below, caller.base + 1, Len(caller.below))
        IN  i > 1 /\ f.kind = "script" /\ caller.clean =>
              /\ SubSeq(stack, f.base + 1, f.base + f.params) =
                    <<given[1]>> \o SubSeq(given, caller.first, Len(given))
              /\ f.params = Len(given) - caller.first + 2

\* Whatever runs inside it, the part of the stack that belongs to an outer
\* activation stays as that activation left it.
OuterStackKept ==
    \A i \in DOMAIN frames :
        frames[i].kind = "native" /\ frames[i].clean =>
            IsPrefix(frames[i].below, stack)

\* An operation of the worker leaves the stack as it found it, on every path,
\* a closure that fails to load halfway included.
WorkerLeavesStack ==
    [][UnderWay /\ worker'.pc = "idle" /\ worker.clean =>
         stack' = worker.below]_vars

\* The answer of an operation is true of the root table: a name that was found
\* is there, a closure or forced native that reports success has defined the
\* name, and register_native without force succeeds only if somebody has.
AnswerHolds ==
    [][UnderWay /\ worker'.pc = "idle" /\ worker.clean =>
         CASE worker.op = "exists" ->
                 Answer => slot'[worker.name] # "none"
           [] worker.op = "register" ->
                 Answer /\ slot'[worker.name] # "none"
           [] OTHER -> Answer => slot'[worker.name] = "ours"]_vars
=============================================================================
