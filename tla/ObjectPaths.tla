---------------------------- MODULE ObjectPaths ----------------------------
(***************************************************************************)
(* The paths scripts register for object indices, between the threads that *)
(* register, clear and look them up.                                       *)
(*                                                                         *)
(* A script registers a path for an index (cqx_pushObject), whereupon the  *)
(* extension has the game create the object.  To create an object the game *)
(* asks, through its hooks, whether the index is allowed and what its path *)
(* is, and then reads the string it was given a pointer to.  The worker    *)
(* and StopHook clear all paths.                                           *)
(*                                                                         *)
(* The map is under a slim reader/writer lock, which no thread may enter   *)
(* twice.  A critical section is two steps: entering the lock, and the     *)
(* access with which it leaves; the map is in pieces while a thread that   *)
(* changes it is inside.  The string handed to the game is a copy that     *)
(* belongs to the calling thread.                                          *)
(***************************************************************************)
EXTENDS FiniteSets

CONSTANTS
    Threads,
    Indices,      \* indices of objects
    Fixed,        \* those the extension allows without looking (24100..24399)
    Strings,      \* paths
    None          \* no path, the null pointer

ASSUME Distinct ==
    /\ Fixed \subseteq Indices
    /\ None \notin Strings /\ None \notin Threads

Torn == "torn"

VARIABLES
    paths,        \* g_object_paths
    result,       \* g_object_path_result of each thread
    writer,       \* the thread inside the lock exclusively, or None
    readers,      \* the threads inside it for reading
    pc,           \* where each thread is
    call,         \* what each thread is doing it for
    cleared       \* history: threads creating an object that have seen all
                  \* paths cleared

vars == <<paths, result, writer, readers, pc, call, cleared>>

Idle == [op |-> "none", index |-> None, path |-> None]

Init ==
    /\ paths = [i \in Indices |-> None]
    /\ result = [t \in Threads |-> None]
    /\ writer = None /\ readers = {}
    /\ pc = [t \in Threads |-> "idle"]
    /\ call = [t \in Threads |-> Idle]
    /\ cleared = {}

\* The labels of a thread that is in the middle of creating an object.
Creating == {"ask", "asking", "path", "copying", "read"}

Goto(t, label) == pc' = [pc EXCEPT ![t] = label]

\* What a lookup finds: nonsense, if the map is being changed.
Find(i) == IF writer # None THEN Torn ELSE paths[i]

-----------------------------------------------------------------------------
(* Registering and clearing.                                               *)

Register(t, i, s) ==
    /\ pc[t] = "idle" /\ Goto(t, "change")
    /\ call' = [call EXCEPT ![t] =
                  [Idle EXCEPT !.op = "register", !.index = i, !.path = s]]
    /\ UNCHANGED <<paths, result, writer, readers, cleared>>

Clear(t) ==
    /\ pc[t] = "idle" /\ Goto(t, "change")
    /\ call' = [call EXCEPT ![t].op = "clear"]
    /\ UNCHANGED <<paths, result, writer, readers, cleared>>

EnterExclusive(t) ==
    /\ pc[t] = "change" /\ writer = None /\ readers = {}
    /\ writer' = t /\ Goto(t, "changing")
    /\ UNCHANGED <<paths, result, readers, call, cleared>>

\* Mutant: the lock is held while the game is called.
LeaveLater == UNCHANGED writer

LeaveExclusive == writer' = None

\* The lock is left before the game is called.
Store(t) ==
    /\ pc[t] = "changing" /\ call[t].op = "register"
    /\ paths' = [paths EXCEPT ![call[t].index] = call[t].path]
    /\ LeaveExclusive
    /\ Goto(t, "ask")
    /\ call' = [call EXCEPT ![t].path = None]
    /\ UNCHANGED <<result, readers, cleared>>

ClearPaths(t) ==
    /\ pc[t] = "changing" /\ call[t].op = "clear"
    /\ paths' = [i \in Indices |-> None]
    /\ LeaveExclusive
    /\ cleared' = {u \in Threads : pc[u] \in Creating}
    /\ Goto(t, "idle")
    /\ call' = [call EXCEPT ![t] = Idle]
    /\ UNCHANGED <<result, readers>>

-----------------------------------------------------------------------------
(* The game creates an object: by itself, or because it has been pushed.   *)

Create(t, i) ==
    /\ pc[t] = "idle" /\ Goto(t, "ask")
    /\ call' = [call EXCEPT ![t] = [Idle EXCEPT !.op = "create", !.index = i]]
    /\ UNCHANGED <<paths, result, writer, readers, cleared>>

AllowFixed(t) ==
    /\ pc[t] = "ask" /\ call[t].index \in Fixed
    /\ Goto(t, "path")
    /\ UNCHANGED <<paths, result, writer, readers, call, cleared>>

EnterShared(t, from, to) ==
    /\ pc[t] = from /\ writer = None
    /\ readers' = readers \cup {t} /\ Goto(t, to)
    /\ UNCHANGED <<paths, result, writer, call, cleared>>

Ask(t) == call[t].index \notin Fixed /\ EnterShared(t, "ask", "asking")

\* Mutant: every index is allowed.
AllowedAnyway(t) == TRUE

Allowed(t) == Find(call[t].index) # None

\* ObjectIndexAllowed: the game goes on only with an index that is allowed.
Answer(t) ==
    /\ pc[t] = "asking"
    /\ Goto(t, IF Allowed(t) THEN "path" ELSE "idle")
    /\ call' = IF Allowed(t) THEN call ELSE [call EXCEPT ![t] = Idle]
    /\ readers' = readers \ {t}
    /\ cleared' = IF Allowed(t) THEN cleared ELSE cleared \ {t}
    /\ UNCHANGED <<paths, result, writer>>

LookUp(t) == EnterShared(t, "path", "copying")

\* Mutant: the threads have one copy between them.
KeepForAll(t, s) == result' = [u \in Threads |-> s]

Keep(t, s) == result' = [result EXCEPT ![t] = s]

\* ObjectPathForIndex: the copy is what the game is given a pointer to.
Copy(t) ==
    /\ pc[t] = "copying"
    /\ Keep(t, Find(call[t].index))
    /\ readers' = readers \ {t}
    /\ Goto(t, "read")
    /\ UNCHANGED <<paths, writer, call, cleared>>

\* The game reads the string, or does without one, and the call is over: what
\* is left in the thread's copy is not looked at again.
Read(t) ==
    /\ pc[t] = "read" /\ Goto(t, "idle")
    /\ call' = [call EXCEPT ![t] = Idle]
    /\ result' = [result EXCEPT ![t] = None]
    /\ cleared' = cleared \ {t}
    /\ UNCHANGED <<paths, writer, readers>>

-----------------------------------------------------------------------------
Next ==
    \E t \in Threads :
        \/ \E i \in Indices : Create(t, i) \/ \E s \in Strings : Register(t, i, s)
        \/ Clear(t) \/ EnterExclusive(t) \/ Store(t) \/ ClearPaths(t)
        \/ AllowFixed(t) \/ Ask(t) \/ Answer(t) \/ LookUp(t) \/ Copy(t) \/ Read(t)

Spec == Init /\ [][Next]_vars

-----------------------------------------------------------------------------
Calls ==
    [op : {"none", "register", "clear", "create"}, index : Indices \cup {None},
     path : Strings \cup {None}]

TypeOK ==
    /\ paths \in [Indices -> Strings \cup {None}]
    /\ result \in [Threads -> Strings \cup {None}]
    /\ writer \in Threads \cup {None} /\ readers \subseteq Threads
    /\ pc \in [Threads -> {"idle", "change", "changing", "ask", "asking",
                           "path", "copying", "read"}]
    /\ call \in [Threads -> Calls]
    /\ cleared \subseteq Threads

\* How far a thread is with creating an object, as the game sees it.
Stage(t) == CASE pc[t] \in {"ask", "asking"}   -> "asking"
              [] pc[t] \in {"path", "copying"} -> "allowed"
              [] pc[t] = "read"                -> "given"
              [] OTHER                         -> "idle"

\* The index it is creating an object for, and the path it was given for it.
Object(t) == IF Stage(t) = "idle" THEN None ELSE call[t].index
Given(t)  == IF Stage(t) = "given" THEN result[t] ELSE None

\* The lock, the two lookups and the copy of each thread implement a map that is
\* changed and read at one instant: the string the game reads is the path its
\* index had when it was looked up, whatever other threads register, clear or
\* look up before it has read it.
PM == INSTANCE PathMap WITH
        map    <- paths,
        stage  <- [t \in Threads |-> Stage(t)],
        object <- [t \in Threads |-> Object(t)],
        given  <- [t \in Threads |-> Given(t)]
ImplementsPathMap == PM!Spec

\* An index that was allowed has a path when the game asks for it, unless all
\* paths have been cleared since or it is one of those allowed without
\* looking; an object that a registration has the game create has a path even
\* then.
AllowedHasPath ==
    \A t \in Threads :
        pc[t] = "read" /\ result[t] = None =>
            \/ t \in cleared
            \/ call[t].op = "create" /\ call[t].index \in Fixed

\* A thread that the lock makes wait is not inside it: the game, called by a
\* registration, comes back to the hooks on the same thread.
WaiterHoldsNothing ==
    \A t \in Threads :
        pc[t] \in {"change", "ask", "path"} => writer # t /\ t \notin readers

-----------------------------------------------------------------------------
(* The inductive invariant.                                                *)

\* Who is inside the lock, by where the threads are.
LockInv ==
    /\ \A t \in Threads :
          /\ writer = t <=> pc[t] = "changing"
          /\ t \in readers <=> pc[t] \in {"asking", "copying"}
    /\ writer # None => readers = {}

\* What each thread is doing when it is in the middle of it.
CallInv ==
    \A t \in Threads :
        /\ pc[t] \in {"change", "changing"} =>
              \/ call[t].op = "clear"
              \/ /\ call[t].op = "register"
                 /\ call[t].index \in Indices /\ call[t].path \in Strings
        /\ pc[t] \in Creating =>
              call[t].op \in {"register", "create"} /\ call[t].index \in Indices
        /\ pc[t] = "asking" => call[t].index \notin Fixed

\* From the registration, and from the answer that allowed the index, on until
\* the path is copied, the path is there or all of them have been cleared.
PathInv ==
    \A t \in Threads :
        \/ pc[t] \in {"idle", "change", "changing", "read"}
        \/ t \in cleared \/ paths[call[t].index] # None
        \/ call[t].op = "create" /\ pc[t] \in {"ask", "asking"}
        \/ call[t].op = "create" /\ call[t].index \in Fixed

IInv ==
    /\ TypeOK /\ LockInv /\ CallInv /\ PathInv
    /\ AllowedHasPath

=============================================================================
