------------------------------ MODULE PathMap ------------------------------
(***************************************************************************)
(* What the object hooks promise to the game: a map from object indices to *)
(* paths that every call changes, asks or reads at one instant, without    *)
(* locks, and a string that nobody but the thread that asked for it sees.  *)
(***************************************************************************)
CONSTANTS
    Threads,
    Indices,
    Fixed,        \* indices that are allowed whether they have a path or not
    Strings,
    None          \* no path

VARIABLES
    map,          \* the path of each index, or None
    stage,        \* how far each thread is with creating an object
    object,       \* the index of that object
    given         \* the path that thread was given for it

vars == <<map, stage, object, given>>

Init ==
    /\ map = [i \in Indices |-> None]
    /\ stage = [t \in Threads |-> "idle"]
    /\ object = [t \in Threads |-> None]
    /\ given = [t \in Threads |-> None]

Step(t, from, to, i, s) ==
    /\ stage[t] = from
    /\ stage' = [stage EXCEPT ![t] = to]
    /\ object' = [object EXCEPT ![t] = i]
    /\ given' = [given EXCEPT ![t] = s]

\* A path is registered, and the same thread goes on to create the object.
Put(t, i, s) ==
    /\ Step(t, "idle", "asking", i, None)
    /\ map' = [map EXCEPT ![i] = s]

Wipe == map' = [i \in Indices |-> None] /\ UNCHANGED <<stage, object, given>>

Create(t, i) == Step(t, "idle", "asking", i, None) /\ UNCHANGED map

Allow(t) ==
    /\ Step(t, "asking", "allowed", object[t], None)
    /\ object[t] \in Fixed \/ map[object[t]] # None
    /\ UNCHANGED map

Refuse(t) ==
    /\ Step(t, "asking", "idle", None, None)
    /\ object[t] \notin Fixed /\ map[object[t]] = None
    /\ UNCHANGED map

Give(t) ==
    /\ Step(t, "allowed", "given", object[t], map[object[t]])
    /\ UNCHANGED map

Finish(t) == Step(t, "given", "idle", None, None) /\ UNCHANGED map

Next ==
    \/ Wipe
    \/ \E t \in Threads :
          \/ Allow(t) \/ Refuse(t) \/ Give(t) \/ Finish(t)
          \/ \E i \in Indices : Create(t, i) \/ \E s \in Strings : Put(t, i, s)

Spec == Init /\ [][Next]_vars
=============================================================================
