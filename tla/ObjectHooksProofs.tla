-------------------------- MODULE ObjectHooksProofs --------------------------
(***************************************************************************)
(* The two machines of object_hooks.cpp, each for any values of its        *)
(* constants: the code sites of ObjectPatches, for any sites that another  *)
(* plugin may patch, and the paths of ObjectPaths, for any threads,        *)
(* indices and paths.  They share no variable: what ties them together is  *)
(* that the game only comes to the paths through the sites.                *)
(***************************************************************************)
EXTENDS ObjectPatches, ObjectPaths, TLAPS

-----------------------------------------------------------------------------
(* The code sites.                                                         *)

\* The other plugin.
LEMMA ForeignPreserves ==
    ASSUME PatchInv, NEW s \in ForeignSites, ForeignPatch(s)
    PROVE  PatchInv'
<1> USE ForeignAssumption DEF PatchInv, ForeignPatch, records, Wanted
<1>1. PatchTypeOK' /\ OperationInv'
    BY DEF PatchTypeOK, OperationInv
<1>2. Restorable' /\ RestoredInv'
    BY DEF PatchTypeOK, Restorable, RestoredInv
<1>3. WrittenInv' /\ InstalledIsComplete'
    BY DEF PatchTypeOK, WrittenInv, InstalledIsComplete
<1>4. BranchAfterTargets'
    BY DEF PatchTypeOK, BranchAfterTargets, AllowedCall, Path, Branch, Sites
<1> QED
    BY <1>1, <1>2, <1>3, <1>4

\* The calls, the checks before the first write, and the ends of the operations.
LEMMA BoundaryPreserves ==
    ASSUME PatchInv,
           \/ \E who \in {"start", "worker"} : CallInstall(who)
           \/ CallRemove
           \/ AlreadyInstalled \/ CheckPasses \/ CheckFails
           \/ AllWritten \/ AllRestored
           \/ UNCHANGED patchVars
    PROVE  PatchInv'
<1> USE DEF PatchInv, records, ghosts, Return, Sites, Wanted, Capture, AllowedCall,
        Path, Branch, Range, Additional
<1>1. CASE \E who \in {"start", "worker"} : CallInstall(who)
    BY <1>1 DEF CallInstall, PatchTypeOK, OperationInv, Restorable, RestoredInv,
        WrittenInv, BranchAfterTargets, InstalledIsComplete
<1>2. CASE CallRemove
    BY <1>2 DEF CallRemove, PatchTypeOK, OperationInv, Restorable, RestoredInv,
        WrittenInv, BranchAfterTargets, InstalledIsComplete
<1>3. CASE AlreadyInstalled
    BY <1>3 DEF AlreadyInstalled, PatchTypeOK, OperationInv, Restorable, RestoredInv,
        WrittenInv, BranchAfterTargets, InstalledIsComplete
<1>4. CASE CheckPasses
    BY <1>4 DEF CheckPasses, PatchTypeOK, OperationInv, Restorable, RestoredInv,
        WrittenInv, BranchAfterTargets, InstalledIsComplete, GameBytes
<1>5. CASE CheckFails
    BY <1>5 DEF CheckFails, GoRemove, PatchTypeOK, OperationInv, Restorable,
        RestoredInv, WrittenInv, BranchAfterTargets, InstalledIsComplete
<1>6. CASE AllWritten
    BY <1>6 DEF AllWritten, PatchTypeOK, OperationInv, Restorable, RestoredInv,
        WrittenInv, BranchAfterTargets, InstalledIsComplete
<1>7. CASE AllRestored
  <2> USE <1>7 DEF AllRestored
  <2>1. at = 0
    BY DEF OperationInv
  <2>2. PatchTypeOK'
    <3>1. installed' \in BOOLEAN
      OBVIOUS
    <3> QED
      BY <3>1 DEF PatchTypeOK
  <2>3. OperationInv' /\ Restorable' /\ RestoredInv'
    BY <2>1 DEF OperationInv, Restorable, RestoredInv
  <2>4. WrittenInv' /\ BranchAfterTargets' /\ InstalledIsComplete'
    BY DEF WrittenInv, BranchAfterTargets, InstalledIsComplete
  <2> QED
    BY <2>2, <2>3, <2>4
<1>8. CASE UNCHANGED patchVars
    BY <1>8 DEF patchVars, PatchTypeOK, OperationInv, Restorable, RestoredInv,
        WrittenInv, BranchAfterTargets, InstalledIsComplete
<1> QED
    BY <1>1, <1>2, <1>3, <1>4, <1>5, <1>6, <1>7, <1>8

\* One write of an installation.
LEMMA WritePreserves ==
    ASSUME PatchInv, WritePatch \/ WritePatchFails
    PROVE  PatchInv'
<1> USE DEF PatchInv, records, ghosts, Sites, Wanted, Capture, AllowedCall, Path,
        Branch, Range, Additional
<1>1. CASE WritePatch
  <2> USE <1>1 DEF WritePatch, Save
  <2>1. at' \in Wanted \cup {7} /\ \A s \in Wanted : s < at' <=> s <= at
    BY DEF NextSite, OperationInv, PatchTypeOK
  <2>2. PatchTypeOK' /\ OperationInv'
    BY <2>1 DEF PatchTypeOK, OperationInv
  <2>3. Restorable'
    BY DEF PatchTypeOK, Restorable
  <2>4. RestoredInv' /\ InstalledIsComplete'
    BY DEF OperationInv, RestoredInv, InstalledIsComplete
  <2>5. WrittenInv'
    BY <2>1 DEF PatchTypeOK, WrittenInv, OperationInv
  <2>6. BranchAfterTargets'
    BY DEF PatchTypeOK, WrittenInv, BranchAfterTargets, OperationInv
  <2> QED
    BY <2>2, <2>3, <2>4, <2>5, <2>6
<1>2. CASE WritePatchFails
  <2> USE <1>2 DEF WritePatchFails, Save, GoRemove, Abandon
  <2>1. PatchTypeOK' /\ OperationInv'
    <3>1. /\ saved' \in [Sites -> BOOLEAN]
          /\ original' \in [Sites -> {"game", "ours", "foreign"}]
      BY DEF PatchTypeOK
    <3> QED
      BY <3>1 DEF PatchTypeOK, OperationInv
  <2>2. Restorable'
    BY DEF PatchTypeOK, Restorable
  <2>3. RestoredInv' /\ WrittenInv' /\ InstalledIsComplete'
    BY DEF RestoredInv, WrittenInv, InstalledIsComplete, OperationInv
  <2>4. BranchAfterTargets'
    BY DEF BranchAfterTargets
  <2> QED
    BY <2>1, <2>2, <2>3, <2>4
<1> QED
    BY <1>1, <1>2

\* One step of a removal: what was saved is put back, unless that fails.
LEMMA RestorePreserves ==
    ASSUME PatchInv, RestorePatch \/ RestorePatchFails \/ NothingToRestore
    PROVE  PatchInv'
<1> USE DEF PatchInv, records, ghosts, Sites, Wanted, Capture, AllowedCall, Path,
        Branch, Range, Additional
<1>1. CASE RestorePatch
  <2> USE <1>1 DEF RestorePatch
  <2>1. PatchTypeOK' /\ OperationInv'
    BY DEF PatchTypeOK, OperationInv
  <2>2. Restorable'
    BY DEF PatchTypeOK, Restorable
  <2>3. RestoredInv' /\ WrittenInv' /\ InstalledIsComplete'
    BY DEF PatchTypeOK, Restorable, RestoredInv, WrittenInv, InstalledIsComplete
  <2>4. BranchAfterTargets'
    BY DEF PatchTypeOK, Restorable, RestoredInv, BranchAfterTargets
  <2> QED
    BY <2>1, <2>2, <2>3, <2>4
<1>2. CASE RestorePatchFails
    BY <1>2 DEF RestorePatchFails, PatchTypeOK, OperationInv, Restorable,
        RestoredInv, WrittenInv, BranchAfterTargets, InstalledIsComplete,
        KeepRecord
<1>3. CASE NothingToRestore
    BY <1>3 DEF NothingToRestore, PatchTypeOK, OperationInv, Restorable,
        RestoredInv, WrittenInv, BranchAfterTargets, InstalledIsComplete
<1> QED
    BY <1>1, <1>2, <1>3

\* The invariant is inductive and so holds in every reachable state.
THEOREM PatchesInvariance == PatchSpec => []PatchInv
<1>1. PatchInit => PatchInv
  <2> SUFFICES ASSUME PatchInit PROVE PatchInv
    OBVIOUS
  <2> USE DEF PatchInit, Sites
  <2>1. PatchTypeOK
    <3>1. saved \in [Sites -> BOOLEAN]
      OBVIOUS
    <3>2. bytes \in [Sites -> {"game", "ours", "foreign"}] /\ original = bytes
      OBVIOUS
    <3>3. installed \in BOOLEAN
      OBVIOUS
    <3> QED
      BY <3>1, <3>2, <3>3 DEF PatchTypeOK
  <2>2. OperationInv /\ Restorable /\ RestoredInv
    BY DEF OperationInv, Restorable, RestoredInv
  <2>3. WrittenInv /\ BranchAfterTargets /\ InstalledIsComplete
    BY DEF WrittenInv, BranchAfterTargets, InstalledIsComplete, Branch
  <2> QED
    BY <2>1, <2>2, <2>3 DEF PatchInv
<1>2. PatchInv /\ [PatchNext]_patchVars => PatchInv'
    BY ForeignPreserves, BoundaryPreserves, WritePreserves, RestorePreserves
    DEF PatchNext
<1> QED
    BY <1>1, <1>2, PTL DEF PatchSpec

\* Every patch can be taken back, and to the bytes that were there before it.
THEOREM PatchesAreRestorable == PatchSpec => []Restorable
<1>1. PatchInv => Restorable
    BY DEF PatchInv
<1> QED
    BY <1>1, PatchesInvariance, PTL

\* The game never runs without its branch unless its replacements are there.
THEOREM BranchIsGuarded == PatchSpec => []BranchAfterTargets
<1>1. PatchInv => BranchAfterTargets
    BY DEF PatchInv
<1> QED
    BY <1>1, PatchesInvariance, PTL

\* Hooks are installed as a whole or not at all, but for what cannot be restored.
THEOREM AllOrNothing == PatchSpec => [](InstalledIsComplete /\ CleanWhenOff)
<1>1. PatchInv => InstalledIsComplete /\ CleanWhenOff
    BY DEF PatchInv, RestoredInv, CleanWhenOff
<1> QED
    BY <1>1, PatchesInvariance, PTL

\* A site that another plugin had when the installation began is left alone.
THEOREM ForeignSitesAreChecked == PatchSpec => ForeignAtCheckKept
<1>1. PatchInv => [WritePatch /\ bytes[at] = "foreign" => at \in late]_patchVars
    BY DEF PatchInv, OperationInv, WrittenInv, WritePatch, Sites, Wanted, Range
<1> QED
    BY <1>1, PatchesInvariance, PTL DEF ForeignAtCheckKept

-----------------------------------------------------------------------------
(* The paths.                                                              *)

\* The calls that begin, and the call that has read its path, are calls.
LEMMA CallTypes ==
    /\ Idle \in Calls
    /\ \A i \in Indices, s \in Strings :
          [Idle EXCEPT !.op = "register", !.index = i, !.path = s] \in Calls
    /\ \A i \in Indices : [Idle EXCEPT !.op = "create", !.index = i] \in Calls
    /\ \A c \in Calls :
          /\ [c EXCEPT !.op = "clear"] \in Calls
          /\ [c EXCEPT !.path = None] \in Calls
BY DEF Idle, Calls

\* The beginning of a call, and the end of one that has read its path.
LEMMA CallPreserves ==
    ASSUME IInv, NEW t \in Threads,
           \/ \E i \in Indices, s \in Strings : Register(t, i, s)
           \/ \E i \in Indices : Create(t, i)
           \/ Clear(t) \/ Read(t)
    PROVE  IInv'
<1> USE Distinct DEF IInv, Goto, Creating
<1> DEFINE Begun(c) ==
        \/ c.op = "clear"
        \/ c.op = "register" /\ c.index \in Indices /\ c.path \in Strings
<1>1. PICK label \in {"idle", "change", "ask"}, c \in Calls :
        /\ pc[t] \in {"idle", "read"} /\ pc' = [pc EXCEPT ![t] = label]
        /\ call' = [call EXCEPT ![t] = c]
        /\ label = "change" => Begun(c)
        /\ label = "ask" => c.op = "create" /\ c.index \in Indices
        /\ UNCHANGED <<paths, writer, readers>>
        /\ result' \in {result, [result EXCEPT ![t] = None]}
        /\ cleared' \in {cleared, cleared \ {t}}
    <2>1. CASE \E i \in Indices, s \in Strings : Register(t, i, s)
        <3>1. PICK i \in Indices, s \in Strings : Register(t, i, s)
            BY <2>1
        <3> DEFINE c == [Idle EXCEPT !.op = "register", !.index = i, !.path = s]
        <3>2. c \in Calls /\ Begun(c)
            BY CallTypes DEF Idle
        <3> QED
            BY <3>1, <3>2 DEF Register
    <2>2. CASE \E i \in Indices : Create(t, i)
        <3>1. PICK i \in Indices : Create(t, i)
            BY <2>2
        <3> DEFINE c == [Idle EXCEPT !.op = "create", !.index = i]
        <3>2. c \in Calls /\ c.op = "create" /\ c.index \in Indices
            BY CallTypes DEF Idle
        <3> QED
            BY <3>1, <3>2 DEF Create
    <2>3. CASE Clear(t)
        <3> DEFINE c == [call[t] EXCEPT !.op = "clear"]
        <3>0. call[t] \in Calls
            BY DEF TypeOK
        <3>1. c \in Calls /\ Begun(c)
            <4>1. c \in Calls
                BY <3>0, CallTypes
            <4>2. c.op = "clear"
                BY <3>0 DEF Calls
            <4> QED
                BY <4>1, <4>2
        <3>2. call' = [call EXCEPT ![t] = c]
            BY <2>3 DEF Clear, TypeOK
        <3> QED
            BY <2>3, <3>1, <3>2 DEF Clear
    <2>4. CASE Read(t)
        BY <2>4, CallTypes DEF Read
    <2> QED
        BY <2>1, <2>2, <2>3, <2>4
<1>2. TypeOK'
    BY <1>1 DEF TypeOK
<1>3. /\ pc'[t] = label /\ call'[t] = c
      /\ \A u \in Threads : u # t => pc'[u] = pc[u] /\ call'[u] = call[u]
      /\ \A u \in Threads : u # t => result'[u] = result[u]
      /\ \A u \in Threads : u # t => (u \in cleared' <=> u \in cleared)
    BY <1>1 DEF TypeOK
<1>4. LockInv'
    BY <1>1, <1>3 DEF LockInv
<1>5. CallInv'
    BY <1>1, <1>3 DEF CallInv
<1>6. PathInv'
    BY <1>1, <1>3 DEF PathInv
<1>7. AllowedHasPath'
    BY <1>1, <1>3 DEF AllowedHasPath
<1> QED
    BY <1>2, <1>4, <1>5, <1>6, <1>7

\* Entering the lock.
LEMMA EnterPreserves ==
    ASSUME IInv, NEW t \in Threads,
           EnterExclusive(t) \/ Ask(t) \/ LookUp(t) \/ AllowFixed(t)
    PROVE  IInv'
<1> USE Distinct
        DEF IInv, EnterExclusive, Ask, LookUp, AllowFixed, EnterShared, Goto,
            Creating
<1>1. TypeOK'
    BY DEF TypeOK
<1>2. LockInv'
    BY DEF TypeOK, LockInv
<1>3. CallInv'
    BY DEF TypeOK, CallInv
<1>4. PathInv'
    BY DEF TypeOK, PathInv, CallInv
<1>5. AllowedHasPath'
    BY DEF TypeOK, AllowedHasPath
<1> QED
    BY <1>1, <1>2, <1>3, <1>4, <1>5

\* Changing the map and leaving the lock.
LEMMA ChangePreserves ==
    ASSUME IInv, NEW t \in Threads, Store(t) \/ ClearPaths(t)
    PROVE  IInv'
<1> USE Distinct DEF IInv, Goto
<1>0. /\ \A u \in Threads : u # t => pc'[u] = pc[u] /\ call'[u] = call[u]
      /\ UNCHANGED <<result, readers>> /\ writer' = None
      /\ pc[t] = "changing"
    BY DEF TypeOK, Store, ClearPaths, LeaveExclusive
<1>1. CASE Store(t)
    <2>1. /\ call[t] \in Calls /\ call[t].op = "register"
          /\ call[t].index \in Indices /\ call[t].path \in Strings
        BY <1>1 DEF TypeOK, CallInv, Store
    <2>2. call' = [call EXCEPT ![t] = [call[t] EXCEPT !.path = None]]
        BY <1>1 DEF Store
    <2>3. [call[t] EXCEPT !.path = None] \in Calls
        BY <2>1, CallTypes
    <2>4. TypeOK'
        BY <1>1, <2>1, <2>2, <2>3 DEF TypeOK, Store, LeaveExclusive
    <2>5. /\ call'[t].op = "register" /\ call'[t].index = call[t].index
          /\ pc'[t] = "ask" /\ UNCHANGED cleared
        BY <1>1, <2>1, <2>2 DEF TypeOK, Calls, Store
    <2>6. /\ paths'[call[t].index] # None
          /\ \A i \in Indices : paths[i] # None => paths'[i] # None
        BY <1>1, <2>1 DEF TypeOK, Store
    <2>7. LockInv'
        BY <1>0, <2>5 DEF LockInv
    <2>8. CallInv'
        BY <1>0, <2>1, <2>5 DEF CallInv, Creating
    <2>9. PathInv'
        BY <1>0, <2>5, <2>6 DEF PathInv, CallInv, TypeOK, Creating
    <2>10. AllowedHasPath'
        BY <1>0, <2>5 DEF AllowedHasPath
    <2> QED
        BY <2>4, <2>7, <2>8, <2>9, <2>10
<1>2. CASE ClearPaths(t)
    <2>1. /\ pc'[t] = "idle"
          /\ cleared' = {u \in Threads : pc[u] \in Creating}
        BY <1>2 DEF TypeOK, ClearPaths
    <2>2. TypeOK'
        BY <1>2, CallTypes DEF TypeOK, ClearPaths, LeaveExclusive
    <2>3. LockInv'
        BY <1>0, <2>1 DEF LockInv
    <2>4. CallInv'
        BY <1>0, <2>1 DEF CallInv, Creating
    <2>5. PathInv'
        BY <1>0, <2>1 DEF PathInv, Creating, TypeOK
    <2>6. AllowedHasPath'
        BY <1>0, <2>1 DEF AllowedHasPath, Creating
    <2> QED
        BY <2>2, <2>3, <2>4, <2>5, <2>6
<1> QED
    BY <1>1, <1>2

\* Looking into the map and leaving the lock: nobody is changing it.
LEMMA LookPreserves ==
    ASSUME IInv, NEW t \in Threads, Answer(t) \/ Copy(t)
    PROVE  IInv'
<1> USE Distinct DEF IInv, Goto, Creating
<1> DEFINE p == paths[call[t].index]
<1>0. /\ Find(call[t].index) = p /\ call[t].index \in Indices
      /\ p \in Strings \cup {None} /\ call[t].op \in {"register", "create"}
    BY DEF TypeOK, LockInv, CallInv, Find, Answer, Copy, Creating
<1>1. TypeOK'
    <2>1. CASE Answer(t)
        BY <2>1, CallTypes DEF TypeOK, Answer
    <2>2. CASE Copy(t)
        BY <1>0, <2>2 DEF TypeOK, Copy, Keep
    <2> QED
        BY <2>1, <2>2
<1>2. LockInv'
    BY <1>0 DEF TypeOK, LockInv, Answer, Copy
<1>3. /\ \A u \in Threads : u # t => pc'[u] = pc[u] /\ call'[u] = call[u]
      /\ \A u \in Threads : u # t => result'[u] = result[u]
      /\ \A u \in Threads : u # t => (u \in cleared' <=> u \in cleared)
      /\ UNCHANGED paths
    BY DEF TypeOK, Answer, Copy, Keep
<1>4. CASE Copy(t)
    <2>1. /\ pc'[t] = "read" /\ result'[t] = p /\ pc[t] = "copying"
          /\ UNCHANGED <<call, cleared>>
        BY <1>0, <1>4 DEF TypeOK, Copy, Keep
    <2>2. CallInv'
        BY <1>0, <1>3, <2>1 DEF CallInv
    <2>3. PathInv'
        BY <1>3, <2>1 DEF PathInv
    <2>4. AllowedHasPath'
        BY <1>0, <1>3, <2>1 DEF AllowedHasPath, PathInv
    <2> QED
        BY <1>1, <1>2, <2>2, <2>3, <2>4
<1>5. CASE Answer(t)
    <2>1. /\ pc[t] = "asking"
          /\ IF p # None
             THEN pc'[t] = "path" /\ call'[t] = call[t]
             ELSE pc'[t] = "idle"
        BY <1>0, <1>5 DEF TypeOK, Answer, Allowed
    <2>2. CallInv'
        BY <1>0, <1>3, <2>1 DEF CallInv, Creating
    <2>3. PathInv'
        BY <1>0, <1>3, <2>1 DEF PathInv
    <2>4. AllowedHasPath'
        BY <1>3, <2>1 DEF AllowedHasPath
    <2> QED
        BY <1>1, <1>2, <2>2, <2>3, <2>4
<1> QED
    BY <1>4, <1>5

\* The inductive invariant: who is inside the lock is where a thread is, and
\* between allowing an index and copying its path the path stays, or all go.
THEOREM PathsInvariance == Spec => []IInv
<1>1. Init => IInv
    <2> SUFFICES ASSUME Init PROVE IInv
        OBVIOUS
    <2>1. TypeOK
        BY CallTypes DEF Init, TypeOK
    <2>2. LockInv
        BY Distinct DEF Init, LockInv
    <2>3. CallInv /\ PathInv /\ AllowedHasPath
        BY DEF Init, CallInv, PathInv, AllowedHasPath, Creating
    <2> QED
        BY <2>1, <2>2, <2>3 DEF IInv
<1>2. IInv /\ [Next]_vars => IInv'
    <2> SUFFICES ASSUME IInv, [Next]_vars PROVE IInv'
        OBVIOUS
    <2>1. CASE Next
        BY <2>1, CallPreserves, EnterPreserves, ChangePreserves, LookPreserves
            DEF Next
    <2>2. CASE UNCHANGED vars
        BY <2>2 DEF vars, IInv, TypeOK, LockInv, CallInv, PathInv,
            AllowedHasPath
    <2> QED
        BY <2>1, <2>2
<1> QED
    BY <1>1, <1>2, PTL DEF Spec

\* An index that was allowed has a path when the game asks for it, unless all
\* paths have been cleared or it is allowed without looking.
THEOREM AllowedPath == Spec => []AllowedHasPath
<1>1. IInv => AllowedHasPath
    BY DEF IInv
<1> QED
    BY <1>1, PathsInvariance, PTL

\* No thread waits for a lock that it is inside itself.
THEOREM NoSelfWait == Spec => []WaiterHoldsNothing
<1>1. IInv => WaiterHoldsNothing
    BY DEF IInv, LockInv, WaiterHoldsNothing
<1> QED
    BY <1>1, PathsInvariance, PTL

-----------------------------------------------------------------------------
(* The refinement of PathMap.                                              *)

\* A step that shows in one thread only is a step of that thread in PathMap.
LEMMA OneThread ==
    ASSUME NEW t \in Threads,
           \A u \in Threads : u # t =>
               /\ Stage(u)' = Stage(u)
               /\ Object(u)' = Object(u)
               /\ Given(u)' = Given(u)
    PROVE  PM!Step(t, Stage(t), Stage(t)', Object(t)', Given(t)')
BY DEF PM!Step

\* Registering, clearing and creating.
LEMMA ChangeRefines ==
    ASSUME IInv, NEW t \in Threads,
           \/ \E i \in Indices, s \in Strings : Register(t, i, s)
           \/ \E i \in Indices : Create(t, i)
           \/ Clear(t) \/ EnterExclusive(t) \/ Store(t) \/ ClearPaths(t)
    PROVE  [PM!Next]_(PM!vars)
<1> USE DEF IInv, Goto
<1> DEFINE Others ==
        \A u \in Threads : u # t =>
            /\ Stage(u)' = Stage(u)
            /\ Object(u)' = Object(u)
            /\ Given(u)' = Given(u)
<1>1. CASE \/ \E i \in Indices, s \in Strings : Register(t, i, s)
           \/ Clear(t) \/ EnterExclusive(t)
    <2>1. \A u \in Threads : Stage(u)' = Stage(u) /\ Object(u)' = Object(u)
                                /\ Given(u)' = Given(u)
        BY <1>1 DEF TypeOK, Register, Clear, EnterExclusive, Stage, Object, Given
    <2>2. UNCHANGED paths
        BY <1>1 DEF Register, Clear, EnterExclusive
    <2> QED
        BY <2>1, <2>2 DEF PM!vars
<1>2. CASE \E i \in Indices : Create(t, i)
    <2>1. PICK i \in Indices : Create(t, i)
        BY <1>2
    <2>2. Others
        BY <2>1 DEF TypeOK, Create, Stage, Object, Given
    <2>3. /\ Stage(t) = "idle" /\ Stage(t)' = "asking"
          /\ Object(t)' = i /\ Given(t)' = None /\ UNCHANGED paths
        BY <2>1 DEF TypeOK, Create, Idle, Stage, Object, Given
    <2>4. PM!Create(t, i)
        BY <2>2, <2>3, OneThread DEF PM!Create
    <2> QED
        BY <2>4 DEF PM!Next
<1>3. CASE Store(t)
    <2> DEFINE i == call[t].index
               s == call[t].path
    <2>1. i \in Indices /\ s \in Strings /\ call[t] \in Calls
        BY <1>3 DEF TypeOK, CallInv, Store
    <2>2. Others
        BY <1>3 DEF TypeOK, Store, Stage, Object, Given
    <2>3. /\ Stage(t) = "idle" /\ Stage(t)' = "asking"
          /\ Object(t)' = i /\ Given(t)' = None
          /\ paths' = [paths EXCEPT ![i] = s]
        BY <1>3, <2>1 DEF TypeOK, Calls, Store, Stage, Object, Given
    <2>4. PM!Put(t, i, s)
        BY <2>2, <2>3, OneThread DEF PM!Put
    <2> QED
        BY <2>1, <2>4 DEF PM!Next
<1>4. CASE ClearPaths(t)
    <2>1. \A u \in Threads : Stage(u)' = Stage(u) /\ Object(u)' = Object(u)
                                /\ Given(u)' = Given(u)
        BY <1>4 DEF TypeOK, ClearPaths, Stage, Object, Given
    <2>2. PM!Wipe
        BY <1>4, <2>1 DEF PM!Wipe, ClearPaths
    <2> QED
        BY <2>2 DEF PM!Next
<1> QED
    BY <1>1, <1>2, <1>3, <1>4

\* Asking, looking up and reading.
LEMMA LookRefines ==
    ASSUME IInv, NEW t \in Threads,
           \/ AllowFixed(t) \/ Ask(t) \/ Answer(t)
           \/ LookUp(t) \/ Copy(t) \/ Read(t)
    PROVE  [PM!Next]_(PM!vars)
<1> USE DEF IInv, Goto
<1> DEFINE i == call[t].index
           Others ==
             \A u \in Threads : u # t =>
                 /\ Stage(u)' = Stage(u)
                 /\ Object(u)' = Object(u)
                 /\ Given(u)' = Given(u)
<1>0. UNCHANGED paths /\ Others
    BY DEF TypeOK, AllowFixed, Ask, Answer, LookUp, Copy, Keep, Read, EnterShared,
        Stage, Object, Given
<1>1. CASE AllowFixed(t)
    <2>1. /\ Stage(t) = "asking" /\ Stage(t)' = "allowed" /\ i \in Fixed
          /\ Object(t) = i /\ Object(t)' = i /\ Given(t)' = None
        BY <1>1 DEF TypeOK, AllowFixed, Stage, Object, Given
    <2>2. PM!Allow(t)
        BY <1>0, <2>1, OneThread DEF PM!Allow
    <2> QED
        BY <2>2 DEF PM!Next
<1>2. CASE Ask(t) \/ LookUp(t)
    <2>1. Stage(t)' = Stage(t) /\ Object(t)' = Object(t) /\ Given(t)' = Given(t)
        BY <1>2 DEF TypeOK, Ask, LookUp, EnterShared, Stage, Object, Given
    <2> QED
        BY <1>0, <2>1 DEF PM!vars
<1>3. CASE Answer(t)
    <2>1. i \notin Fixed \/ Allowed(t)
        BY <1>3 DEF Answer, CallInv
    <2>2. Allowed(t) <=> paths[i] # None
        BY <1>3 DEF Answer, Allowed, Find, LockInv
    <2>3. /\ Stage(t) = "asking" /\ Object(t) = i
          /\ Given(t)' = None
          /\ IF Allowed(t) THEN Stage(t)' = "allowed" /\ Object(t)' = i
             ELSE Stage(t)' = "idle" /\ Object(t)' = None
        BY <1>3 DEF TypeOK, Answer, Stage, Object, Given
    <2>4. IF Allowed(t) THEN PM!Allow(t) ELSE PM!Refuse(t)
        BY <1>0, <2>1, <2>2, <2>3, OneThread DEF PM!Allow, PM!Refuse
    <2> QED
        BY <2>4 DEF PM!Next
<1>4. CASE Copy(t)
    <2>1. Find(i) = paths[i]
        BY <1>4 DEF Copy, Find, LockInv
    <2>2. /\ Stage(t) = "allowed" /\ Stage(t)' = "given"
          /\ Object(t) = i /\ Object(t)' = i /\ Given(t)' = paths[i]
        BY <1>4, <2>1 DEF TypeOK, Copy, Keep, Stage, Object, Given
    <2>3. PM!Give(t)
        BY <1>0, <2>2, OneThread DEF PM!Give
    <2> QED
        BY <2>3 DEF PM!Next
<1>5. CASE Read(t)
    <2>1. /\ Stage(t) = "given" /\ Stage(t)' = "idle"
          /\ Object(t)' = None /\ Given(t)' = None
        BY <1>5 DEF TypeOK, Read, Stage, Object, Given
    <2>2. PM!Finish(t)
        BY <1>0, <2>1, OneThread DEF PM!Finish
    <2> QED
        BY <2>2 DEF PM!Next
<1> QED
    BY <1>1, <1>2, <1>3, <1>4, <1>5

\* The lock, the lookups and the copies of the threads implement a map that is
\* changed and read at one instant.
THEOREM PathsRefinement == Spec => ImplementsPathMap
<1>1. Init => PM!Init
    BY DEF Init, PM!Init, Stage, Object, Given
<1>2. IInv /\ [Next]_vars => [PM!Next]_(PM!vars)
    <2> SUFFICES ASSUME IInv, [Next]_vars PROVE [PM!Next]_(PM!vars)
        OBVIOUS
    <2>1. CASE Next
        BY <2>1, ChangeRefines, LookRefines DEF Next
    <2>2. CASE UNCHANGED vars
        BY <2>2 DEF vars, PM!vars, Stage, Object, Given
    <2> QED
        BY <2>1, <2>2
<1> QED
    BY <1>1, <1>2, PathsInvariance, PTL DEF Spec, ImplementsPathMap, PM!Spec
=============================================================================
