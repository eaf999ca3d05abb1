-------------------------- MODULE ExtensionProofs --------------------------
(***************************************************************************)
(* For any threads, addresses and counts: the composition of Extension     *)
(* implements both of its components, and a stop leaves no thread with a   *)
(* VM.  The invariant says that RegisterCurrentVm belongs to the owner of  *)
(* the registration lock.                                                  *)
(***************************************************************************)
EXTENDS Extension, TLAPS

\* The labels are those of WorkerLifecycle, and those inside RegisterCurrentVm
\* belong to the lock's owner.
OwnerInv ==
    /\ pc \in [Callers -> L!CallerLabels]
    /\ wpc \in [Workers -> L!WorkerLabels]
    /\ \A c \in Callers : registrationLock = c <=> pc[c] = "registering"
    /\ \A w \in Workers : registrationLock = w <=> wpc[w] = "registering"

\* So do the locals, and a thread that is in the VM has attempted it.
LocalInv ==
    /\ call \in [Threads -> Calls]
    /\ \A t \in Threads : call[t] # NoCall => registrationLock = t
    /\ \A t \in Threads :
          call[t].pc \in {"natives", "check", "install"} => attempted = call[t].vm

ExtInv == OwnerInv /\ LocalInv

LEMMA InitInv == Init => ExtInv
<1> SUFFICES ASSUME Init PROVE ExtInv
    OBVIOUS
<1>1. OwnerInv
    BY ThreadsApart DEF Init, OwnerInv, L!Init, L!CallerLabels, L!WorkerLabels
<1>2. LocalInv
    BY DEF Init, LocalInv, NoCall, Calls
<1> QED
    BY <1>1, <1>2 DEF ExtInv

-----------------------------------------------------------------------------
(* The threads outside of RegisterCurrentVm.                               *)

\* A new worker thread is not in RegisterCurrentVm.
LEMMA SpawnKeepsOwner ==
    ASSUME wpc \in [Workers -> L!WorkerLabels], L!SpawnWorker
    PROVE  /\ wpc' \in [Workers -> L!WorkerLabels]
           /\ \A w \in Workers : wpc'[w] = "registering" <=> wpc[w] = "registering"
BY DEF L!SpawnWorker, L!NoWorker, L!WGoto, L!Live, L!WorkerLabels

LEMMA CallerOutsideInv ==
    ASSUME OwnerInv, NEW c \in Callers, CallerOutside(c)
    PROVE  OwnerInv'
<1> USE ThreadsApart DEF OwnerInv, L!At, L!Goto
<1>1. CASE L!SpawnOrKeep(c)
    BY <1>1, SpawnKeepsOwner DEF L!SpawnOrKeep, L!CallerLabels, L!WorkerLabels
<1>2. CASE L!TryRegister(c)
  <2>1. pc' \in [Callers -> L!CallerLabels] /\ wpc' = wpc
    BY <1>2 DEF L!TryRegister, L!CallerLabels
  <2>2. CASE registrationLock = None /\ registrationLock' = c
    <3>1. pc' = [pc EXCEPT ![c] = "registering"]
      BY <1>2, <2>2 DEF L!TryRegister
    <3> QED
      BY <2>1, <2>2, <3>1
  <2>3. CASE UNCHANGED registrationLock
    <3>1. pc[c] = "register" /\ pc' = [pc EXCEPT ![c] = "ok"]
      BY <1>2, <2>3 DEF L!TryRegister, L!RegistrationFree
    <3> QED
      BY <2>1, <2>3, <3>1
  <2> QED
    BY <1>2, <2>2, <2>3 DEF L!TryRegister, L!RegistrationFree
<1>3. CASE L!Return(c)
    BY <1>3 DEF L!Return, L!CallerLabels
<1>4. CASE L!AcquireLifecycle(c) \/ L!InstallHooks(c) \/ L!LockWorker(c)
           \/ L!ReapWorker(c)
    BY <1>4 DEF L!AcquireLifecycle, L!InstallHooks, L!LockWorker, L!ReapWorker,
    L!lockVars, L!CallerLabels
<1>5. CASE L!Signal(c) \/ L!Join(c) \/ L!Unhook(c)
    BY <1>5 DEF L!Signal, L!Join, L!Unhook, L!lockVars, L!CallerLabels
<1> QED
    BY <1>1, <1>2, <1>3, <1>4, <1>5 DEF CallerOutside

LEMMA WorkerOutsideInv ==
    ASSUME OwnerInv, NEW w \in Workers, WorkerOutside(w)
    PROVE  OwnerInv'
<1> USE ThreadsApart DEF OwnerInv, L!WAt, L!WGoto, L!lockVars, L!callerVars,
    L!WorkerLabels
<1>1. CASE L!WTryRegister(w)
    BY <1>1 DEF L!WTryRegister, L!RegistrationFree
<1>2. CASE L!Boot(w) \/ L!CheckFlag(w) \/ L!Poll(w)
    BY <1>2 DEF L!Boot, L!CheckFlag, L!Poll
<1>3. CASE L!TryLifecycle(w) \/ L!InstallOrGiveUp(w)
    BY <1>3 DEF L!TryLifecycle, L!InstallOrGiveUp
<1> QED
    BY <1>1, <1>2, <1>3 DEF WorkerOutside

LEMMA OtherOutsideInv ==
    ASSUME OwnerInv,
           \/ L!Attach
           \/ \E c \in Callers, op \in {"start", "stop"} : L!Call(c, op)
    PROVE  OwnerInv'
<1>1. CASE L!Attach
    BY <1>1, SpawnKeepsOwner DEF OwnerInv, L!Attach, L!lockVars, L!callerVars
<1>2. CASE \E c \in Callers, op \in {"start", "stop"} : L!Call(c, op)
    BY <1>2 DEF OwnerInv, L!Call, L!At, L!Goto, L!lockVars, L!CallerLabels
<1> QED
    BY <1>1, <1>2

\* A thread outside takes the lock only when it is free.
LEMMA LockTaken ==
    ASSUME \/ \E c \in Callers : CallerOutside(c)
           \/ \E w \in Workers : WorkerOutside(w)
           \/ L!Attach
           \/ \E c \in Callers, op \in {"start", "stop"} : L!Call(c, op)
    PROVE  \/ registrationLock = None /\ registrationLock' \in Threads
           \/ UNCHANGED registrationLock
BY DEF Threads, CallerOutside, WorkerOutside, L!AcquireLifecycle, L!InstallHooks,
   L!LockWorker, L!ReapWorker, L!SpawnOrKeep, L!TryRegister, L!Signal, L!Join,
   L!Unhook, L!Return, L!Boot, L!CheckFlag, L!TryLifecycle, L!InstallOrGiveUp,
   L!Poll, L!WTryRegister, L!Attach, L!Call, L!lockVars, L!RegistrationFree

Outside ==
    \/ \E c \in Callers : CallerOutside(c)
    \/ \E w \in Workers : WorkerOutside(w)
    \/ L!Attach
    \/ \E c \in Callers, op \in {"start", "stop"} : L!Call(c, op)

\* A step outside of RegisterCurrentVm keeps the invariant and does not change
\* the one call that is in progress.
LEMMA OutsideStep ==
    ASSUME ExtInv, Apart, Outside
    PROVE  ExtInv' /\ Current' = Current
<1>1. OwnerInv'
    BY CallerOutsideInv, WorkerOutsideInv, OtherOutsideInv DEF ExtInv, Outside
<1>2. \/ registrationLock = None /\ registrationLock' \in Threads
      \/ UNCHANGED registrationLock
    BY LockTaken DEF Outside
<1>3. LocalInv'
    BY <1>2, ThreadsApart DEF ExtInv, LocalInv, Apart, vmVars, Threads
<1>4. Current' = Current
    BY <1>2, ThreadsApart DEF ExtInv, LocalInv, Apart, Current, Threads
<1> QED
    BY <1>1, <1>3, <1>4 DEF ExtInv

-----------------------------------------------------------------------------
(* A thread in RegisterCurrentVm.                                          *)

\* It has the lock, so its locals are the ones VmRegistration sees, before the
\* step and after it.
LEMMA StepOfOwner ==
    ASSUME ExtInv, NEW t \in Threads, RegisterStep(t)
    PROVE  /\ registrationLock = t
           /\ call[t] = Current /\ call[t] \in Calls
           /\ call'[t] = Current' /\ call'[t] \in Calls
           /\ call' = [call EXCEPT ![t] = call'[t]]
           /\ R(t)!CallStep
           /\ Release(call'[t]) /\ GoOn(t, call'[t])
<1>1. registrationLock = t /\ t # None
    BY ThreadsApart DEF ExtInv, OwnerInv, RegisterStep, Registering, Threads
<1>2. call \in [Threads -> Calls]
    BY DEF ExtInv, LocalInv
<1>3. PICK next \in Calls : /\ call' = [call EXCEPT ![t] = next]
                            /\ R(t)!CallStep
                            /\ Release(next)
                            /\ GoOn(t, next)
    BY DEF RegisterStep
<1>4. call'[t] = next
    BY <1>2, <1>3
<1>5. next.pc = "idle" => next = NoCall
    BY DEF Calls
<1>6. call'[t] = Current'
    BY <1>1, <1>3, <1>4, <1>5 DEF Current, Release
<1> QED
    BY <1>1, <1>2, <1>3, <1>4, <1>6 DEF Current

\* What a step does to the VM pointers: unless it is the last of its call it
\* leaves them alone but for the entry into a VM that was attempted before.
LEMMA PointersOfStep ==
    ASSUME NEW t \in Threads, R(t)!CallStep, call[t] \in Calls, call'[t] \in Calls,
           call[t].pc \in {"natives", "check", "install"} => attempted = call[t].vm
    PROVE  /\ call'[t].pc # "idle" => UNCHANGED <<registered, attempted>>
           /\ call'[t].pc \in {"natives", "check", "install"} =>
                  attempted' = call'[t].vm
           /\ call'[t].pc = "idle" =>
                  L!RegisterOutcome
<1> USE DEF R!stateVars, R!callVars, R!Return, R!Forget
<1>1. CASE R(t)!PollNull
    BY <1>1 DEF R!PollNull, Calls, NoCall, L!RegisterOutcome, Trace
<1>2. CASE R(t)!Poll
    BY <1>2 DEF R!Poll
<1>3. CASE R(t)!CheckSentinel
    BY <1>3 DEF R!CheckSentinel, L!RegisterOutcome, Trace
<1>4. CASE R(t)!Observe
    BY <1>4 DEF R!Observe, L!RegisterOutcome, Trace
<1>5. CASE R(t)!Defer
    BY <1>5 DEF R!Defer, L!RegisterOutcome, Trace
<1>6. CASE R(t)!Attempt
    BY <1>6 DEF R!Attempt
<1>7. CASE R(t)!RegisterNative \/ R(t)!FailNative
    BY <1>7 DEF R!RegisterNative, R!FailNative, L!RegisterOutcome, Trace
<1>8. CASE R(t)!CheckCurrent \/ R(t)!FailClosure
    BY <1>8 DEF R!CheckCurrent, R!FailClosure, L!RegisterOutcome, Trace
<1>9. CASE R(t)!InstallClosure
    BY <1>9, NullApart DEF R!InstallClosure, L!RegisterOutcome, Trace, Calls, NoCall
<1> QED
    BY <1>1, <1>2, <1>3, <1>4, <1>5, <1>6, <1>7, <1>8, <1>9 DEF R!CallStep

LEMMA RegisterStepInv ==
    ASSUME ExtInv, NEW t \in Threads, RegisterStep(t)
    PROVE  ExtInv'
<1>1. OwnerInv'
    BY StepOfOwner, ThreadsApart
    DEF ExtInv, OwnerInv, Release, GoOn, Threads, L!CallerLabels, L!WorkerLabels
<1>2. LocalInv'
  <2>1. call' \in [Threads -> Calls]
    BY StepOfOwner DEF ExtInv, LocalInv
  <2>2. \A u \in Threads \ {t} : call'[u] = call[u] /\ call[u] = NoCall
    BY StepOfOwner DEF ExtInv, LocalInv
  <2>3. call'[t] # NoCall => registrationLock' = t
    BY StepOfOwner DEF Release, Calls
  <2>4. call'[t].pc \in {"natives", "check", "install"} => attempted' = call'[t].vm
    BY StepOfOwner, PointersOfStep DEF ExtInv, LocalInv
  <2> QED
    BY <2>1, <2>2, <2>3, <2>4 DEF LocalInv, NoCall
<1> QED
    BY <1>1, <1>2 DEF ExtInv

-----------------------------------------------------------------------------
(* The rest, and the invariant.                                            *)

LEMMA ClearInv ==
    ASSUME ExtInv, NEW c \in Callers, Clear(c)
    PROVE  ExtInv'
<1>1. OwnerInv'
    BY ThreadsApart DEF ExtInv, OwnerInv, Clear, L!ClearRegistrationState, L!At,
    L!Goto, L!CallerLabels
<1>2. LocalInv'
    BY ThreadsApart DEF ExtInv, LocalInv, Clear, L!ClearRegistrationState, NoCall,
    Threads
<1> QED
    BY <1>1, <1>2 DEF ExtInv

\* The game does not touch what the extension keeps.
LEMMA GameInv ==
    ASSUME Tick \/ GameStep
    PROVE  UNCHANGED <<threadVars, call, registered, attempted>>
BY DEF Tick, GameStep, V!Tick, V!Publish, V!Unpublish, V!stateVars

LEMMA Steps ==
    ASSUME Next
    PROVE  \/ Apart /\ Outside
           \/ \E t \in Threads : RegisterStep(t)
           \/ \E c \in Callers : Clear(c)
           \/ Tick \/ GameStep
BY DEF Next, Attach, CallerStep, Invoke, WorkerStep, Outside, Threads

\* RegisterCurrentVm belongs to the owner of the registration lock.
THEOREM ExtensionInvariance == Spec => []ExtInv
<1>1. ExtInv /\ [Next]_vars => ExtInv'
  <2> SUFFICES ASSUME ExtInv, [Next]_vars PROVE ExtInv'
    OBVIOUS
  <2>1. CASE UNCHANGED <<threadVars, call, registered, attempted>>
    BY <2>1 DEF ExtInv, OwnerInv, LocalInv, threadVars
  <2>2. CASE vars' = vars
    BY <2>1, <2>2 DEF vars, vmVars
  <2>3. CASE Next
    BY <2>1, <2>3, Steps, OutsideStep, RegisterStepInv, ClearInv, GameInv
  <2> QED
    BY <2>2, <2>3
<1> QED
    BY <1>1, InitInv, PTL DEF Spec

-----------------------------------------------------------------------------
(* VmRegistration: one call at a time.                                     *)

\* A step of the lock's owner is the step of the one call.
LEMMA StepOfTheCall ==
    ASSUME NEW t \in Threads, R(t)!CallStep,
           call[t] = Current, call'[t] = Current'
    PROVE  V!CallStep
<1> USE DEF R!gameVars, V!gameVars, R!stateVars, V!stateVars, R!callVars,
    V!callVars, R!vmGhosts, V!vmGhosts, R!failGhosts, V!failGhosts, R!Return,
    V!Return, R!NoFailure, V!NoFailure, V!CallStep
<1>1. CASE R(t)!PollNull
    BY <1>1 DEF R!PollNull, V!PollNull, R!Forget, V!Forget
<1>2. CASE R(t)!Poll
    BY <1>2 DEF R!Poll, V!Poll
<1>3. CASE R(t)!CheckSentinel
    BY <1>3 DEF R!CheckSentinel, V!CheckSentinel, R!SentinelThere,
    V!SentinelThere, R!Sentinel, V!Sentinel
<1>4. CASE R(t)!Observe
    BY <1>4 DEF R!Observe, V!Observe, R!NewPointer, V!NewPointer,
    R!ClearObjectPaths, V!ClearObjectPaths, R!StartTimer, V!StartTimer
<1>5. CASE R(t)!Defer \/ R(t)!Attempt
    BY <1>5 DEF R!Defer, V!Defer, R!Attempt, V!Attempt, R!Settled, V!Settled,
    R!Due, V!Due
<1>6. CASE R(t)!RegisterNative \/ R(t)!FailNative
    BY <1>6 DEF R!RegisterNative, V!RegisterNative, R!FailNative, V!FailNative,
    R!PutNative, V!PutNative, R!ForcedNative, V!ForcedNative
<1>7. CASE R(t)!CheckCurrent
    BY <1>7 DEF R!CheckCurrent, V!CheckCurrent
<1>8. CASE R(t)!InstallClosure \/ R(t)!FailClosure
    BY <1>8 DEF R!InstallClosure, V!InstallClosure, R!FailClosure, V!FailClosure
<1> QED
    BY <1>1, <1>2, <1>3, <1>4, <1>5, <1>6, <1>7, <1>8 DEF R!CallStep

\* However the worker, StartHook and StopHook interleave, what they do to the VM
\* and to the registration state is RegisterCurrentVm called by one thread.
THEOREM ComposesRegistration == Spec => ImplementsRegistration
<1>1. Init => V!Init
    BY DEF Init
<1>2. ExtInv /\ [Next]_vars => [V!Next]_V!vars
  <2> SUFFICES ASSUME ExtInv, [Next]_vars PROVE V!Next \/ UNCHANGED V!vars
    OBVIOUS
  <2> USE DEF V!Next, V!vars, V!gameVars, V!stateVars, V!callVars, V!vmGhosts,
      V!failGhosts, vmVars
  <2>1. CASE Apart /\ Outside
    <3>1. Current' = Current
      BY <2>1, OutsideStep
    <3> QED
      BY <2>1, <3>1 DEF Apart
  <2>2. CASE \E t \in Threads : RegisterStep(t)
    BY <2>2, StepOfOwner, StepOfTheCall
  <2>3. CASE \E c \in Callers : Clear(c)
    BY <2>3 DEF Clear
  <2>4. CASE Tick
    BY <2>4 DEF Tick, V!Game
  <2>5. CASE GameStep
    BY <2>5 DEF GameStep, V!Game
  <2>6. CASE UNCHANGED vars
    BY <2>6 DEF vars, threadVars, Current
  <2> QED
    BY <2>1, <2>2, <2>3, <2>4, <2>5, <2>6, Steps
<1> QED
    BY <1>1, <1>2, ExtensionInvariance, PTL DEF Spec, ImplementsRegistration, V!Spec

-----------------------------------------------------------------------------
(* WorkerLifecycle: registration has the outcome it takes for granted.     *)

LEMMA OutsideIsLifecycle ==
    ASSUME Outside
    PROVE  L!Next
BY DEF Outside, CallerOutside, WorkerOutside, L!Next, L!CallerStep, L!WorkerStep

LEMMA LeavingIsLifecycle ==
    ASSUME ExtInv, NEW t \in Threads, RegisterStep(t)
    PROVE  L!Next \/ UNCHANGED L!vars
<1>1. L!RegisterOutcome \/ call'[t].pc # "idle"
    BY StepOfOwner, PointersOfStep DEF ExtInv, LocalInv
<1>2. UNCHANGED <<phase, running, handle, lifecycleLock, workerLock, contextReady,
                  hooks, calling, answer>>
    BY DEF RegisterStep
<1>3. CASE call'[t].pc # "idle"
  <2>1. UNCHANGED <<registered, attempted, registrationLock, pc, wpc>>
    BY <1>3, StepOfOwner, PointersOfStep DEF ExtInv, LocalInv, Release, GoOn
  <2> QED
    BY <1>2, <2>1 DEF L!vars, L!sharedVars, L!lockVars, L!callerVars, Trace
<1>4. CASE call'[t].pc = "idle" /\ t \in Callers
  <2>1. /\ registrationLock' = None
        /\ pc' = [pc EXCEPT ![t] = "ok"] /\ wpc' = wpc
    BY <1>4, StepOfOwner, ThreadsApart DEF Release, GoOn
  <2>2. L!FinishRegister(t)
    BY <1>1, <1>2, <1>4, <2>1
    DEF L!FinishRegister, L!At, L!Goto, RegisterStep, Registering
  <2> QED
    BY <1>4, <2>2 DEF L!Next, L!CallerStep
<1>5. CASE call'[t].pc = "idle" /\ t \in Workers
  <2>1. /\ registrationLock' = None
        /\ pc' = pc /\ wpc' = [wpc EXCEPT ![t] = "poll"]
    BY <1>5, StepOfOwner, ThreadsApart DEF Release, GoOn
  <2>2. L!WFinishRegister(t)
    BY <1>1, <1>2, <1>5, <2>1
    DEF L!WFinishRegister, L!WAt, L!WGoto, L!callerVars, RegisterStep, Registering
  <2> QED
    BY <1>5, <2>2 DEF L!Next, L!WorkerStep
<1> QED
    BY <1>3, <1>4, <1>5 DEF Threads

LEMMA StepIsLifecycle ==
    ASSUME ExtInv, [Next]_vars
    PROVE  L!Next \/ UNCHANGED L!vars
<1>1. CASE Apart /\ Outside
    BY <1>1, OutsideIsLifecycle
<1>2. CASE \E t \in Threads : RegisterStep(t)
    BY <1>2, LeavingIsLifecycle
<1>3. CASE \E c \in Callers : Clear(c)
    BY <1>3 DEF Clear, L!Next, L!CallerStep
<1>4. CASE UNCHANGED <<threadVars, call, registered, attempted>>
    BY <1>4 DEF threadVars, L!vars, L!sharedVars, L!lockVars, L!callerVars, Trace
<1>5. CASE UNCHANGED vars
    BY <1>4, <1>5 DEF vars, vmVars
<1> QED
    BY <1>1, <1>2, <1>3, <1>4, <1>5, Steps, GameInv

\* The steps inside RegisterCurrentVm add up to the outcomes WorkerLifecycle
\* chooses from, and every one of them gives the lock back.
THEOREM ComposesLifecycle == Spec => ImplementsLifecycle
<1>1. Init => L!Init
    BY DEF Init
<1>2. ExtInv /\ [Next]_vars => [L!Next]_L!vars
    BY StepIsLifecycle
<1> QED
    BY <1>1, <1>2, ExtensionInvariance, PTL DEF Spec, ImplementsLifecycle, L!Spec

-----------------------------------------------------------------------------
(* What the lifecycle knows of the threads in RegisterCurrentVm.           *)

LP == INSTANCE WorkerLifecycleProofs WITH registration <- Trace

\* Both instances are of one module.
LEMMA SameInit == L!Init => LP!Init
BY DEF L!Init, LP!Init

LEMMA SameNext == [L!Next]_L!vars => [LP!Next]_LP!vars
BY DEF L!Next, LP!Next, L!CallerStep, LP!CallerStep, L!WorkerStep, LP!WorkerStep,
    L!Attach, LP!Attach, L!Detach, LP!Detach, L!Gone, LP!Gone, L!Call,
    LP!Call, L!AcquireLifecycle, LP!AcquireLifecycle, L!InstallHooks,
    LP!InstallHooks, L!LockWorker, LP!LockWorker, L!ReapWorker, LP!ReapWorker,
    L!SpawnOrKeep, LP!SpawnOrKeep, L!TryRegister, LP!TryRegister,
    L!FinishRegister, LP!FinishRegister, L!Signal, LP!Signal, L!Join, LP!Join,
    L!Unhook, LP!Unhook, L!ClearRegistrationState, LP!ClearRegistrationState,
    L!Return, LP!Return, L!Boot, LP!Boot, L!CheckFlag, LP!CheckFlag,
    L!TryLifecycle, LP!TryLifecycle, L!InstallOrGiveUp, LP!InstallOrGiveUp,
    L!Poll, LP!Poll, L!WTryRegister, LP!WTryRegister, L!WFinishRegister,
    LP!WFinishRegister, L!At, LP!At, L!Goto, LP!Goto, L!WAt, LP!WAt, L!WGoto,
    LP!WGoto, L!Live, LP!Live, L!InstallObjectHooks, LP!InstallObjectHooks,
    L!NoWorker, LP!NoWorker, L!SpawnWorker, LP!SpawnWorker, L!Drained,
    LP!Drained, L!RegistrationFree, LP!RegistrationFree, L!RegisterOutcome,
    LP!RegisterOutcome, L!KeepTrying, LP!KeepTrying, L!LifecycleBusy,
    LP!LifecycleBusy, L!vars, LP!vars, L!sharedVars, LP!sharedVars,
    L!lockVars, LP!lockVars, L!callerVars, LP!callerVars

\* The invariant that WorkerLifecycleProofs proves holds of the composition.
LEMMA LifecycleInvariance == Spec => []LP!IInv
<1>1. L!Spec => LP!Spec
    BY SameInit, SameNext, PTL DEF L!Spec, LP!Spec
<1>2. LP!Spec => []LP!IInv
    BY LP!Invariance, ThreadsApart DEF LP!ThreadsAssumption
<1> QED
    BY <1>1, <1>2, ComposesLifecycle, PTL DEF ImplementsLifecycle

\* When a stop is about to return, no thread is in RegisterCurrentVm or has a
\* VM of its own, and none is remembered; nobody enters it without the hooks.
THEOREM StopsLeaveQuiet == Spec => []QuietWhenStopped
<1>1. ExtInv /\ LP!IInv => QuietWhenStopped
  <2> SUFFICES ASSUME ExtInv, LP!IInv, phase = "attached" PROVE QuietWhenStopped
    BY DEF QuietWhenStopped
  <2>1. ASSUME NEW t \in Threads, call[t] # NoCall
        PROVE  /\ hooks /\ contextReady
               /\ t \in Callers => pc[t] = "registering"
               /\ t \in Workers => wpc[t] = "registering"
    BY <2>1 DEF ExtInv, OwnerInv, LocalInv, Threads, LP!IInv, LP!WorkerInv,
    LP!CallerInv
  <2>2. ASSUME NEW c \in Callers, pc[c] = "off"
        PROVE  /\ \A t \in Threads : call[t] = NoCall
               /\ registered = Null /\ attempted = Null
    <3>1. ~hooks /\ Trace = "clear"
      BY <2>2 DEF LP!IInv, LP!CallerInv
    <3> QED
      BY <2>1, <3>1 DEF Trace
  <2> QED
    BY <2>1, <2>2 DEF QuietWhenStopped
<1> QED
    BY <1>1, ExtensionInvariance, LifecycleInvariance, PTL
=============================================================================
