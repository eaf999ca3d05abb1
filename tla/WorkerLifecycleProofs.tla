----------------------- MODULE WorkerLifecycleProofs -----------------------
(***************************************************************************)
(* For any number of callers and of worker identities: the inductive       *)
(* invariant of WorkerLifecycle, the safety properties that follow from    *)
(* it, and the refinement of HookService.                                  *)
(***************************************************************************)
EXTENDS WorkerLifecycle, TLAPS

\* Every step of StartHook and StopHook preserves the invariant.
LEMMA CallerStepPreserves ==
    ASSUME NEW c \in Callers, IInv, CallerStep(c)
    PROVE  IInv'
<1> USE ThreadsAssumption DEF IInv, TypeOK, Live, Goto, At, sharedVars,
    lockVars, callerVars
<1>1. CASE AcquireLifecycle(c)
  <2> USE <1>1 DEF AcquireLifecycle
  <2>1. TypeOK'
    BY DEF CallerLabels
  <2>2. LockInv'
    BY DEF LockInv, HoldingLifecycle, CallerLabels
  <2>3. FlagInv' /\ SingleWorker'
    BY DEF FlagInv, SingleWorker
  <2>4. WorkerInv'
    BY DEF WorkerInv
  <2>5. CallerInv' /\ RegistrationOwned'
    BY DEF CallerInv, RegistrationOwned
  <2> QED
    BY <2>1, <2>2, <2>3, <2>4, <2>5
<1>2. CASE InstallHooks(c)
  <2> USE <1>2 DEF InstallHooks, InstallObjectHooks
  <2>1. TypeOK'
    BY DEF CallerLabels
  <2>2. LockInv'
    BY DEF LockInv, HoldingLifecycle, CallerLabels
  <2>3. FlagInv' /\ SingleWorker'
    BY DEF FlagInv, SingleWorker
  <2>4. WorkerInv'
    BY DEF WorkerInv
  <2>5. RegistrationOwned'
    BY DEF RegistrationOwned
  <2>6. ASSUME NEW d \in Callers \ {c}
        PROVE  pc'[d] = pc[d] /\ pc[d] \notin HoldingLifecycle
    BY DEF LockInv, HoldingLifecycle
  <2>7. CallerInv'
    BY <2>6 DEF CallerInv, HoldingLifecycle
  <2> QED
    BY <2>1, <2>2, <2>3, <2>4, <2>5, <2>7
<1>3. CASE LockWorker(c)
  <2> USE <1>3 DEF LockWorker
  <2>1. TypeOK'
    BY DEF CallerLabels
  <2>2. LockInv'
    BY DEF LockInv, HoldingLifecycle, CallerLabels
  <2>3. FlagInv' /\ SingleWorker'
    BY DEF FlagInv, SingleWorker
  <2>4. WorkerInv'
    BY DEF WorkerInv
  <2>5. CallerInv' /\ RegistrationOwned'
    BY DEF CallerInv, RegistrationOwned
  <2> QED
    BY <2>1, <2>2, <2>3, <2>4, <2>5
<1>4. CASE ReapWorker(c)
  <2> USE <1>4 DEF ReapWorker, Drained
  <2>1. TypeOK'
    BY DEF CallerLabels
  <2>2. LockInv'
    BY DEF LockInv, HoldingLifecycle, CallerLabels
  <2>3. FlagInv' /\ SingleWorker'
    BY DEF FlagInv, SingleWorker
  <2>4. WorkerInv'
    BY DEF WorkerInv
  <2>5. CallerInv' /\ RegistrationOwned'
    BY DEF CallerInv, RegistrationOwned
  <2> QED
    BY <2>1, <2>2, <2>3, <2>4, <2>5
<1>5. CASE SpawnOrKeep(c)
  <2> USE <1>5 DEF SpawnOrKeep, SpawnWorker, NoWorker, WGoto
  <2>1. TypeOK'
    BY DEF CallerLabels, WorkerLabels
  <2>2. LockInv'
    BY DEF LockInv, HoldingLifecycle, CallerLabels
  <2>3. FlagInv' /\ SingleWorker'
    BY DEF FlagInv, SingleWorker, CallerInv
  <2>4. WorkerInv'
    BY DEF WorkerInv, CallerInv
  <2>5. CallerInv' /\ RegistrationOwned'
    BY DEF CallerInv, RegistrationOwned, LockInv, HoldingLifecycle
  <2> QED
    BY <2>1, <2>2, <2>3, <2>4, <2>5
<1>6. CASE TryRegister(c)
  <2> USE <1>6 DEF TryRegister, RegistrationFree
  <2>1. TypeOK'
    BY DEF CallerLabels
  <2>2. LockInv'
    BY DEF LockInv, HoldingLifecycle, CallerLabels
  <2>3. FlagInv' /\ SingleWorker'
    BY DEF FlagInv, SingleWorker
  <2>4. WorkerInv'
    BY DEF WorkerInv
  <2>5. CallerInv' /\ RegistrationOwned'
    BY DEF CallerInv, RegistrationOwned
  <2> QED
    BY <2>1, <2>2, <2>3, <2>4, <2>5
<1>7. CASE FinishRegister(c)
  <2> USE <1>7 DEF FinishRegister, RegisterOutcome
  <2>1. TypeOK'
    BY DEF CallerLabels
  <2>2. LockInv'
    BY DEF LockInv, HoldingLifecycle, CallerLabels
  <2>3. FlagInv' /\ SingleWorker'
    BY DEF FlagInv, SingleWorker
  <2>4. WorkerInv'
    BY DEF WorkerInv
  <2>5. CallerInv' /\ RegistrationOwned'
    BY DEF CallerInv, RegistrationOwned
  <2> QED
    BY <2>1, <2>2, <2>3, <2>4, <2>5
<1>8. CASE Signal(c)
  <2> USE <1>8 DEF Signal
  <2>1. TypeOK'
    BY DEF CallerLabels
  <2>2. LockInv'
    BY DEF LockInv, HoldingLifecycle, CallerLabels
  <2>3. FlagInv' /\ SingleWorker'
    BY DEF FlagInv, SingleWorker
  <2>4. WorkerInv'
    BY DEF WorkerInv, LockInv, HoldingLifecycle
  <2>5. CallerInv' /\ RegistrationOwned'
    BY DEF CallerInv, RegistrationOwned, LockInv, HoldingLifecycle
  <2> QED
    BY <2>1, <2>2, <2>3, <2>4, <2>5
<1>9. CASE Join(c)
  <2> USE <1>9 DEF Join, Drained
  <2>1. TypeOK'
    BY DEF CallerLabels
  <2>2. LockInv'
    BY DEF LockInv, HoldingLifecycle, CallerLabels
  <2>3. FlagInv' /\ SingleWorker'
    BY DEF FlagInv, SingleWorker
  <2>4. WorkerInv'
    BY DEF WorkerInv, SingleWorker
  <2>5. CallerInv' /\ RegistrationOwned'
    BY DEF CallerInv, RegistrationOwned
  <2> QED
    BY <2>1, <2>2, <2>3, <2>4, <2>5
<1>10. CASE Unhook(c)
  <2> USE <1>10 DEF Unhook
  <2>1. TypeOK'
    BY DEF CallerLabels
  <2>2. LockInv'
    BY DEF LockInv, HoldingLifecycle, CallerLabels
  <2>3. FlagInv' /\ SingleWorker'
    BY DEF FlagInv, SingleWorker
  <2>4. WorkerInv'
    BY DEF WorkerInv, SingleWorker, CallerInv
  <2>5. CallerInv' /\ RegistrationOwned'
    BY DEF CallerInv, RegistrationOwned, LockInv, HoldingLifecycle
  <2> QED
    BY <2>1, <2>2, <2>3, <2>4, <2>5
<1>11. CASE ClearRegistrationState(c)
  <2> USE <1>11 DEF ClearRegistrationState
  <2>1. TypeOK'
    BY DEF CallerLabels
  <2>2. LockInv'
    BY DEF LockInv, HoldingLifecycle, CallerLabels
  <2>3. FlagInv' /\ SingleWorker'
    BY DEF FlagInv, SingleWorker
  <2>4. WorkerInv'
    BY DEF WorkerInv
  <2>5. CallerInv' /\ RegistrationOwned'
    BY DEF CallerInv, RegistrationOwned
  <2> QED
    BY <2>1, <2>2, <2>3, <2>4, <2>5
<1>12. CASE Return(c)
  <2> USE <1>12 DEF Return
  <2>1. TypeOK'
    BY DEF CallerLabels
  <2>2. LockInv'
    BY DEF LockInv, HoldingLifecycle
  <2>3. FlagInv' /\ SingleWorker'
    BY DEF FlagInv, SingleWorker
  <2>4. WorkerInv'
    BY DEF WorkerInv
  <2>5. CallerInv' /\ RegistrationOwned'
    BY DEF CallerInv, RegistrationOwned
  <2> QED
    BY <2>1, <2>2, <2>3, <2>4, <2>5
<1> QED
    BY <1>1, <1>2, <1>3, <1>4, <1>5, <1>6, <1>7, <1>8, <1>9, <1>10, <1>11, <1>12
    DEF CallerStep

\* Every step of RuntimeWorker preserves the invariant.
LEMMA WorkerStepPreserves ==
    ASSUME NEW w \in Workers, IInv, WorkerStep(w)
    PROVE  IInv'
<1> USE ThreadsAssumption DEF IInv, TypeOK, Live, WGoto, WAt, sharedVars,
    lockVars, callerVars
<1>1. CASE Boot(w)
  <2> USE <1>1 DEF Boot
  <2>1. TypeOK'
    BY DEF WorkerLabels
  <2>2. LockInv'
    BY DEF LockInv
  <2>3. FlagInv' /\ SingleWorker'
    BY DEF FlagInv, SingleWorker
  <2>4. WorkerInv'
    BY DEF WorkerInv
  <2>5. CallerInv' /\ RegistrationOwned'
    BY DEF CallerInv, RegistrationOwned
  <2> QED
    BY <2>1, <2>2, <2>3, <2>4, <2>5
<1>2. CASE CheckFlag(w)
  <2> USE <1>2 DEF CheckFlag, KeepTrying
  <2>1. TypeOK'
    BY DEF WorkerLabels
  <2>2. LockInv'
    BY DEF LockInv
  <2>3. FlagInv' /\ SingleWorker'
    BY DEF FlagInv, SingleWorker
  <2>4. WorkerInv'
    BY DEF WorkerInv
  <2>5. CallerInv' /\ RegistrationOwned'
    BY DEF CallerInv, RegistrationOwned
  <2> QED
    BY <2>1, <2>2, <2>3, <2>4, <2>5
<1>3. CASE TryLifecycle(w)
  <2> USE <1>3 DEF TryLifecycle, LifecycleBusy
  <2>1. TypeOK'
    BY DEF WorkerLabels
  <2>2. LockInv'
    BY DEF LockInv
  <2>3. FlagInv' /\ SingleWorker'
    BY DEF FlagInv, SingleWorker
  <2>4. WorkerInv'
    BY DEF WorkerInv, LockInv, HoldingLifecycle
  <2>5. CallerInv' /\ RegistrationOwned'
    BY DEF CallerInv, RegistrationOwned
  <2> QED
    BY <2>1, <2>2, <2>3, <2>4, <2>5
<1>4. CASE InstallOrGiveUp(w)
  <2> USE <1>4 DEF InstallOrGiveUp, InstallObjectHooks
  <2>1. TypeOK'
    BY DEF WorkerLabels
  <2>2. LockInv'
    BY DEF LockInv
  <2>3. FlagInv' /\ SingleWorker'
    BY DEF FlagInv, SingleWorker
  <2>4. WorkerInv'
    <3>1. running = 1
      BY DEF WorkerInv
    <3>2. \A v \in Workers \ {w} : wpc'[v] = "absent"
      BY DEF SingleWorker
    <3>3. contextReady' /\ (running' = 1 => hooks')
      BY <3>1
    <3>4. wpc'[w] = "poll"
      OBVIOUS
    <3> QED
      BY <3>2, <3>3, <3>4 DEF WorkerInv
  <2>5. RegistrationOwned'
    BY DEF RegistrationOwned
  <2>6. \A d \in Callers : pc'[d] = pc[d] /\ pc[d] \notin HoldingLifecycle
    BY DEF LockInv
  <2>7. CallerInv'
    BY <2>6 DEF CallerInv, HoldingLifecycle
  <2> QED
    BY <2>1, <2>2, <2>3, <2>4, <2>5, <2>7
<1>5. CASE Poll(w)
  <2> USE <1>5 DEF Poll
  <2>1. TypeOK'
    BY DEF WorkerLabels
  <2>2. LockInv'
    BY DEF LockInv
  <2>3. FlagInv' /\ SingleWorker'
    BY DEF FlagInv, SingleWorker
  <2>4. WorkerInv'
    BY DEF WorkerInv
  <2>5. CallerInv' /\ RegistrationOwned'
    BY DEF CallerInv, RegistrationOwned
  <2> QED
    BY <2>1, <2>2, <2>3, <2>4, <2>5
<1>6. CASE WTryRegister(w)
  <2> USE <1>6 DEF WTryRegister, RegistrationFree
  <2>1. TypeOK'
    BY DEF WorkerLabels
  <2>2. LockInv'
    BY DEF LockInv
  <2>3. FlagInv' /\ SingleWorker'
    BY DEF FlagInv, SingleWorker
  <2>4. WorkerInv'
    BY DEF WorkerInv
  <2>5. CallerInv' /\ RegistrationOwned'
    BY DEF CallerInv, RegistrationOwned
  <2> QED
    BY <2>1, <2>2, <2>3, <2>4, <2>5
<1>7. CASE WFinishRegister(w)
  <2> USE <1>7 DEF WFinishRegister, RegisterOutcome
  <2>1. TypeOK'
    BY DEF WorkerLabels
  <2>2. LockInv'
    BY DEF LockInv
  <2>3. FlagInv' /\ SingleWorker'
    BY DEF FlagInv, SingleWorker
  <2>4. WorkerInv'
    BY DEF WorkerInv
  <2>5. CallerInv' /\ RegistrationOwned'
    BY DEF CallerInv, RegistrationOwned, WorkerInv
  <2> QED
    BY <2>1, <2>2, <2>3, <2>4, <2>5
<1> QED
    BY <1>1, <1>2, <1>3, <1>4, <1>5, <1>6, <1>7 DEF WorkerStep

\* So do the steps of the loader and the making of a call.
LEMMA OtherStepPreserves ==
    ASSUME IInv,
           \/ Attach
           \/ Detach
           \/ \E c \in Callers : \E op \in {"start", "stop"} : Call(c, op)
           \/ UNCHANGED vars
    PROVE  IInv'
<1> USE ThreadsAssumption
    DEF IInv, TypeOK, Live, AllExited, sharedVars, lockVars, callerVars,
        CallerLabels, WorkerLabels, HoldingLifecycle
<1>1. CASE Attach
    BY <1>1 DEF Attach, SpawnWorker, NoWorker, WGoto, LockInv, FlagInv, SingleWorker,
        WorkerInv, CallerInv, RegistrationOwned
<1>2. CASE Detach
    BY <1>2 DEF Detach, LockInv, FlagInv, SingleWorker, WorkerInv, CallerInv,
        RegistrationOwned
<1>3. ASSUME NEW c \in Callers, NEW op \in {"start", "stop"}, Call(c, op)
      PROVE  IInv'
    BY <1>3 DEF Call, At, Goto, LockInv, FlagInv, SingleWorker, WorkerInv,
        CallerInv, RegistrationOwned
<1>4. CASE UNCHANGED vars
    BY <1>4 DEF vars, LockInv, FlagInv, SingleWorker, WorkerInv, CallerInv,
        RegistrationOwned
<1> QED
    BY <1>1, <1>2, <1>3, <1>4

\* The invariant is inductive and so holds in every reachable state.
THEOREM Invariance == Spec => []IInv
<1>1. Init => IInv
  <2> SUFFICES ASSUME Init PROVE IInv
    OBVIOUS
  <2> USE ThreadsAssumption DEF Init, CallerLabels, WorkerLabels
  <2>1. TypeOK
    BY DEF TypeOK
  <2>2. LockInv
    BY DEF LockInv, HoldingLifecycle
  <2>3. FlagInv /\ SingleWorker
    BY DEF FlagInv, SingleWorker, Live, AllExited
  <2>4. WorkerInv /\ CallerInv /\ RegistrationOwned
    BY DEF WorkerInv, CallerInv, RegistrationOwned
  <2> QED
    BY <2>1, <2>2, <2>3, <2>4 DEF IInv
<1>2. IInv /\ [Next]_vars => IInv'
    BY CallerStepPreserves, WorkerStepPreserves, OtherStepPreserves
    DEF Next, Gone
<1> QED
    BY <1>1, <1>2, PTL DEF Spec

-----------------------------------------------------------------------------
(* The safety properties.                                                  *)

\* No worker thread is forgotten, whatever interleaving of starts and stops.
THEOREM NoWorkerForgotten == Spec => []SingleWorker
BY Invariance, PTL DEF IInv

\* Nothing of the service survives a stop that returns.
THEOREM StopsAreComplete == Spec => []StopIsComplete
<1>1. IInv => StopIsComplete
    BY ThreadsAssumption
    DEF IInv, StopIsComplete, CallerInv, SingleWorker, AllExited
<1> QED
    BY <1>1, Invariance, PTL

\* When StartHook is about to return TRUE there is a worker that runs and will
\* go on running, and the hooks are installed.
StartIsEffective ==
    phase = "attached" =>
        \A c \in Callers : pc[c] = "ok" =>
            /\ running = 1
            /\ handle # None
            /\ Live(handle)
            /\ hooks

\* A start that answers TRUE leaves a worker that runs and the hooks in place.
THEOREM StartsAreEffective == Spec => []StartIsEffective
<1>1. IInv => StartIsEffective
    BY DEF IInv, StartIsEffective, CallerInv, FlagInv
<1> QED
    BY <1>1, Invariance, PTL

\* A caller that clears the registration state finds g_registration_lock free:
\* it never waits for it with the lifecycle lock in its hands.
ClearNeverBlocks ==
    \A c \in Callers : pc[c] = "clear" => registrationLock = None

\* A stop never waits for the registration lock while it has the lifecycle lock.
THEOREM ClearsNeverBlock == Spec => []ClearNeverBlocks
<1>1. ASSUME IInv, NEW c \in Callers, pc[c] = "clear"
      PROVE  registrationLock = None
  <2>1. \A w \in Workers : wpc[w] = "absent"
    BY <1>1, ThreadsAssumption DEF IInv, CallerInv, SingleWorker, Live
  <2>2. \A d \in Callers : pc[d] # "registering"
    BY <1>1 DEF IInv, LockInv, HoldingLifecycle, CallerLabels
  <2> QED
    BY <1>1, <2>1, <2>2 DEF IInv, TypeOK, LockInv
<1>2. IInv => ClearNeverBlocks
    BY <1>1 DEF ClearNeverBlocks
<1> QED
    BY <1>2, Invariance, PTL

\* Registration state never outlives the hooks, and nobody registers without
\* them.
THEOREM RegistrationIsOwned ==
    Spec => [](RegistrationOwned /\ RegistrationNeedsHooks)
<1>1. IInv => RegistrationOwned /\ RegistrationNeedsHooks
    BY DEF IInv, RegistrationNeedsHooks, WorkerInv, CallerInv
<1> QED
    BY <1>1, Invariance, PTL

\* The run flag only rises when every earlier worker has ended.
THEOREM FlagRises == Spec => FlagRaisedOnlyWhenDrained
<1>1. ASSUME IInv, [Next]_vars, running = 0, running' = 1
      PROVE  AllExited
  <2> USE <1>1 DEF IInv
  <2>1. CASE Attach
    BY <2>1 DEF Attach, FlagInv
  <2>2. ASSUME NEW c \in Callers, CallerStep(c)
        PROVE  AllExited
    <3>1. SpawnOrKeep(c)
      BY <2>2 DEF CallerStep, AcquireLifecycle, InstallHooks, LockWorker,
          ReapWorker, TryRegister, FinishRegister, Signal, Join, Unhook,
          ClearRegistrationState, Return, sharedVars, RegistrationFree
    <3>2. handle = None
      BY <3>1 DEF SpawnOrKeep, At, CallerInv
    <3> QED
      BY <3>2, ThreadsAssumption DEF SingleWorker, AllExited
  <2>3. ASSUME NEW w \in Workers, WorkerStep(w)
        PROVE  FALSE
    BY <2>3 DEF WorkerStep, Boot, CheckFlag, TryLifecycle, InstallOrGiveUp,
        Poll, WTryRegister, WFinishRegister, sharedVars, RegistrationFree
  <2> QED
    BY <2>1, <2>2, <2>3 DEF Next, Detach, Gone, Call, vars, sharedVars
<1>2. IInv /\ [Next]_vars => [running = 0 /\ running' = 1 => AllExited]_vars
    BY <1>1
<1> QED
    BY <1>2, Invariance, PTL DEF Spec, FlagRaisedOnlyWhenDrained

-----------------------------------------------------------------------------
(* The refinement of HookService.                                          *)

\* The initial states map to initial states.
LEMMA RefinesInit == Init => HS!Init
BY DEF Init, HS!Init, Service

\* Every step of a call maps to a step of HookService or leaves it unchanged.
LEMMA RefinesCallerStep ==
    ASSUME NEW c \in Callers, IInv, IInv', CallerStep(c)
    PROVE  [HS!Next]_(HS!vars)
<1> USE DEF HS!vars, sharedVars, lockVars, Goto, At
<1>1. CASE \/ AcquireLifecycle(c) \/ LockWorker(c) \/ TryRegister(c)
    BY <1>1
    DEF AcquireLifecycle, LockWorker, TryRegister, Service, NothingLeft,
        AllExited, Live, RegistrationFree
<1>2. CASE ReapWorker(c)
    BY <1>2 DEF ReapWorker, Drained, Service, NothingLeft, AllExited, Live
<1>3. CASE InstallHooks(c)
  <2>1. calling[c] = "start" /\ HS!Calling("start")
    BY <1>3 DEF InstallHooks, IInv, CallerInv, HS!Calling
  <2>2. CASE hooks
    BY <1>3, <2>2
    DEF InstallHooks, InstallObjectHooks, Service, NothingLeft
  <2>3. CASE ~hooks /\ ~hooks'
    BY <1>3, <2>3
    DEF InstallHooks, Service, NothingLeft, AllExited, Live
  <2>4. CASE ~hooks /\ hooks'
    <3>1. HS!BecomeReady \/ HS!BringUp \/ UNCHANGED HS!vars
      BY <1>3, <2>1, <2>4
      DEF InstallHooks, IInv, TypeOK, Service, NothingLeft, HS!BecomeReady,
          HS!BringUp
    <3> QED
      BY <3>1 DEF HS!Next
  <2> QED
    BY <2>2, <2>3, <2>4
<1>4. CASE SpawnOrKeep(c)
  <2>1. hooks /\ HS!Calling("start")
    BY <1>4 DEF SpawnOrKeep, IInv, CallerInv, HS!Calling
  <2>2. HS!FinishUp \/ UNCHANGED HS!vars
    BY <1>4, <2>1
    DEF SpawnOrKeep, SpawnWorker, NoWorker, IInv, TypeOK, Service, NothingLeft,
        HS!FinishUp
  <2> QED
    BY <2>2 DEF HS!Next
<1>5. CASE FinishRegister(c)
  <2>1. running = 1 /\ hooks
    BY <1>5 DEF FinishRegister, IInv, CallerInv
  <2> QED
    BY <1>5, <2>1 DEF FinishRegister, Service
<1>6. CASE Signal(c)
  <2>1. running = 1 => \E w \in Workers : Live(w)
    BY <1>6 DEF Signal, IInv, TypeOK, FlagInv
  <2>2. running = 1 /\ hooks => HS!Calling("stop")
    BY <1>6 DEF Signal, IInv, TypeOK, LockInv, CallerInv, HS!Calling
  <2>3. HS!TakeDown \/ UNCHANGED HS!vars
    BY <1>6, <2>1, <2>2
    DEF Signal, IInv, TypeOK, Service, NothingLeft, AllExited, Live, HS!TakeDown
  <2> QED
    BY <2>3 DEF HS!Next
<1>7. CASE Join(c)
    BY <1>7 DEF Join, Drained, Service, NothingLeft, AllExited, Live
<1>8. CASE Unhook(c) \/ ClearRegistrationState(c)
  <2>1. running = 0 /\ AllExited
    BY <1>8, ThreadsAssumption
    DEF Unhook, ClearRegistrationState, IInv, CallerInv, SingleWorker, AllExited
  <2>2. HS!FinishDown \/ UNCHANGED HS!vars
    BY <1>8, <2>1
    DEF Unhook, ClearRegistrationState, Service, NothingLeft, AllExited, Live,
        HS!FinishDown
  <2> QED
    BY <2>2 DEF HS!Next
<1>9. CASE Return(c)
  <2>1. pc[c] = "ok" => calling[c] = "start" /\ Service = "on"
    BY <1>9 DEF Return, IInv, CallerInv, Service
  <2>2. pc[c] = "off" => Service = "off"
    BY <1>9, ThreadsAssumption
    DEF Return, IInv, TypeOK, CallerInv, SingleWorker, Service, NothingLeft,
        AllExited
  <2>3. calling[c] \in {"start", "stop"}
    BY <1>9 DEF Return, IInv, TypeOK, LockInv
  <2>4. UNCHANGED Service
    BY <1>9 DEF Return, Service, NothingLeft, AllExited, Live
  <2>5. HS!Return(c)
    BY <1>9, <2>1, <2>2, <2>3, <2>4 DEF Return, HS!Return
  <2> QED
    BY <2>5 DEF HS!Next
<1> QED
    BY <1>1, <1>2, <1>3, <1>4, <1>5, <1>6, <1>7, <1>8, <1>9 DEF CallerStep

\* So does every step of the worker.
LEMMA RefinesWorkerStep ==
    ASSUME NEW w \in Workers, IInv, IInv', WorkerStep(w)
    PROVE  [HS!Next]_(HS!vars)
<1> USE DEF HS!vars, sharedVars, lockVars, callerVars, WGoto, WAt
<1>1. CASE Boot(w) \/ CheckFlag(w) \/ TryLifecycle(w) \/ WTryRegister(w)
  <2>1. ~AllExited /\ ~AllExited'
    BY <1>1
    DEF Boot, CheckFlag, KeepTrying, TryLifecycle, LifecycleBusy, WTryRegister,
        IInv, TypeOK, AllExited, Live, RegistrationFree
  <2> QED
    BY <1>1, <2>1
    DEF Boot, CheckFlag, KeepTrying, TryLifecycle, LifecycleBusy, WTryRegister,
        Service, NothingLeft, RegistrationFree
<1>2. CASE InstallOrGiveUp(w)
  <2>1. running = 1
    BY <1>2 DEF InstallOrGiveUp, IInv, WorkerInv
  <2>2. ~AllExited'
    BY <1>2 DEF InstallOrGiveUp, IInv, TypeOK, AllExited, Live
  <2>3. CASE hooks
    BY <1>2, <2>1, <2>3
    DEF InstallOrGiveUp, InstallObjectHooks, Service
  <2>4. CASE ~hooks /\ hooks'
    <3>1. HS!BecomeReady
      BY <1>2, <2>1, <2>4 DEF InstallOrGiveUp, Service, HS!BecomeReady
    <3> QED
      BY <3>1 DEF HS!Next
  <2>5. CASE ~hooks /\ ~hooks'
    <3>1. HS!TakeDown
      BY <1>2, <2>1, <2>2, <2>5
      DEF InstallOrGiveUp, Service, NothingLeft, HS!TakeDown
    <3> QED
      BY <3>1 DEF HS!Next
  <2> QED
    BY <2>3, <2>4, <2>5
<1>3. CASE Poll(w)
  <2>1. ~AllExited
    BY <1>3 DEF Poll, AllExited, Live
  <2>2. HS!FinishDown \/ UNCHANGED HS!vars
    BY <1>3, <2>1 DEF Poll, IInv, TypeOK, Service, HS!FinishDown
  <2> QED
    BY <2>2 DEF HS!Next
<1>4. CASE WFinishRegister(w)
  <2>1. ~AllExited /\ ~AllExited' /\ hooks
    BY <1>4 DEF WFinishRegister, IInv, TypeOK, WorkerInv, AllExited, Live
  <2> QED
    BY <1>4, <2>1 DEF WFinishRegister, Service
<1> QED
    BY <1>1, <1>2, <1>3, <1>4 DEF WorkerStep

\* The threads and locks of dll_entry.cpp implement what the exports promise.
THEOREM Refinement == Spec => ImplementsHookService
<1>1. ASSUME IInv, IInv', [Next]_vars
      PROVE  [HS!Next]_(HS!vars)
  <2>1. CASE Attach
    <3>1. HS!Load
      BY <1>1, <2>1
      DEF Attach, SpawnWorker, NoWorker, callerVars, Service, NothingLeft, AllExited,
          Live, IInv, FlagInv, RegistrationOwned, HS!Load
    <3> QED
      BY <3>1 DEF HS!Next
  <2>2. CASE Detach
    <3>1. HS!Unload
      BY <2>2 DEF Detach, callerVars, Service, HS!Unload
    <3> QED
      BY <3>1 DEF HS!Next
  <2>3. ASSUME NEW c \in Callers, NEW op \in {"start", "stop"}, Call(c, op)
        PROVE  [HS!Next]_(HS!vars)
    <3>1. HS!Invoke(c, op)
      BY <1>1, <2>3
      DEF Call, At, Goto, sharedVars, Service, NothingLeft, AllExited, Live,
          IInv, LockInv, HS!Invoke
    <3> QED
      BY <3>1 DEF HS!Next
  <2>4. CASE UNCHANGED vars
    BY <2>4
    DEF vars, sharedVars, callerVars, Service, NothingLeft, AllExited, Live,
        HS!vars
  <2> QED
    BY <1>1, <2>1, <2>2, <2>3, <2>4, RefinesCallerStep, RefinesWorkerStep
    DEF Next, Gone
<1> QED
    BY <1>1, RefinesInit, Invariance, PTL
    DEF Spec, ImplementsHookService, HS!Spec
=============================================================================
