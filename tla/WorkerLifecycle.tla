-------------------------- MODULE WorkerLifecycle --------------------------
(***************************************************************************)
(* The threads of src/src/runtime/dll_entry.cpp: DllMain, which creates    *)
(* the automatic worker under the loader lock; the worker (RuntimeWorker); *)
(* and any number of calls of StartHook and StopHook by the threads of the *)
(* host process, with the three SRW locks between them.                    *)
(*                                                                         *)
(* A step is a stretch of code between two points where another thread     *)
(* can act: acquiring a lock, waiting for a thread, or reading or writing  *)
(* the run flag.  What registration does is left to VmRegistration: here   *)
(* it only leaves a trace ("clear", "pending" or "registered").  The       *)
(* branches for a worker that stops itself (GetThreadId against            *)
(* GetCurrentThreadId) cannot be taken: nothing the worker calls reaches   *)
(* StartHook or StopHook.                                                  *)
(***************************************************************************)

EXTENDS Integers

CONSTANTS
    Callers,      \* threads of the host that call StartHook and StopHook
    Workers,      \* identities for worker threads, reused once they are free
    None          \* no thread

ASSUME ThreadsAssumption ==
    /\ Callers \cap Workers = {}
    /\ None \notin Callers \cup Workers

VARIABLES
    phase,              \* "unloaded", "attached" or "detached" (DllMain)
    running,            \* g_worker_running
    handle,             \* g_worker_thread: a worker, or None
    lifecycleLock,      \* the owner of g_lifecycle_lock, or None
    workerLock,         \* the owner of g_worker_lock, or None
    registrationLock,   \* the owner of g_registration_lock, or None
    contextReady,       \* g_context_once: the context is initialised
    hooks,              \* g_hooks_installed
    registration,       \* what g_registered_vm and g_attempted_vm hold
    pc,                 \* where each caller is
    calling,            \* the call it has in progress, or "none"
    answer,             \* what its last call returned
    wpc                 \* where each worker is

sharedVars == <<running, handle, contextReady, hooks, registration>>
lockVars   == <<lifecycleLock, workerLock, registrationLock>>
callerVars == <<pc, calling, answer>>
vars       == <<phase, sharedVars, lockVars, callerVars, wpc>>

CallerLabels == {"idle", "lock", "hook", "workerLock", "reap", "spawn",
                 "register", "registering", "signal", "join", "unhook",
                 "clear", "ok", "off"}
WorkerLabels == {"absent", "boot", "try", "tryLock", "own", "poll", "tryReg",
                 "registering"}

Live(w) == wpc[w] # "absent"
AllExited == \A w \in Workers : ~Live(w)

Goto(c, label)  == pc'  = [pc  EXCEPT ![c] = label]
WGoto(w, label) == wpc' = [wpc EXCEPT ![w] = label]

Init ==
    /\ phase = "unloaded"
    /\ running = 0
    /\ handle = None
    /\ lifecycleLock = None
    /\ workerLock = None
    /\ registrationLock = None
    /\ contextReady = FALSE
    /\ hooks = FALSE
    /\ registration = "clear"
    /\ pc = [c \in Callers |-> "idle"]
    /\ calling = [c \in Callers |-> "none"]
    /\ answer = [c \in Callers |-> FALSE]
    /\ wpc = [w \in Workers |-> "absent"]

-----------------------------------------------------------------------------
(* Helpers shared by the threads.                                          *)

\* Mutant: without the early return, our own patches look like foreign bytes.
InstallObjectHooksAgain == hooks' \in BOOLEAN

\* InstallObjectHooks: at once when the hooks are there, else it may fail,
\* and then it has removed what it had patched.
InstallObjectHooks == hooks' \in IF hooks THEN {TRUE} ELSE BOOLEAN

NoWorker == UNCHANGED <<running, handle, wpc>>

\* The compare-and-swap of StartWorker and what follows: the thread starts, or
\* it cannot be created or resumed and the flag falls back.
SpawnWorker ==
    \/ \E w \in Workers \ {handle} :
           /\ ~Live(w)
           /\ running' = 1
           /\ handle' = w
           /\ WGoto(w, "boot")
    \/ NoWorker

\* Mutant: a handle is closed without waiting for the thread.
DrainedAtOnce == TRUE

\* The wait for the thread of g_worker_thread is over.
Drained == handle # None => ~Live(handle)

\* Mutant: the registration lock is taken although another thread has it.
RegistrationAlwaysFree == TRUE

RegistrationFree == registrationLock = None

\* What a completed RegisterCurrentVm may leave: a VM must have been attempted
\* by an earlier call before it can be registered.
RegisterOutcome ==
    registration' \in IF registration = "clear"
                      THEN {"clear", "pending"}
                      ELSE {"clear", "pending", "registered"}

-----------------------------------------------------------------------------
(* The loader.  Process attach runs under the loader lock: no export can   *)
(* be called and no new thread runs before it returns.  The module is      *)
(* pinned, so detach only comes with process exit, when every other thread *)
(* has already been terminated where it stood.                             *)

Attach ==
    /\ phase = "unloaded"
    /\ phase' = "attached"
    /\ SpawnWorker
    /\ UNCHANGED <<contextReady, hooks, registration, lockVars, callerVars>>

Detach ==
    /\ phase = "attached"
    /\ phase' = "detached"
    /\ running' = 0
    /\ UNCHANGED <<handle, contextReady, hooks, registration, lockVars,
                   callerVars, wpc>>

Gone == phase = "detached" /\ UNCHANGED vars

-----------------------------------------------------------------------------
(* A caller in StartHook or StopHook.                                      *)

At(c, label) == phase = "attached" /\ pc[c] = label

Call(c, op) ==
    /\ At(c, "idle")
    /\ calling' = [calling EXCEPT ![c] = op]
    /\ Goto(c, "lock")
    /\ UNCHANGED <<phase, sharedVars, lockVars, answer, wpc>>

AcquireLifecycle(c) ==
    /\ At(c, "lock")
    /\ lifecycleLock = None
    /\ lifecycleLock' = c
    /\ Goto(c, IF calling[c] = "start" THEN "hook" ELSE "signal")
    /\ UNCHANGED <<phase, sharedVars, workerLock, registrationLock, calling,
                   answer, wpc>>

\* StartRuntime: initialise the context and install the hooks.
InstallHooks(c) ==
    /\ At(c, "hook")
    /\ contextReady' = TRUE
    /\ InstallObjectHooks
    /\ Goto(c, IF hooks' THEN "workerLock" ELSE "signal")
    /\ UNCHANGED <<phase, running, handle, registration, lockVars, calling,
                   answer, wpc>>

LockWorker(c) ==
    /\ At(c, "workerLock")
    /\ workerLock = None
    /\ workerLock' = c
    /\ Goto(c, "reap")
    /\ UNCHANGED <<phase, sharedVars, lifecycleLock, registrationLock, calling,
                   answer, wpc>>

\* StartWorker: a stopped worker that nobody has collected is waited for.
ReapWorker(c) ==
    /\ At(c, "reap")
    /\ running = 0 => Drained
    /\ handle' = IF running = 0 THEN None ELSE handle
    /\ Goto(c, "spawn")
    /\ UNCHANGED <<phase, running, contextReady, hooks, registration, lockVars,
                   calling, answer, wpc>>

\* StartWorker: keep the worker that runs, or create one.
SpawnOrKeep(c) ==
    /\ At(c, "spawn")
    /\ \/ running = 0 /\ SpawnWorker
       \/ running = 1 /\ UNCHANGED <<running, handle, wpc>>
    /\ workerLock' = None
    /\ Goto(c, IF running' = 1 THEN "register" ELSE "signal")
    /\ UNCHANGED <<phase, contextReady, hooks, registration, lifecycleLock,
                   registrationLock, calling, answer>>

\* RegisterCurrentVm by StartHook, which ignores the result: skipped when the
\* worker is registering, else done under the registration lock.
TryRegister(c) ==
    /\ At(c, "register")
    /\ \/ /\ RegistrationFree
          /\ registrationLock' = c
          /\ Goto(c, "registering")
       \/ /\ registrationLock # None
          /\ Goto(c, "ok")
          /\ UNCHANGED registrationLock
    /\ UNCHANGED <<phase, sharedVars, lifecycleLock, workerLock, calling, answer,
                   wpc>>

FinishRegister(c) ==
    /\ At(c, "registering")
    /\ RegisterOutcome
    /\ registrationLock' = None
    /\ Goto(c, "ok")
    /\ UNCHANGED <<phase, running, handle, contextReady, hooks, lifecycleLock,
                   workerLock, calling, answer, wpc>>

\* StopRuntimeWorker, for StopHook and for a StartHook that failed: drop the
\* flag under the worker lock, then wait for the thread to end.
Signal(c) ==
    /\ At(c, "signal")
    /\ workerLock = None
    /\ workerLock' = c
    /\ running' = 0
    /\ Goto(c, "join")
    /\ UNCHANGED <<phase, handle, contextReady, hooks, registration,
                   lifecycleLock, registrationLock, calling, answer, wpc>>

Join(c) ==
    /\ At(c, "join")
    /\ Drained
    /\ handle' = None
    /\ workerLock' = None
    /\ Goto(c, "unhook")
    /\ UNCHANGED <<phase, running, contextReady, hooks, registration,
                   lifecycleLock, registrationLock, calling, answer, wpc>>

Unhook(c) ==
    /\ At(c, "unhook")
    /\ hooks' = FALSE
    /\ Goto(c, "clear")
    /\ UNCHANGED <<phase, running, handle, contextReady, registration, lockVars,
                   calling, answer, wpc>>

ClearRegistrationState(c) ==
    /\ At(c, "clear")
    /\ registrationLock = None
    /\ registration' = "clear"
    /\ Goto(c, "off")
    /\ UNCHANGED <<phase, running, handle, contextReady, hooks, lockVars,
                   calling, answer, wpc>>

Return(c) ==
    /\ phase = "attached"
    /\ pc[c] \in {"ok", "off"}
    /\ answer' = [answer EXCEPT ![c] = calling[c] = "stop" \/ pc[c] = "ok"]
    /\ calling' = [calling EXCEPT ![c] = "none"]
    /\ lifecycleLock' = None
    /\ Goto(c, "idle")
    /\ UNCHANGED <<phase, sharedVars, workerLock, registrationLock, wpc>>

CallerStep(c) ==
    \/ AcquireLifecycle(c)
    \/ InstallHooks(c)
    \/ LockWorker(c)
    \/ ReapWorker(c)
    \/ SpawnOrKeep(c)
    \/ TryRegister(c)
    \/ FinishRegister(c)
    \/ Signal(c)
    \/ Join(c)
    \/ Unhook(c)
    \/ ClearRegistrationState(c)
    \/ Return(c)

-----------------------------------------------------------------------------
(* The worker.                                                             *)

WAt(w, label) == phase = "attached" /\ wpc[w] = label

Boot(w) ==
    /\ WAt(w, "boot")
    /\ WGoto(w, "try")
    /\ UNCHANGED <<phase, sharedVars, lockVars, callerVars>>

\* Mutant: the first loop does not look at the flag until it has the lock.
KeepTryingBlindly == TRUE

KeepTrying == running = 1

\* The head of the first loop reads the flag.
CheckFlag(w) ==
    /\ WAt(w, "try")
    /\ WGoto(w, IF KeepTrying THEN "tryLock" ELSE "poll")
    /\ UNCHANGED <<phase, sharedVars, lockVars, callerVars>>

\* Mutant: the worker waits for the lifecycle lock instead of trying it.
LifecycleNeverBusy == FALSE

LifecycleBusy == lifecycleLock # None

\* It never blocks on the lifecycle lock: the owner may be waiting for it.
TryLifecycle(w) ==
    /\ WAt(w, "tryLock")
    /\ \/ /\ lifecycleLock = None
          /\ lifecycleLock' = w
          /\ WGoto(w, "own")
       \/ /\ LifecycleBusy
          /\ WGoto(w, "try")
          /\ UNCHANGED lifecycleLock
    /\ UNCHANGED <<phase, sharedVars, workerLock, registrationLock, callerVars>>

\* Re-read the flag under the lock, install the hooks, and give up if that fails.
InstallOrGiveUp(w) ==
    /\ WAt(w, "own")
    /\ IF running = 1
       THEN /\ contextReady' = TRUE
            /\ InstallObjectHooks
            /\ running' = IF hooks' THEN 1 ELSE 0
       ELSE UNCHANGED <<contextReady, hooks, running>>
    /\ lifecycleLock' = None
    /\ WGoto(w, "poll")
    /\ UNCHANGED <<phase, handle, registration, workerLock, registrationLock,
                   callerVars>>

Poll(w) ==
    /\ WAt(w, "poll")
    /\ WGoto(w, IF running = 1 THEN "tryReg" ELSE "absent")
    /\ UNCHANGED <<phase, sharedVars, lockVars, callerVars>>

WTryRegister(w) ==
    /\ WAt(w, "tryReg")
    /\ \/ /\ RegistrationFree
          /\ registrationLock' = w
          /\ WGoto(w, "registering")
       \/ /\ registrationLock # None
          /\ WGoto(w, "poll")
          /\ UNCHANGED registrationLock
    /\ UNCHANGED <<phase, sharedVars, lifecycleLock, workerLock, callerVars>>

WFinishRegister(w) ==
    /\ WAt(w, "registering")
    /\ RegisterOutcome
    /\ registrationLock' = None
    /\ WGoto(w, "poll")
    /\ UNCHANGED <<phase, running, handle, contextReady, hooks, lifecycleLock,
                   workerLock, callerVars>>

WorkerStep(w) ==
    \/ Boot(w)
    \/ CheckFlag(w)
    \/ TryLifecycle(w)
    \/ InstallOrGiveUp(w)
    \/ Poll(w)
    \/ WTryRegister(w)
    \/ WFinishRegister(w)

-----------------------------------------------------------------------------
Next ==
    \/ Attach
    \/ Detach
    \/ Gone
    \/ \E c \in Callers : CallerStep(c) \/ \E op \in {"start", "stop"} : Call(c, op)
    \/ \E w \in Workers : WorkerStep(w)

Spec == Init /\ [][Next]_vars

(***************************************************************************)
(* Every thread that can run eventually runs, and every call into Windows  *)
(* and into the game VM returns.  No fairness is assumed of the locks, of  *)
(* the loader, or of who calls what.                                       *)
(***************************************************************************)
Fairness ==
    /\ \A c \in Callers : WF_vars(CallerStep(c))
    /\ \A w \in Workers : WF_vars(WorkerStep(w))

FairSpec == Spec /\ Fairness
-----------------------------------------------------------------------------
(* Properties.                                                             *)

\* The type invariant.
TypeOK ==
    /\ phase \in {"unloaded", "attached", "detached"}
    /\ running \in {0, 1}
    /\ handle \in Workers \cup {None}
    /\ lifecycleLock \in Callers \cup Workers \cup {None}
    /\ workerLock \in Callers \cup {None}
    /\ registrationLock \in Callers \cup Workers \cup {None}
    /\ contextReady \in BOOLEAN
    /\ hooks \in BOOLEAN
    /\ registration \in {"clear", "pending", "registered"}
    /\ pc \in [Callers -> CallerLabels]
    /\ calling \in [Callers -> {"none", "start", "stop"}]
    /\ answer \in [Callers -> BOOLEAN]
    /\ wpc \in [Workers -> WorkerLabels]

\* No worker thread is ever forgotten: one that has not ended is the one
\* g_worker_thread holds, so that a later stop can wait for it (and there are
\* never two that drive the same VM).
SingleWorker == \A w \in Workers : Live(w) => handle = w

\* RegisterCurrentVm runs only after the context and the object hooks are in
\* place, whoever calls it: a native registered earlier would find no host API.
RegistrationNeedsHooks ==
    phase = "attached" =>
        /\ \A w \in Workers : wpc[w] \in {"tryReg", "registering"} =>
               hooks /\ contextReady
        /\ \A c \in Callers : pc[c] \in {"register", "registering"} =>
               hooks /\ contextReady

\* When StopHook, or a StartHook that failed, is about to return, nothing of the
\* service is left: the flag is down, the thread has ended and its handle is
\* closed, the hooks are removed and no registration state survives.
StopIsComplete ==
    \A c \in Callers : pc[c] = "off" =>
        /\ running = 0
        /\ handle = None
        /\ AllExited
        /\ ~hooks
        /\ registration = "clear"

\* Without the hooks there is no registration state, except on the way between
\* removing the one and clearing the other: no VM pointer of an earlier service
\* is found by the next one.
RegistrationOwned ==
    registration # "clear" => hooks \/ \E c \in Callers : pc[c] = "clear"

\* The flag is only raised over the grave of the last worker (the comment in
\* StopRuntimeWorker): one that drains never sees it go back to one.
FlagRaisedOnlyWhenDrained ==
    [][running = 0 /\ running' = 1 => AllExited]_vars

\* The service as its users see it.
NothingLeft == ~hooks /\ registration = "clear" /\ AllExited

Service ==
    IF phase # "attached" THEN phase
    ELSE CASE running = 1 /\ hooks       -> "on"
           [] running = 1 /\ ~hooks      -> "auto"
           [] running = 0 /\ NothingLeft -> "off"
           [] OTHER                      -> "changing"

\* The threads, locks and handles implement HookService: a service that is on is
\* only taken down by StopHook, one that is off is only brought up by StartHook,
\* and what the calls answer is what they left behind.
HS == INSTANCE HookService WITH service <- Service
ImplementsHookService == HS!Spec

\* Whoever takes the lifecycle lock gives it back, even a stop that waits for a
\* worker that itself wants the lock.
LockReleased ==
    phase = "attached" /\ lifecycleLock # None
        ~> phase = "detached" \/ lifecycleLock = None

\* The automatic start, a start or a stop is never stuck half way.
Settles ==
    Service \in {"auto", "changing"} ~> Service \in {"on", "off", "detached"}

-----------------------------------------------------------------------------
(* The inductive invariant that the safety properties follow from.         *)

HoldingLifecycle == CallerLabels \ {"idle", "lock"}

\* Who owns which lock, by where the threads are.
LockInv ==
    /\ \A c \in Callers :
           /\ lifecycleLock = c <=> pc[c] \in HoldingLifecycle
           /\ workerLock = c <=> pc[c] \in {"reap", "spawn", "join"}
           /\ registrationLock = c <=> pc[c] = "registering"
           /\ calling[c] = "none" <=> pc[c] = "idle"
    /\ \A w \in Workers :
           /\ lifecycleLock = w <=> wpc[w] = "own"
           /\ registrationLock = w <=> wpc[w] = "registering"

\* The flag and the handle.
FlagInv ==
    /\ phase = "attached" /\ running = 1 => handle # None /\ Live(handle)
    /\ phase = "unloaded" =>
           running = 0 /\ ~hooks /\ AllExited /\ \A c \in Callers : pc[c] = "idle"

\* What the worker knows of the shared state at its labels.
WorkerInv ==
    phase = "attached" =>
        \A w \in Workers :
            /\ wpc[w] = "own" => running = 1
            /\ wpc[w] \in {"tryReg", "registering"} => hooks /\ contextReady
            /\ wpc[w] = "poll" /\ running = 1 => hooks /\ contextReady
            /\ wpc[w] \in {"boot", "try", "tryLock"} /\ running = 0 =>
                   \E c \in Callers : pc[c] = "join"

\* What a caller knows of the shared state at its labels.
CallerInv ==
    \A c \in Callers :
        /\ pc[c] \in {"workerLock", "reap", "spawn", "register", "registering",
                      "ok"} => calling[c] = "start" /\ contextReady /\ hooks
        /\ pc[c] = "hook" => calling[c] = "start"
        /\ phase = "attached" /\ pc[c] \in {"register", "registering", "ok"} =>
               running = 1
        /\ pc[c] = "spawn" /\ running = 0 /\ phase = "attached" =>
               handle = None
        /\ pc[c] = "signal" /\ calling[c] = "start" => running = 0 \/ ~hooks
        /\ pc[c] = "join" => running = 0
        /\ pc[c] \in {"unhook", "clear", "off"} => running = 0 /\ handle = None
        /\ pc[c] \in {"clear", "off"} => ~hooks
        /\ pc[c] = "off" => registration = "clear"

IInv ==
    /\ TypeOK
    /\ LockInv
    /\ FlagInv
    /\ SingleWorker
    /\ WorkerInv
    /\ CallerInv
    /\ RegistrationOwned
=============================================================================
