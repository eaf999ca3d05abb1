------------------------------ MODULE Extension ------------------------------
(***************************************************************************)
(* The whole of src/src/runtime/dll_entry.cpp: the threads, locks and      *)
(* handles of WorkerLifecycle, each of which may be in RegisterCurrentVm,  *)
(* whose steps are those of VmRegistration, while the game replaces its VM *)
(* and stops and starts come from the host.                                *)
(*                                                                         *)
(* The two components share the registration lock and what registration    *)
(* leaves in g_registered_vm and g_attempted_vm.  Each thread has locals   *)
(* of its own in RegisterCurrentVm; that at most one thread uses them, as  *)
(* VmRegistration takes for granted, is a property here.                   *)
(*                                                                         *)
(* The end of the process, which stops everything where it is, is left to  *)
(* WorkerLifecycle, and the object paths of scripts to VmRegistration.     *)
(*                                                                         *)
(* A tick is at least a round of the worker: time does not pass it by, but *)
(* while it is inside the VM any number of ticks may pass.                 *)
(***************************************************************************)
EXTENDS Integers

CONSTANTS
    Callers, Workers, None,                         \* of WorkerLifecycle
    Addresses, Null, W, Settle, Backoff,            \* of VmRegistration
    NativeCount, ClosureCount

ASSUME ThreadsApart == Callers \cap Workers = {} /\ None \notin Callers \cup Workers
ASSUME NullApart == Null \notin Addresses

VARIABLES
    phase, running, handle, lifecycleLock, workerLock, registrationLock,
    contextReady, hooks, pc, calling, answer, wpc,  \* of WorkerLifecycle
    now, published, natives, closures, paths, registered, attempted,
    nextAttempt, since, age, reused, failedAt, failedAgo,  \* of VmRegistration
    call,         \* where each thread is in RegisterCurrentVm, and its locals
    polled        \* a call has read the clock, or found no need to,
                  \* since the last tick

threadVars == <<phase, running, handle, lifecycleLock, workerLock,
                registrationLock, contextReady, hooks, pc, calling, answer, wpc>>
vmVars == <<now, published, natives, closures, paths, registered, attempted,
            nextAttempt, since, age, reused, failedAt, failedAgo>>
vars == <<threadVars, vmVars, call, polled>>

Threads == Callers \cup Workers

\* The registration as the threads' component sees it.
Trace == IF registered # Null THEN "registered"
         ELSE IF attempted # Null THEN "pending"
         ELSE "clear"

L == INSTANCE WorkerLifecycle WITH registration <- Trace

\* RegisterCurrentVm, called by thread t.
R(t) == INSTANCE VmRegistration
            WITH pc <- call[t].pc, vm <- call[t].vm, item <- call[t].item

\* The locals of a thread that is not in it.
NoCall == [pc |-> "idle", vm |-> Null, item |-> 1]

Calls == {NoCall} \cup
         [pc : {"sentinel", "decide", "natives", "check", "install"},
          vm : Addresses, item : (1 .. NativeCount) \cup (1 .. ClosureCount)]

\* The one call the registration's component sees: that of the lock's owner.
Current == IF registrationLock = None THEN NoCall ELSE call[registrationLock]

V == INSTANCE VmRegistration
         WITH pc <- Current.pc, vm <- Current.vm, item <- Current.item

Init ==
    /\ call = [t \in Threads |-> NoCall]
    /\ polled = TRUE
    /\ registrationLock = None
    /\ V!Init /\ L!Init

-----------------------------------------------------------------------------
(* The threads outside of RegisterCurrentVm.                               *)

CallerOutside(c) ==
    \/ L!AcquireLifecycle(c)
    \/ L!InstallHooks(c)
    \/ L!LockWorker(c)
    \/ L!ReapWorker(c)
    \/ L!SpawnOrKeep(c)
    \/ L!TryRegister(c)
    \/ L!Signal(c)
    \/ L!Join(c)
    \/ L!Unhook(c)
    \/ L!Return(c)

WorkerOutside(w) ==
    \/ L!Boot(w)
    \/ L!CheckFlag(w)
    \/ L!TryLifecycle(w)
    \/ L!InstallOrGiveUp(w)
    \/ L!Poll(w)
    \/ L!WTryRegister(w)

Apart == UNCHANGED <<vmVars, call, polled>>

Attach == Apart /\ L!Attach

Invoke(c, op) == Apart /\ L!Call(c, op)

\* ClearRegistrationState, by a stop that has the registration lock to itself.
Clear(c) ==
    /\ UNCHANGED <<registrationLock, call, polled>>
    /\ V!ClearRegistrationState
    /\ L!ClearRegistrationState(c)

-----------------------------------------------------------------------------
(* A thread in RegisterCurrentVm, which it leaves with the lock released.  *)

Registering(t) ==
    /\ phase = "attached"
    /\ t \in Callers => pc[t] = "registering"
    /\ t \in Workers => wpc[t] = "registering"

\* Mutant of Release: a return keeps the lock.
ReleaseForgotten(next) == registrationLock' = registrationLock

\* Every return releases the lock.
Release(next) ==
    registrationLock' = IF next.pc = "idle" THEN None ELSE registrationLock

\* StartHook ignores the result; the worker polls again.
GoOn(t, next) ==
    IF next.pc # "idle" THEN UNCHANGED <<pc, wpc>>
    ELSE /\ pc' = IF t \in Callers THEN [pc EXCEPT ![t] = "ok"] ELSE pc
         /\ wpc' = IF t \in Workers THEN [wpc EXCEPT ![t] = "poll"] ELSE wpc

RegisterStep(t) ==
    /\ Registering(t)
    /\ \E next \in Calls :
          /\ call' = [call EXCEPT ![t] = next]
          /\ R(t)!CallStep
          /\ Release(next)
          /\ GoOn(t, next)
          /\ polled' = (polled \/ call[t].pc = "decide" \/ next = NoCall)
    /\ UNCHANGED <<phase, running, handle, lifecycleLock, workerLock,
                   contextReady, hooks, calling, answer>>

-----------------------------------------------------------------------------
(* The game.                                                               *)

InVm == Current.pc \in {"natives", "check", "install"}

Polling(w) == wpc[w] \in {"poll", "tryReg", "registering"}

\* Time waits for a worker that polls, unless the VM keeps it.
Paced == polled \/ InVm \/ \A w \in Workers : ~Polling(w)

Tick ==
    /\ Paced
    /\ UNCHANGED <<threadVars, call>>
    /\ V!Tick
    /\ polled' = FALSE

GameStep ==
    /\ UNCHANGED <<threadVars, call, polled>>
    /\ (\E a \in Addresses : V!Publish(a)) \/ V!Unpublish

-----------------------------------------------------------------------------
CallerStep(c) ==
    (Apart /\ CallerOutside(c)) \/ Clear(c) \/ RegisterStep(c)

WorkerStep(w) == (Apart /\ WorkerOutside(w)) \/ RegisterStep(w)

Next ==
    \/ Attach
    \/ Tick
    \/ GameStep
    \/ \E c \in Callers :
          CallerStep(c) \/ \E op \in {"start", "stop"} : Invoke(c, op)
    \/ \E w \in Workers : WorkerStep(w)

\* The native or the closure at an index is put into the VM.
NativePut(n) ==
    \E t \in Threads :
        call[t].item = n /\ RegisterStep(t) /\ R(t)!RegisterNative
ClosurePut(k) ==
    \E t \in Threads :
        call[t].item = k /\ RegisterStep(t) /\ R(t)!InstallClosure

(***************************************************************************)
(* The fairness of WorkerLifecycle; time passes; and a native or a closure *)
(* that is put into the VM again and again is not refused for ever.        *)
(***************************************************************************)
Fairness ==
    /\ \A c \in Callers : WF_vars(CallerStep(c))
    /\ \A w \in Workers : WF_vars(WorkerStep(w))
    /\ WF_vars(Tick)
    /\ \A n \in 1 .. NativeCount : SF_vars(NativePut(n))
    /\ \A k \in 1 .. ClosureCount : SF_vars(ClosurePut(k))

Spec == Init /\ [][Next]_vars /\ Fairness

-----------------------------------------------------------------------------
(* Properties.                                                             *)

\* What RegisterCurrentVm does to the VM pointers and to its lock is what the
\* model of the threads takes for its outcome: it is left with the lock
\* released on every path, and a VM is only registered by a call that comes
\* after the one that first saw it.
ImplementsLifecycle == L!Spec

\* All threads together perform RegisterCurrentVm as if there were one call at
\* a time: the lock that is only tried keeps the worker and StartHook apart, and
\* ClearRegistrationState away from both.
ImplementsRegistration == V!Spec

\* Nobody is inside RegisterCurrentVm without the object hooks and the context,
\* and when a stop is about to return, no thread holds a pointer to a VM and
\* none is remembered, so that the VM may be freed.
QuietWhenStopped ==
    phase = "attached" =>
        /\ (\E t \in Threads : call[t] # NoCall) => hooks /\ contextReady
        /\ (\E c \in Callers : pc[c] = "off") =>
               /\ \A t \in Threads : call[t] = NoCall
               /\ registered = Null /\ attempted = Null

\* While the service stays on with a worker that polls, and the game keeps its
\* VM, the VM is registered in the end and stays so, however often this failed,
\* and also when it came to the address of an earlier one.
Steady ==
    /\ L!Service = "on" /\ \E w \in Workers : Polling(w)
    /\ published # Null /\ age = Settle

VmRegistered == registered = published /\ V!Sentinel \in closures

EventuallyRegistered == <>[]Steady => <>[]VmRegistered
=============================================================================
