--------------------------- MODULE VmRegistration ---------------------------
(***************************************************************************)
(* RegisterCurrentVm of src/src/runtime/dll_entry.cpp with the natives of  *)
(* callback_registry.cpp and the closures of closure_installer.cpp, against *)
(* a game that creates, destroys and replaces its Squirrel VM whenever it  *)
(* likes, between any two steps of a call.                                 *)
(*                                                                         *)
(* g_registration_lock is only ever tried, so at most one call is past its *)
(* first line; the others return at once and change nothing.  One program  *)
(* counter is therefore enough for the worker and StartHook together.  Only *)
(* ClearRegistrationState waits for the lock.                              *)
(*                                                                         *)
(* The tick count is a number modulo W.  A VM is the set of natives and    *)
(* closures its root table has; only the VM that is published exists, and  *)
(* a call on a pointer that is not published touches freed memory: it may  *)
(* answer anything, and what it does to the heap is not modelled.          *)
(***************************************************************************)
EXTENDS Integers

CONSTANTS
    Addresses,    \* where the allocator may put a VM
    Null,         \* the null pointer
    W,            \* ticks wrap at W (2^32 in the code)
    Settle,       \* 500 ms in ticks
    Backoff,      \* 5000 ms in ticks
    NativeCount,  \* 32 in the code
    ClosureCount  \* 1803 in the code; closure 1 is the sentinel of the root table

ASSUME AddressesAssumption == Null \notin Addresses
ASSUME TicksAssumption ==
    /\ W \in Nat /\ Settle \in Nat \ {0} /\ Backoff \in Nat \ {0}
    /\ 2 * Settle < W /\ 2 * Backoff < W
ASSUME CountsAssumption == NativeCount \in Nat \ {0} /\ ClosureCount \in Nat \ {0}

VARIABLES
    now,          \* GetTickCount
    published,    \* what the game's VM global points to
    natives,      \* the natives in the published VM's root table
    closures,     \* the closures in it
    paths,        \* g_object_paths: entries of the "current" or an "earlier" VM
    registered,   \* g_registered_vm
    attempted,    \* g_attempted_vm
    nextAttempt,  \* g_next_registration_attempt, 0 for none
    since,        \* g_vm_observed_since
    pc,           \* the call in progress, "idle" when the lock is free
    vm,           \* its local pointer, null when the lock is free
    item,         \* the native or closure it is at
    \* What the properties remember; no guard reads it.
    age,          \* ticks since the VM was published, up to Settle
    reused,       \* it came to an address that still stood for an earlier one
    failedAt,     \* tick of the last failed attempt on attempted, or -1
    failedAgo     \* ticks since then, up to Backoff

gameVars  == <<published, natives, closures>>
stateVars == <<registered, attempted, nextAttempt, since>>
callVars  == <<pc, vm, item>>
vmGhosts  == <<age, reused>>
failGhosts == <<failedAt, failedAgo>>
vars == <<now, gameVars, paths, stateVars, callVars, vmGhosts, failGhosts>>

Natives  == 1 .. NativeCount
Closures == 1 .. ClosureCount
Sentinel == 1
ForcedNative == 1
PathNative == NativeCount      \* the native through which scripts add paths
Ticks == 0 .. W - 1
Labels == {"idle", "sentinel", "decide", "natives", "check", "install"}

Capped(n, bound) == IF n < bound THEN n ELSE bound

Init ==
    /\ now \in Ticks
    /\ published = Null
    /\ natives = {}
    /\ closures = {}
    /\ paths = {}
    /\ registered = Null
    /\ attempted = Null
    /\ nextAttempt = 0
    /\ since = 0
    /\ pc = "idle"
    /\ vm = Null
    /\ item = 1
    /\ age = 0
    /\ reused = FALSE
    /\ failedAt = -1
    /\ failedAgo = Backoff

-----------------------------------------------------------------------------
(* The game.                                                               *)

Tick ==
    /\ now' = (now + 1) % W
    /\ age' = Capped(age + 1, Settle)
    /\ failedAgo' = Capped(failedAgo + 1, Backoff)
    /\ UNCHANGED <<gameVars, paths, stateVars, callVars, reused, failedAt>>

NewRootTable ==
    /\ natives' = {}
    /\ closures' = {}
    /\ paths' = IF paths = {} THEN {} ELSE {"earlier"}

\* A new VM is published, in place of the old one if there is one.
Publish(a) ==
    /\ published' = a
    /\ NewRootTable
    /\ age' = 0
    /\ reused' = (a \in {registered, attempted, vm})
    /\ UNCHANGED <<now, stateVars, callVars, failGhosts>>

Unpublish ==
    /\ published # Null
    /\ published' = Null
    /\ NewRootTable
    /\ UNCHANGED <<now, stateVars, callVars, vmGhosts, failGhosts>>

\* A script calls cqx_pushObject, which ends in RegisterObjectPath.
RegisterPath ==
    /\ PathNative \in natives
    /\ paths' = paths \cup {"current"}
    /\ UNCHANGED <<now, gameVars, stateVars, callVars, vmGhosts, failGhosts>>

-----------------------------------------------------------------------------
(* RegisterCurrentVm.                                                      *)

Return == pc' = "idle" /\ vm' = Null /\ item' = 1

NoFailure == failedAt' = -1 /\ failedAgo' = Backoff

Forget ==
    /\ registered' = Null
    /\ attempted' = Null
    /\ nextAttempt' = 0
    /\ since' = 0

\* The slot reads null: the VM generation is over.
PollNull ==
    /\ pc = "idle"
    /\ published = Null
    /\ paths' = IF registered # Null \/ attempted # Null THEN {} ELSE paths
    /\ Forget
    /\ NoFailure
    /\ UNCHANGED <<now, gameVars, callVars, vmGhosts>>

Poll ==
    /\ pc = "idle"
    /\ published # Null
    /\ vm' = published
    /\ pc' = IF published = registered THEN "sentinel" ELSE "decide"
    /\ UNCHANGED <<now, gameVars, paths, stateVars, item, vmGhosts, failGhosts>>

\* Mutant: a pointer that is the registered one is not looked into.
SentinelAssumed == TRUE

\* What the VM at the pointer answers; a VM that has gone may answer anything.
SentinelThere == vm = published => Sentinel \in closures

\* The pointer is the registered one: done if its root table has the sentinel.
CheckSentinel ==
    /\ pc = "sentinel"
    /\ \/ /\ SentinelThere
          /\ Return
       \/ /\ vm = published => Sentinel \notin closures
          /\ pc' = "decide"
          /\ UNCHANGED <<vm, item>>
    /\ UNCHANGED <<now, gameVars, paths, stateVars, vmGhosts, failGhosts>>

\* Mutants: every pointer is taken for a new one; the time it was first seen is
\* not taken; the paths of the VM before are kept.
AlwaysNewPointer == TRUE
Untimed == UNCHANGED since
PathsKept == UNCHANGED paths

NewPointer == vm # attempted
StartTimer == since' = now
ClearObjectPaths == paths' = {}

\* A pointer that is new: start watching it.
Observe ==
    /\ pc = "decide"
    /\ NewPointer
    /\ ClearObjectPaths
    /\ attempted' = vm
    /\ nextAttempt' = 0
    /\ StartTimer
    /\ Return
    /\ NoFailure
    /\ UNCHANGED <<now, gameVars, registered, vmGhosts>>

Settled == (now - since) % W >= Settle

\* Mutant: ticks are compared as if they never wrapped.
DueWithoutWrap == nextAttempt = 0 \/ now >= nextAttempt

\* The signed comparison of 32-bit differences.
Due == nextAttempt = 0 \/ (now - nextAttempt) % W < W \div 2

Defer ==
    /\ pc = "decide"
    /\ vm = attempted
    /\ ~Settled \/ ~Due
    /\ Return
    /\ UNCHANGED <<now, gameVars, paths, stateVars, vmGhosts, failGhosts>>

\* Enter the VM; the attempt counts as failed until it succeeds.
Attempt ==
    /\ pc = "decide"
    /\ vm = attempted
    /\ Settled /\ Due
    /\ nextAttempt' = (now + Backoff) % W
    /\ pc' = "natives"
    /\ item' = 1
    /\ failedAt' = now
    /\ failedAgo' = 0
    /\ UNCHANGED <<now, gameVars, paths, registered, attempted, since, vm,
                   vmGhosts>>

\* Mutant: a native that could not be registered is skipped.
PutNativeOrSkip(n) == natives' \in {natives, natives \cup {n}}

\* register_native; nobody checks that the VM is still the published one.
PutNative(n) == natives' = IF vm = published THEN natives \cup {n} ELSE natives

\* RegisterSquirrelExtensions, one native after the other.
RegisterNative ==
    /\ pc = "natives"
    /\ PutNative(item)
    /\ IF item < NativeCount
       THEN item' = item + 1 /\ UNCHANGED pc
       ELSE item' = 1 /\ pc' = "check"
    /\ UNCHANGED <<now, published, closures, paths, stateVars, vm, vmGhosts,
                   failGhosts>>

\* A native whose slot cannot be made ends the attempt; one that exists is left
\* alone, except the first, which is always made anew.
FailNative ==
    /\ pc = "natives"
    /\ vm = published => item \notin natives \/ item = ForcedNative
    /\ Return
    /\ UNCHANGED <<now, gameVars, paths, stateVars, vmGhosts, failGhosts>>

\* InstallGeneratedClosures looks at the global before every record.
CheckCurrent ==
    /\ pc = "check"
    /\ IF vm = published
       THEN pc' = "install" /\ UNCHANGED <<vm, item>>
       ELSE Return
    /\ UNCHANGED <<now, gameVars, paths, stateVars, vmGhosts, failGhosts>>

\* Install the record unless its name exists; after the last one the VM counts
\* as registered.
InstallClosure ==
    /\ pc = "install"
    /\ closures' = IF vm = published THEN closures \cup {item} ELSE closures
    /\ IF item < ClosureCount
       THEN /\ item' = item + 1
            /\ pc' = "check"
            /\ UNCHANGED <<vm, registered, nextAttempt, failGhosts>>
       ELSE /\ registered' = vm
            /\ nextAttempt' = 0
            /\ Return
            /\ NoFailure
    /\ UNCHANGED <<now, published, natives, paths, attempted, since, vmGhosts>>

\* A record whose closure cannot be read or stored ends the attempt.
FailClosure ==
    /\ pc = "install"
    /\ vm = published => item \notin closures
    /\ Return
    /\ UNCHANGED <<now, gameVars, paths, stateVars, vmGhosts, failGhosts>>

\* ClearRegistrationState, by a stop: it waits for the lock.
ClearRegistrationState ==
    /\ pc = "idle"
    /\ paths' = {}
    /\ Forget
    /\ NoFailure
    /\ UNCHANGED <<now, gameVars, callVars, vmGhosts>>

-----------------------------------------------------------------------------
Game ==
    \/ Tick
    \/ \E a \in Addresses : Publish(a)
    \/ Unpublish
    \/ RegisterPath

CallStep ==
    \/ PollNull
    \/ Poll
    \/ CheckSentinel
    \/ Observe
    \/ Defer
    \/ Attempt
    \/ RegisterNative
    \/ FailNative
    \/ CheckCurrent
    \/ InstallClosure
    \/ FailClosure

Next ==
    \/ Game
    \/ CallStep
    \/ ClearRegistrationState

Spec == Init /\ [][Next]_vars
-----------------------------------------------------------------------------
(* Properties.                                                             *)

TypeOK ==
    /\ now \in Ticks
    /\ published \in Addresses \cup {Null}
    /\ natives \subseteq Natives
    /\ closures \subseteq Closures
    /\ paths \subseteq {"current", "earlier"}
    /\ registered \in Addresses \cup {Null}
    /\ attempted \in Addresses \cup {Null}
    /\ nextAttempt \in Ticks
    /\ since \in Ticks
    /\ pc \in Labels
    /\ vm \in Addresses \cup {Null}
    /\ item \in 1 .. NativeCount + ClosureCount
    /\ age \in 0 .. Settle
    /\ reused \in BOOLEAN
    /\ failedAt \in Ticks \cup {-1}
    /\ failedAgo \in 0 .. Backoff

\* A VM whose pointer the plugin holds for registered has every native and every
\* closure, however the game replaced VMs and whatever failed before, unless the
\* allocator gave it the address that still stood for an earlier VM.
CompleteUnlessReused ==
    registered = published /\ published # Null /\ ~reused =>
        natives = Natives /\ closures = Closures

\* A VM is entered only when it has been published for Settle ticks, also when
\* the tick count wrapped in between, unless its address was reused unseen.
SettledUnlessReused ==
    [][Attempt /\ vm = published /\ ~reused => age = Settle]_vars

\* After a failed attempt the same pointer is left alone for Backoff ticks. The
\* one exception is an attempt whose next one falls due at tick 0, the value that
\* stands for "no attempt pending".
BackoffUnlessDueAtZero ==
    [][Attempt => \/ failedAgo = Backoff
                  \/ failedAt # -1 /\ (failedAt + Backoff) % W = 0]_vars

\* Once a call has seen the pointer of the current VM, the object paths of
\* earlier VMs are gone, unless its address was reused unseen.
PathsOfThisVm ==
    attempted = published /\ published # Null /\ ~reused => "earlier" \notin paths

\* A call only drops paths that the current VM registered when a stop has cleared
\* the registration state before: never between a VM's registration and its end.
OwnPathsKept ==
    [][ "current" \in paths /\ paths' = {} =>
            ClearRegistrationState \/ attempted = Null ]_vars

-----------------------------------------------------------------------------
(* What a comment of RegisterCurrentVm says, and the code does not do.     *)

\* "Clearing the pointer makes a later allocator reuse at the same address
\* re-register": a VM for which every call will answer TRUE is complete.
ReusedVmIsRegistered ==
    pc = "idle" /\ registered = published /\ Sentinel \in closures =>
        natives = Natives /\ closures = Closures

-----------------------------------------------------------------------------
(* The inductive invariant that the properties above follow from.          *)

\* Where the call in progress is, and what it holds.
CallInv ==
    /\ pc = "idle" => vm = Null /\ item = 1
    /\ pc # "idle" => vm \in Addresses
    /\ pc \in {"sentinel", "decide"} => item = 1
    /\ pc = "natives" => item \in Natives
    /\ pc \in {"check", "install"} => item \in Closures
    /\ pc \in {"natives", "check", "install"} => attempted = vm

\* What the call has put into the published VM so far.
ProgressInv ==
    vm = published /\ published # Null /\ ~reused =>
        /\ pc = "natives" => 1 .. item - 1 \subseteq natives
        /\ pc \in {"check", "install"} =>
               natives = Natives /\ 1 .. item - 1 \subseteq closures

\* A VM that has natives or paths is the one the plugin is dealing with.
GenerationInv ==
    natives # {} \/ "current" \in paths =>
        /\ published # Null
        /\ attempted \in {published, Null}
        /\ pc # "idle" => vm = published

\* The clock has not run further since the VM was observed than since it was
\* published.
AgeInv ==
    attempted = published /\ published # Null /\ ~reused =>
        age = Settle \/ (now - since) % W <= age

\* While the next attempt is pending, the clock tells how long.
PendingInv ==
    /\ failedAt = -1 => failedAgo = Backoff
    /\ failedAt # -1 => /\ nextAttempt = (failedAt + Backoff) % W
                        /\ failedAgo = Backoff \/ now = (failedAt + failedAgo) % W

RegistrationInv ==
    /\ TypeOK
    /\ CallInv
    /\ ProgressInv
    /\ CompleteUnlessReused
    /\ PathsOfThisVm

IInv == RegistrationInv /\ GenerationInv /\ AgeInv /\ PendingInv
=============================================================================
