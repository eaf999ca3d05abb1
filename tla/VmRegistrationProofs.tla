------------------------ MODULE VmRegistrationProofs ------------------------
(***************************************************************************)
(* For any addresses, any tick width and any numbers of natives and        *)
(* closures: the inductive invariant of VmRegistration and the two safety  *)
(* invariants that follow from it.                                         *)
(***************************************************************************)
EXTENDS VmRegistration, TLAPS

\* The initial values are values of their types.
LEMMA Bounds ==
    /\ W \in Nat /\ 0 \in Ticks
    /\ 1 \in Natives /\ 1 \in Closures
    /\ \A i \in Natives \cup Closures : i \in 1 .. NativeCount + ClosureCount
    /\ \A i \in Natives : i # NativeCount => i + 1 \in Natives
    /\ \A i \in Closures : i # ClosureCount => i + 1 \in Closures
BY TicksAssumption, CountsAssumption DEF Ticks, Natives, Closures

\* The game's steps preserve the invariant: a VM that takes the place of another
\* is marked when a pointer of the plugin stands for its address already.
LEMMA GamePreserves ==
    ASSUME RegistrationInv, Game
    PROVE  RegistrationInv'
<1> USE AddressesAssumption, TicksAssumption, CountsAssumption
    DEF RegistrationInv, gameVars, stateVars, callVars, vmGhosts, failGhosts
<1>1. CASE Tick
  <2>1. TypeOK'
    BY <1>1 DEF Tick, TypeOK, Ticks, Capped
  <2>2. CallInv' /\ ProgressInv' /\ CompleteUnlessReused' /\ PathsOfThisVm'
    BY <1>1 DEF Tick, CallInv, ProgressInv, CompleteUnlessReused, PathsOfThisVm
  <2> QED
    BY <2>1, <2>2
<1>2. ASSUME NEW a \in Addresses, Publish(a)
      PROVE  RegistrationInv'
  <2> USE <1>2 DEF Publish, NewRootTable
  <2>1. TypeOK'
    BY DEF TypeOK, Ticks
  <2>2. CallInv'
    BY DEF CallInv
  <2>3. ProgressInv' /\ CompleteUnlessReused' /\ PathsOfThisVm'
    BY DEF ProgressInv, CompleteUnlessReused, PathsOfThisVm
  <2> QED
    BY <2>1, <2>2, <2>3
<1>3. CASE Unpublish
    BY <1>3 DEF Unpublish, NewRootTable, TypeOK, CallInv, ProgressInv,
        CompleteUnlessReused, PathsOfThisVm
<1>4. CASE RegisterPath
    BY <1>4 DEF RegisterPath, TypeOK, CallInv, ProgressInv,
        CompleteUnlessReused, PathsOfThisVm
<1> QED
    BY <1>1, <1>2, <1>3, <1>4 DEF Game

\* So do the steps that decide whether the VM is entered.
LEMMA DecisionPreserves ==
    ASSUME RegistrationInv,
           \/ PollNull \/ Poll \/ CheckSentinel \/ Observe \/ Defer \/ Attempt
           \/ ClearRegistrationState
    PROVE  RegistrationInv'
<1> USE AddressesAssumption, TicksAssumption, CountsAssumption
    DEF RegistrationInv, TypeOK, CallInv, ProgressInv, CompleteUnlessReused,
        PathsOfThisVm, gameVars, stateVars, callVars, vmGhosts, failGhosts,
        Return, Forget, Labels, Natives, Closures, Ticks
<1>1. CASE PollNull
  <2> USE <1>1 DEF PollNull, NoFailure
  <2>1. TypeOK'
    <3>1. paths' \subseteq {"current", "earlier"}
      OBVIOUS
    <3>2. failedAt' \in Ticks \cup {-1} /\ failedAgo' \in 0 .. Backoff
      OBVIOUS
    <3>3. nextAttempt' \in Ticks /\ since' \in Ticks
      BY Bounds
    <3> QED
      BY <3>1, <3>2, <3>3
  <2>2. CallInv' /\ ProgressInv'
    OBVIOUS
  <2>3. CompleteUnlessReused' /\ PathsOfThisVm'
    OBVIOUS
  <2> QED
    BY <2>1, <2>2, <2>3
<1>2. CASE Poll
    BY <1>2 DEF Poll
<1>3. CASE CheckSentinel
    BY <1>3 DEF CheckSentinel, SentinelThere
<1>4. CASE Observe
    BY <1>4 DEF Observe, NewPointer, StartTimer, ClearObjectPaths, NoFailure
<1>5. CASE Defer
    BY <1>5 DEF Defer
<1>6. CASE Attempt
  <2>1. nextAttempt' \in Ticks
    BY <1>6 DEF Attempt
  <2> QED
    BY <1>6, <2>1 DEF Attempt
<1>7. CASE ClearRegistrationState
    BY <1>7 DEF ClearRegistrationState, NoFailure
<1> QED
    BY <1>1, <1>2, <1>3, <1>4, <1>5, <1>6, <1>7

\* So do the steps inside the VM.
LEMMA EntryPreserves ==
    ASSUME RegistrationInv,
           RegisterNative \/ FailNative \/ CheckCurrent \/ InstallClosure
               \/ FailClosure
    PROVE  RegistrationInv'
<1> USE AddressesAssumption, TicksAssumption, CountsAssumption
    DEF RegistrationInv, TypeOK, CallInv, ProgressInv, CompleteUnlessReused,
        PathsOfThisVm, gameVars, stateVars, callVars, vmGhosts, failGhosts,
        Return, Labels, Natives, Closures, Ticks
<1>1. CASE RegisterNative
  <2> USE <1>1 DEF RegisterNative, PutNative
  <2>1. natives' \subseteq Natives /\ natives \subseteq natives'
    OBVIOUS
  <2>2. TypeOK' /\ CallInv'
    BY <2>1, Bounds
  <2>3. CompleteUnlessReused' /\ PathsOfThisVm'
    BY <2>1
  <2>4. ProgressInv'
    <3>1. vm = published /\ 1 .. item - 1 \subseteq natives =>
              1 .. item \subseteq natives'
      OBVIOUS
    <3>2. CASE item < NativeCount
      BY <3>1, <3>2
    <3>3. CASE item = NativeCount
      <4>1. 1 .. item' - 1 \subseteq closures'
        BY <3>3
      <4>2. vm = published /\ 1 .. item - 1 \subseteq natives =>
                natives' = Natives
        BY <2>1, <3>1, <3>3
      <4> QED
        BY <3>3, <4>1, <4>2
    <3> QED
      BY <3>2, <3>3
  <2> QED
    BY <2>2, <2>3, <2>4
<1>2. CASE FailNative
    BY <1>2 DEF FailNative
<1>3. CASE CheckCurrent
    BY <1>3 DEF CheckCurrent
<1>4. CASE InstallClosure
  <2> USE <1>4 DEF InstallClosure, NoFailure
  <2>1. closures' \subseteq Closures /\ closures \subseteq closures'
    OBVIOUS
  <2>2. TypeOK' /\ CallInv' /\ PathsOfThisVm'
    BY <2>1, Bounds
  <2>3. vm = published /\ 1 .. item - 1 \subseteq closures =>
            1 .. item \subseteq closures'
    OBVIOUS
  <2>4. CASE item < ClosureCount
    <3>1. ProgressInv'
      BY <2>3, <2>4
    <3>2. CompleteUnlessReused'
      BY <2>1, <2>4
    <3> QED
      BY <2>2, <3>1, <3>2
  <2>5. CASE item = ClosureCount
    <3>1. CompleteUnlessReused'
      BY <2>1, <2>3, <2>5
    <3>2. ProgressInv'
      BY <2>5
    <3> QED
      BY <2>2, <3>1, <3>2
  <2> QED
    BY <2>4, <2>5
<1>5. CASE FailClosure
    BY <1>5 DEF FailClosure
<1> QED
    BY <1>1, <1>2, <1>3, <1>4, <1>5

\* All steps preserve RegistrationInv.
LEMMA RegistrationPreserved ==
    ASSUME RegistrationInv, [Next]_vars
    PROVE  RegistrationInv'
<1>1. CASE UNCHANGED vars
    BY <1>1 DEF vars, gameVars, stateVars, callVars, vmGhosts, failGhosts,
        RegistrationInv, TypeOK, CallInv, ProgressInv, CompleteUnlessReused,
        PathsOfThisVm
<1> QED
    BY <1>1, GamePreserves, DecisionPreserves, EntryPreserves DEF Next, CallStep

\* A new VM starts with nothing, and only the call that has observed it adds to
\* it.
LEMMA GenerationPreserved ==
    ASSUME RegistrationInv, GenerationInv, [Next]_vars
    PROVE  GenerationInv'
<1> USE DEF GenerationInv, gameVars, stateVars, callVars, vmGhosts, failGhosts
<1>1. CASE Game
    BY <1>1 DEF Game, Tick, Publish, Unpublish, NewRootTable, RegisterPath
<1>2. CASE PollNull \/ Poll \/ CheckSentinel \/ ClearRegistrationState
    BY <1>2 DEF PollNull, Poll, CheckSentinel, ClearRegistrationState, Forget,
        Return, NoFailure, SentinelThere
<1>3. CASE Observe \/ Defer \/ Attempt
    BY <1>3 DEF Observe, Defer, Attempt, Return, NewPointer, StartTimer,
        ClearObjectPaths, NoFailure
<1>4. CASE RegisterNative \/ FailNative \/ CheckCurrent
    BY <1>4, AddressesAssumption
    DEF RegisterNative, FailNative, CheckCurrent, Return, RegistrationInv,
        TypeOK, CallInv, PutNative
<1>5. CASE InstallClosure \/ FailClosure
    BY <1>5 DEF InstallClosure, FailClosure, Return, NoFailure
<1>6. CASE UNCHANGED vars
    BY <1>6 DEF vars
<1> QED
    BY <1>1, <1>2, <1>3, <1>4, <1>5, <1>6 DEF Next, CallStep

-----------------------------------------------------------------------------
(* The clock.                                                              *)

\* Remainders of differences less than the modulus.
LEMMA Remainder ==
    ASSUME NEW a \in Ticks, NEW b \in Ticks
    PROVE  /\ (a - b) % W = IF a >= b THEN a - b ELSE a - b + W
           /\ (a - b) % W \in Nat
BY TicksAssumption DEF Ticks

\* Remainders of sums of at most twice the modulus.
LEMMA RemainderOfSum ==
    ASSUME NEW a \in Ticks, NEW n \in Ticks
    PROVE  (a + n) % W = IF a + n < W THEN a + n ELSE a + n - W
BY TicksAssumption DEF Ticks

LEMMA AgePreserved ==
    ASSUME RegistrationInv, AgeInv, [Next]_vars
    PROVE  AgeInv'
<1> USE TicksAssumption
    DEF AgeInv, RegistrationInv, TypeOK, gameVars, stateVars, callVars,
        vmGhosts, failGhosts
<1>1. CASE Tick
  <2>1. 1 \in Ticks
    BY DEF Ticks
  <2>2. now' \in Ticks /\ since \in Ticks /\ now \in Ticks
    BY <1>1 DEF Tick, Ticks
  <2>3. now' = IF now + 1 < W THEN now + 1 ELSE now + 1 - W
    BY <1>1, <2>1, <2>2, RemainderOfSum DEF Tick
  <2>4. /\ (now - since) % W = IF now >= since THEN now - since
                               ELSE now - since + W
        /\ (now' - since) % W = IF now' >= since THEN now' - since
                                ELSE now' - since + W
    BY <2>2, Remainder
  <2>5. (now' - since) % W <= ((now - since) % W) + 1
    BY <2>2, <2>3, <2>4 DEF Ticks
  <2>6. (now' - since) % W \in Nat /\ (now - since) % W \in Nat
    BY <2>2, Remainder
  <2> QED
    BY <1>1, <2>5, <2>6 DEF Tick, Capped
<1>2. CASE Observe
  <2>1. (now - now) % W = 0
    BY Remainder DEF Ticks
  <2> QED
    BY <1>2, <2>1 DEF Observe, Return, NewPointer, StartTimer, ClearObjectPaths,
        NoFailure
<1>3. CASE \E a \in Addresses : Publish(a)
    BY <1>3 DEF Publish, NewRootTable
<1>4. CASE Unpublish \/ RegisterPath \/ Poll \/ CheckSentinel \/ Defer
    BY <1>4
    DEF Unpublish, NewRootTable, RegisterPath, Poll, CheckSentinel, Defer,
        Return, SentinelThere
<1>5. CASE PollNull \/ ClearRegistrationState
    BY <1>5, AddressesAssumption DEF PollNull, ClearRegistrationState, Forget,
        NoFailure
<1>6. CASE \/ Attempt \/ RegisterNative \/ FailNative \/ CheckCurrent
           \/ InstallClosure \/ FailClosure
    BY <1>6
    DEF Attempt, RegisterNative, FailNative, CheckCurrent, InstallClosure,
        FailClosure, Return, PutNative, NoFailure
<1>7. CASE UNCHANGED vars
    BY <1>7 DEF vars
<1> QED
    BY <1>1, <1>2, <1>3, <1>4, <1>5, <1>6, <1>7 DEF Next, Game, CallStep

LEMMA PendingPreserved ==
    ASSUME RegistrationInv, PendingInv, [Next]_vars
    PROVE  PendingInv'
<1> USE TicksAssumption
    DEF PendingInv, RegistrationInv, TypeOK, gameVars, stateVars, callVars,
        vmGhosts, failGhosts
<1>1. CASE Tick
  <2>1. CASE failedAt = -1 \/ failedAgo = Backoff
    BY <1>1, <2>1 DEF Tick, Capped
  <2>2. CASE failedAt # -1 /\ failedAgo < Backoff
    <3>1. failedAt \in Ticks /\ failedAgo \in Ticks /\ 1 \in Ticks
          /\ failedAgo + 1 \in Ticks
      BY <2>2 DEF Ticks
    <3>2. now = (failedAt + failedAgo) % W
      BY <2>2
    <3>3. now = IF failedAt + failedAgo < W THEN failedAt + failedAgo
                ELSE failedAt + failedAgo - W
      BY <3>1, <3>2, RemainderOfSum
    <3>4. (now + 1) % W = IF now + 1 < W THEN now + 1 ELSE now + 1 - W
      BY <3>1, RemainderOfSum
    <3>5. (failedAt + (failedAgo + 1)) % W =
              IF failedAt + (failedAgo + 1) < W THEN failedAt + (failedAgo + 1)
              ELSE failedAt + (failedAgo + 1) - W
      BY <3>1, RemainderOfSum
    <3>6. (now + 1) % W = (failedAt + (failedAgo + 1)) % W
      BY <3>1, <3>3, <3>4, <3>5 DEF Ticks
    <3> QED
      BY <1>1, <2>2, <3>6 DEF Tick, Capped
  <2> QED
    BY <2>1, <2>2
<1>2. CASE Attempt
  <2>1. (now + 0) % W = now
    <3>1. now \in Ticks /\ 0 \in Ticks
      BY Bounds
    <3>2. (now + 0) % W = IF now + 0 < W THEN now + 0 ELSE now + 0 - W
      BY <3>1, RemainderOfSum
    <3> QED
      BY <3>1, <3>2 DEF Ticks
  <2> QED
    BY <1>2, <2>1 DEF Attempt, Ticks
<1>3. CASE \/ Unpublish \/ RegisterPath \/ Poll \/ CheckSentinel \/ Defer
           \/ \E a \in Addresses : Publish(a)
    BY <1>3 DEF Unpublish, Publish, NewRootTable, RegisterPath, Poll,
        CheckSentinel, Defer, Return, SentinelThere
<1>4. CASE PollNull \/ ClearRegistrationState \/ Observe
    BY <1>4 DEF PollNull, ClearRegistrationState, Forget, Observe, Return,
        NewPointer, StartTimer, ClearObjectPaths, NoFailure
<1>5. CASE \/ RegisterNative \/ FailNative \/ CheckCurrent
           \/ InstallClosure \/ FailClosure
    BY <1>5 DEF RegisterNative, FailNative, CheckCurrent, InstallClosure,
        FailClosure, Return, PutNative, NoFailure
<1>6. CASE UNCHANGED vars
    BY <1>6 DEF vars
<1> QED
    BY <1>1, <1>2, <1>3, <1>4, <1>5, <1>6 DEF Next, Game, CallStep

-----------------------------------------------------------------------------
\* The invariant is inductive and so holds in every reachable state.
THEOREM Invariance == Spec => []IInv
<1>1. Init => RegistrationInv
  <2> SUFFICES ASSUME Init PROVE RegistrationInv
    OBVIOUS
  <2> USE AddressesAssumption, TicksAssumption, CountsAssumption DEF Init
  <2>1. TypeOK
    <3>1. now \in Ticks /\ nextAttempt \in Ticks /\ since \in Ticks
      BY Bounds
    <3>2. natives \subseteq Natives /\ closures \subseteq Closures
      OBVIOUS
    <3>3. paths \subseteq {"current", "earlier"}
      OBVIOUS
    <3>4. item \in 1 .. NativeCount + ClosureCount
      BY Bounds
    <3>5. age \in 0 .. Settle /\ failedAgo \in 0 .. Backoff
      OBVIOUS
    <3>6. failedAt \in Ticks \cup {-1}
      OBVIOUS
    <3>7. pc \in Labels /\ reused \in BOOLEAN
      BY DEF Labels
    <3>8. {published, registered, attempted, vm} \subseteq Addresses \cup {Null}
      OBVIOUS
    <3> QED
      BY <3>1, <3>2, <3>3, <3>4, <3>5, <3>6, <3>7, <3>8 DEF TypeOK
  <2>2. CallInv /\ ProgressInv
    BY DEF CallInv, ProgressInv
  <2>3. CompleteUnlessReused /\ PathsOfThisVm
    BY DEF CompleteUnlessReused, PathsOfThisVm
  <2> QED
    BY <2>1, <2>2, <2>3 DEF RegistrationInv
<1>2. Init => GenerationInv /\ AgeInv /\ PendingInv
    BY DEF Init, GenerationInv, AgeInv, PendingInv
<1>3. IInv /\ [Next]_vars => IInv'
    BY RegistrationPreserved, GenerationPreserved, AgePreserved,
        PendingPreserved
    DEF IInv
<1> QED
    BY <1>1, <1>2, <1>3, PTL DEF Spec, IInv

\* A VM that counts as registered has every native and every closure.
THEOREM RegisteredIsComplete == Spec => []CompleteUnlessReused
<1>1. IInv => CompleteUnlessReused
    BY DEF IInv, RegistrationInv
<1> QED
    BY <1>1, Invariance, PTL

\* Object paths do not outlive the VM that registered them once its successor
\* has been seen.
THEOREM PathsEndWithTheirVm == Spec => []PathsOfThisVm
<1>1. IInv => PathsOfThisVm
    BY DEF IInv, RegistrationInv
<1> QED
    BY <1>1, Invariance, PTL

\* A VM is entered only when it has been published for the settling time, for
\* every width of the clock.
THEOREM EntryWaits == Spec => SettledUnlessReused
<1>1. ASSUME IInv, Attempt, vm = published, ~reused
      PROVE  age = Settle
  <2>1. vm # Null /\ attempted = published
    BY <1>1, AddressesAssumption DEF IInv, RegistrationInv, CallInv, Attempt
  <2>2. age = Settle \/ (now - since) % W <= age
    BY <1>1, <2>1 DEF IInv, AgeInv
  <2>3. (now - since) % W >= Settle
    BY <1>1 DEF Attempt, Settled
  <2>4. (now - since) % W \in Nat /\ age \in 0 .. Settle
    BY <1>1, Remainder DEF IInv, RegistrationInv, TypeOK
  <2> QED
    BY <2>2, <2>3, <2>4, TicksAssumption
<1>2. IInv => [Attempt /\ vm = published /\ ~reused => age = Settle]_vars
    BY <1>1
<1> QED
    BY <1>2, Invariance, PTL DEF SettledUnlessReused

\* A failed attempt is not repeated before its time, for every width of the
\* clock.
THEOREM RetryWaits == Spec => BackoffUnlessDueAtZero
<1>1. ASSUME IInv, Attempt, failedAgo # Backoff
      PROVE  failedAt # -1 /\ (failedAt + Backoff) % W = 0
  <2> USE <1>1, TicksAssumption DEF IInv, RegistrationInv, TypeOK
  <2>1. /\ failedAt # -1
        /\ nextAttempt = (failedAt + Backoff) % W
        /\ now = (failedAt + failedAgo) % W
    BY DEF PendingInv
  <2>2. failedAt \in Ticks /\ failedAgo \in Ticks /\ Backoff \in Ticks
        /\ failedAgo < Backoff
    BY <2>1 DEF Ticks
  <2>3. SUFFICES ASSUME nextAttempt # 0 PROVE FALSE
    BY <2>1
  <2>4. (now - nextAttempt) % W < W \div 2
    BY <2>3 DEF Attempt, Due
  <2>5. (now - nextAttempt) % W = failedAgo - Backoff + W
    <3>1. /\ now = IF failedAt + failedAgo < W THEN failedAt + failedAgo
                   ELSE failedAt + failedAgo - W
          /\ nextAttempt = IF failedAt + Backoff < W THEN failedAt + Backoff
                           ELSE failedAt + Backoff - W
      BY <2>1, <2>2, RemainderOfSum
    <3>2. (now - nextAttempt) % W = IF now >= nextAttempt THEN now - nextAttempt
                                    ELSE now - nextAttempt + W
      BY Remainder
    <3> QED
      BY <2>2, <3>1, <3>2 DEF Ticks
  <2>6. W \div 2 <= W - Backoff
    BY <2>2
  <2> QED
    BY <2>2, <2>4, <2>5, <2>6 DEF Ticks
<1>2. IInv => [Attempt => \/ failedAgo = Backoff
                          \/ failedAt # -1 /\ (failedAt + Backoff) % W = 0]_vars
    BY <1>1
<1> QED
    BY <1>2, Invariance, PTL DEF BackoffUnlessDueAtZero

\* Nothing but a stop takes away the paths that the current VM has registered.
THEOREM PathsLastAsLongAsTheirVm == Spec => OwnPathsKept
<1>1. ASSUME IInv, [Next]_vars, "current" \in paths, paths' = {}
      PROVE  ClearRegistrationState \/ attempted = Null
  <2> USE <1>1
      DEF IInv, GenerationInv, gameVars, stateVars, callVars, vmGhosts,
          failGhosts
  <2>1. published # Null
    OBVIOUS
  <2>2. CASE Observe
    <3>1. pc # "idle" /\ vm # attempted
      BY <2>2 DEF Observe, NewPointer, StartTimer, ClearObjectPaths, NoFailure
    <3> QED
      BY <3>1
  <2>3. CASE Game
    BY <2>3 DEF Game, Tick, Publish, Unpublish, NewRootTable, RegisterPath
  <2>4. CASE \/ Poll \/ CheckSentinel \/ Defer \/ Attempt \/ UNCHANGED vars
    BY <2>4 DEF Poll, CheckSentinel, Defer, Attempt, vars, SentinelThere
  <2>5. CASE \/ RegisterNative \/ FailNative \/ CheckCurrent
             \/ InstallClosure \/ FailClosure
    BY <2>5 DEF RegisterNative, FailNative, CheckCurrent, InstallClosure,
        FailClosure, PutNative, NoFailure
  <2> QED
    BY <2>1, <2>2, <2>3, <2>4, <2>5 DEF Next, PollNull, NoFailure, CallStep
<1>2. IInv /\ [Next]_vars =>
          ["current" \in paths /\ paths' = {} =>
               ClearRegistrationState \/ attempted = Null]_vars
    BY <1>1
<1> QED
    BY <1>2, Invariance, PTL DEF Spec, OwnPathsKept
=============================================================================
