--------------------------- MODULE ObjectPatches ---------------------------
(***************************************************************************)
(* The code sites that src/src/host/object_hooks.cpp patches in the game:  *)
(* InstallObjectHooks and RemoveObjectHooks with WritePatch and            *)
(* RestorePatch under them, any of whose Windows calls may fail, and       *)
(* another plugin that patches the same sites.                             *)
(*                                                                         *)
(* The lifecycle lock lets one operation run at a time, but the game       *)
(* executes the sites and the other plugin writes them at any moment, so   *)
(* each write is a step.  The checks before the first write are one step:  *)
(* a site that changes between two checks might as well change after them. *)
(***************************************************************************)
EXTENDS Integers

CONSTANT ForeignSites     \* the sites that the other plugin may patch

\* Numbered in the order in which InstallObjectHooks writes them;
\* RemoveObjectHooks restores them from the last to the first.
Capture     == 1
AllowedCall == 2           \* the call that decides whether an index is allowed
Path        == 3           \* the end of the function that finds its path
Branch      == 4           \* the branch that rejects what the game has no path for
Range       == 5           \* only patched when object ranges are configured
Additional  == 6
Sites       == 1 .. 6

ASSUME ForeignAssumption == ForeignSites \subseteq Sites

VARIABLES
    bytes,        \* what is at each site: "game", "ours" or "foreign"
    saved,        \* PatchRecord.saved of each site
    original,     \* PatchRecord.original of each site
    installed,    \* g_hooks_installed
    ranges,       \* g_expand_enabled and some g_configured_ranges
    op,           \* who runs: "start", "worker" or "stop", or "none"
    phase,           \* "idle", "install", "write" or "restore"
    at,           \* the site to write or restore next
    \* What the properties remember; no guard reads it.
    stuck,        \* the sites whose last restore failed, not written since
    late          \* the sites the other plugin wrote after the checks

records == <<saved, original>>
ghosts  == <<stuck, late>>
patchVars    == <<bytes, records, installed, ranges, op, phase, at, ghosts>>

Wanted == IF ranges THEN Sites ELSE Sites \ {Range}

\* LoadExpansionConfig reads skill.ini in the first call and never again, so what
\* it will find is fixed at the start: whether ranges are enabled and one is valid.
PatchInit ==
    /\ bytes = [s \in Sites |-> "game"]
    /\ saved = [s \in Sites |-> FALSE]
    /\ original = [s \in Sites |-> "game"]
    /\ installed = FALSE
    /\ ranges \in BOOLEAN
    /\ op = "none"
    /\ phase = "idle"
    /\ at = 0
    /\ stuck = {}
    /\ late = {}

-----------------------------------------------------------------------------
(* The callers: StartRuntime, the worker and StopHook.                     *)

CallInstall(who) ==
    /\ phase = "idle"
    /\ op' = who
    /\ phase' = "install"
    /\ UNCHANGED <<bytes, records, installed, ranges, at, ghosts>>

CallRemove ==
    /\ phase = "idle"
    /\ op' = "stop"
    /\ phase' = "restore"
    /\ at' = Additional
    /\ UNCHANGED <<bytes, records, installed, ranges, ghosts>>

Return == phase' = "idle" /\ op' = "none" /\ at' = 0

\* RemoveObjectHooks follows: inside InstallObjectHooks because a write failed,
\* or in StartRuntime because the installation did.
GoRemove == phase' = "restore" /\ at' = Additional /\ UNCHANGED op

-----------------------------------------------------------------------------
(* InstallObjectHooks.                                                     *)

AlreadyInstalled ==
    /\ phase = "install"
    /\ installed
    /\ Return
    /\ UNCHANGED <<bytes, records, installed, ranges, ghosts>>

\* Mutant: any bytes are good enough to be patched.
AnyBytes == TRUE

GameBytes == \A s \in Wanted : bytes[s] = "game"

\* Every wanted site has the bytes of this build of the game.
CheckPasses ==
    /\ phase = "install"
    /\ ~installed
    /\ GameBytes
    /\ phase' = "write"
    /\ at' = Capture
    /\ late' = {}
    /\ UNCHANGED <<bytes, records, installed, ranges, op, stuck>>

\* A site has other bytes, is not committed, or is out of reach of a relative
\* jump: nothing is written.  StartRuntime then removes, the worker does not.
CheckFails ==
    /\ phase = "install"
    /\ ~installed
    /\ IF op = "start" THEN GoRemove ELSE Return
    /\ UNCHANGED <<bytes, records, installed, ranges, ghosts>>

\* The bytes that the first write finds are kept until they are restored.
Save(s) ==
    /\ saved' = [saved EXCEPT ![s] = TRUE]
    /\ original' = [original EXCEPT ![s] = IF saved[s] THEN @ ELSE bytes[s]]

NextSite == IF at + 1 = Range /\ ~ranges THEN Additional ELSE at + 1

WritePatch ==
    /\ phase = "write"
    /\ at \in Sites
    /\ Save(at)
    /\ bytes' = [bytes EXCEPT ![at] = "ours"]
    /\ stuck' = stuck \ {at}
    /\ at' = NextSite
    /\ UNCHANGED <<installed, ranges, op, phase, late>>

\* Mutants: a write that fails is passed over; the caller is told at once, and
\* the sites before are left patched.
PassOver == at' = NextSite /\ UNCHANGED <<op, phase>>
LeaveDirty == Return

Abandon == GoRemove

\* The page is not committed; or the bytes are saved, but it cannot be made
\* writable.
WritePatchFails ==
    /\ phase = "write"
    /\ at \in Sites
    /\ Save(at) \/ UNCHANGED records
    /\ Abandon
    /\ UNCHANGED <<bytes, installed, ranges, ghosts>>

AllWritten ==
    /\ phase = "write"
    /\ at \notin Sites
    /\ installed' = TRUE
    /\ Return
    /\ UNCHANGED <<bytes, records, ranges, ghosts>>

-----------------------------------------------------------------------------
(* RemoveObjectHooks.                                                      *)

RestorePatch ==
    /\ phase = "restore"
    /\ at \in Sites
    /\ saved[at]
    /\ bytes' = [bytes EXCEPT ![at] = original[at]]
    /\ saved' = [saved EXCEPT ![at] = FALSE]
    /\ stuck' = stuck \ {at}
    /\ at' = at - 1
    /\ UNCHANGED <<original, installed, ranges, op, phase, late>>

\* Mutant: a restore that fails drops its record.
DropRecord == saved' = [saved EXCEPT ![at] = FALSE]

KeepRecord == UNCHANGED saved

\* The page is not committed or cannot be made writable: the record is kept.
RestorePatchFails ==
    /\ phase = "restore"
    /\ at \in Sites
    /\ saved[at]
    /\ KeepRecord
    /\ stuck' = stuck \cup {at}
    /\ at' = at - 1
    /\ UNCHANGED <<bytes, original, installed, ranges, op, phase, late>>

NothingToRestore ==
    /\ phase = "restore"
    /\ at \in Sites
    /\ ~saved[at]
    /\ at' = at - 1
    /\ UNCHANGED <<bytes, records, installed, ranges, op, phase, ghosts>>

AllRestored ==
    /\ phase = "restore"
    /\ at \notin Sites
    /\ installed' = FALSE
    /\ Return
    /\ UNCHANGED <<bytes, records, ranges, ghosts>>

-----------------------------------------------------------------------------
\* The other plugin writes its own jump over whatever it finds.
ForeignPatch(s) ==
    /\ bytes' = [bytes EXCEPT ![s] = "foreign"]
    /\ late' = late \cup {s}
    /\ UNCHANGED <<records, installed, ranges, op, phase, at, stuck>>

PatchNext ==
    \/ \E who \in {"start", "worker"} : CallInstall(who)
    \/ CallRemove
    \/ AlreadyInstalled
    \/ CheckPasses
    \/ CheckFails
    \/ WritePatch
    \/ WritePatchFails
    \/ AllWritten
    \/ RestorePatch
    \/ RestorePatchFails
    \/ NothingToRestore
    \/ AllRestored
    \/ \E s \in ForeignSites : ForeignPatch(s)

PatchSpec == PatchInit /\ [][PatchNext]_patchVars

-----------------------------------------------------------------------------
(* Properties.                                                             *)

PatchTypeOK ==
    /\ bytes \in [Sites -> {"game", "ours", "foreign"}]
    /\ saved \in [Sites -> BOOLEAN]
    /\ original \in [Sites -> {"game", "ours", "foreign"}]
    /\ installed \in BOOLEAN
    /\ ranges \in BOOLEAN
    /\ op \in {"none", "start", "worker", "stop"}
    /\ phase \in {"idle", "install", "write", "restore"}
    /\ at \in 0 .. 7
    /\ stuck \subseteq Sites
    /\ late \subseteq Sites

\* Every patch of ours can be taken back: it has a record, and the record never
\* holds our own bytes, whatever failed in the rounds of installing and removing
\* before.
Restorable ==
    \A s \in Sites :
        /\ bytes[s] = "ours" => saved[s]
        /\ saved[s] => original[s] # "ours"

\* In every state the game can execute, the branch that protects it from indices
\* without a path is only gone while the two functions that take its place are
\* there; the exception is a branch that could not be restored.
BranchAfterTargets ==
    bytes[Branch] = "ours" /\ Branch \notin stuck =>
        bytes[AllowedCall] # "game" /\ bytes[Path] # "game"

\* Hooks that count as installed have all been written.
InstalledIsComplete ==
    installed /\ phase # "restore" => \A s \in Wanted : bytes[s] # "game"

\* Between operations, when the hooks do not count as installed, no patch of ours
\* is left but those that could not be restored: also after an installation that
\* failed half way.
CleanWhenOff ==
    phase = "idle" /\ ~installed => \A s \in Sites \ stuck : bytes[s] # "ours"

\* A site that another plugin owned when the installation began is not written.
ForeignAtCheckKept == [][WritePatch /\ bytes[at] = "foreign" => at \in late]_patchVars

-----------------------------------------------------------------------------
(* The inductive invariant that the properties above follow from.          *)

\* Where the operation is.
OperationInv ==
    /\ phase \in {"idle", "install"} => at = 0
    /\ phase = "write" => at \in Wanted \cup {7} /\ ~installed
    /\ phase = "restore" => at \in 0 .. 6

\* What a restoration has passed is free of our patches, and so is everything
\* once it has ended.
RestoredInv ==
    /\ phase = "restore" => \A s \in (at + 1 .. 6) \ stuck : bytes[s] # "ours"
    /\ phase \in {"idle", "install"} /\ ~installed =>
           \A s \in Sites \ stuck : bytes[s] # "ours"

\* What an installation has passed is patched, and what it still has to write is
\* as the checks found it, but for the other plugin.
WrittenInv ==
    phase = "write" => \A s \in Wanted : IF s < at THEN bytes[s] # "game"
                                      ELSE \/ bytes[s] = "game"
                                           \/ bytes[s] = "foreign" /\ s \in late

PatchInv ==
    /\ PatchTypeOK
    /\ OperationInv
    /\ Restorable
    /\ RestoredInv
    /\ WrittenInv
    /\ BranchAfterTargets
    /\ InstalledIsComplete
=============================================================================
