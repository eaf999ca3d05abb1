# dofExtension in TLA+

`dofExtension` is a 32-bit Windows DLL that lives inside a game client. It
patches six places in the game's code, registers 32 native functions and 1803
precompiled closures in the game's Squirrel VM, and answers scripts that call
them. Little of it is computation; nearly all of its difficulty is that it is a
guest in someone else's process: threads it does not control load it, start it,
stop it and end it; the VM it registers in can go at any moment; other plugins
patch the same code; several clients share its file; and the value stack it
works on belongs to a VM that another thread runs.

These modules model that part of the code. TLC checks them on small instances,
and TLAPS proves for every value of the constants what a step may never do:
every invariant, action property and refinement that a run checks is also a
theorem. Liveness is left to TLC.

    tlc -config WorkerLifecycle.cfg WorkerLifecycle
    tlapm WorkerLifecycleProofs.tla

`PROJECT.json` has every run with its properties, for every definition the
source lines it models, the hazards that the properties are for, and for each
property one change to a definition that breaks it. Paths below are from the
repository's own `src/` directory (`runtime/dll_entry.cpp` is
`src/src/runtime/dll_entry.cpp`).

## The system

| Part | Source | State | Operations |
| --- | --- | --- | --- |
| runtime lifecycle | `runtime/dll_entry.cpp` | run flag, worker handle, three SRW locks, `g_context_once` | `DllMain`, `RuntimeWorker`, `StartHook`, `StopHook` |
| VM registration | `runtime/dll_entry.cpp`, `core/callback_registry.cpp` | registered and attempted VM, two tick counts | `RegisterCurrentVm` every 50 ms and on `StartHook`, `ClearRegistrationState` |
| closure payload | `runtime/closure_installer.cpp` | none between calls | parse the resource, install what is missing |
| VM adapter | `host/game_squirrel_vm_adapter.cpp` | the VM's stack and root table, which are the game's | `sq_` sequences that register, look up, load and call |
| dispatch natives | `core/callbacks_dispatch.cpp` | none | call a script function by id or name, push an object |
| object hook patches | `host/object_hooks.cpp` | six patch records, `g_hooks_installed` | install, remove |
| object paths | `host/object_hooks.cpp` | a map under an SRW lock, a copy per thread | register, clear, allow, look up |
| expansion configuration | `host/object_hooks.cpp` | ranges and slot offsets from `skill.ini` | load once, refresh each second |
| per-character data | `host/absolute_services.cpp` | a map under a mutex, a file | load once, look up, save all |
| encoded fields | `host/absolute_memory.cpp`, `core/callbacks_data.cpp` | the game's fields and tables | decode, encode, set with the mirror |
| data, UI and network natives | `core/callbacks_data.cpp`, `core/callbacks_ui_network.cpp`, `host/absolute_rendering.cpp` | none | check arguments, forward |
| support | `core/callback_support.cpp`, `host/absolute_host_api.cpp`, `common/offset_path.cpp` | the context pointer | getters, pushes, a table of functions, a parser |

How they interact: `DllMain` creates the worker under the loader lock. The
worker takes the lifecycle lock once to install the patches, then polls
`RegisterCurrentVm`, which clears the paths when the VM changes and enters the
VM through the adapter to register natives and closures. Scripts, on the game's
thread, enter the natives; `cqx_pushObject` writes the path map and has the
game create an object, and the game comes back through the patched sites to
read the map. `StartHook` and `StopHook`, on any thread, do and undo all of
this. The only locks are the lifecycle, worker and registration locks of
`dll_entry.cpp`, the path lock and the mutex of the data store. Nothing
protects the VM, its stack, the game's tables or the file.

What is hard, and the property that would notice (`PROJECT.json` has the full
list, with lines):

- a stop that waits for a worker that wants the stopper's lock; a flag raised
  again before the old worker has seen it down (`LockReleased`,
  `FlagRaisedOnlyWhenDrained`, `SingleWorker`);
- several threads that may each be in `RegisterCurrentVm`, a stop among them
  (`ImplementsRegistration`, `QuietWhenStopped`), and a VM that must be
  registered in the end (`EventuallyRegistered`);
- a VM replaced between any two steps, at the same address or at another
  (`CompleteUnlessReused`, `PathsOfThisVm`), and tick counts that wrap
  (`SettledUnlessReused`, `BackoffUnlessDueAtZero`);
- one of six patches failing, or a restore failing, over many rounds
  (`Restorable`, `CleanWhenOff`, `BranchAfterTargets`);
- two threads on one VM stack (`OneResultUnlessStraddled`), nested calls
  (`OuterStackKept`), loads that fail half way (`WorkerLeavesStack`);
- a string handed to the game after its lock is gone (`ImplementsPathMap`), an
  answer given under one hold of the lock and used under another
  (`AllowedHasPath`), a re-entrant call (`WaiterHoldsNothing`);
- a client that ends inside a save, or saves from an old copy (`CutLosesOnly`,
  `SavedUnlessMishap`);
- unsigned differences at the end of the payload (`ReadsStayInside`);
- tokens that make the parser throw (`ParsedOrThrown`), loops that should mean
  the same place (`WalksAgree`);
- a packet that takes several calls, with the game and two other natives on the
  same writer (`ScriptPacketWhole`, `DungeonPacketsWhole`), addresses that a
  script can make up (`NullNeverHanded`);
- fields that share a key, mirrors found through what was just written
  (`ReadsAsSet`, `MirrorAgrees`).

## The modules

The order is that of the plan: what everything else rests on comes first.

| Module | Models | Proofs |
| --- | --- | --- |
| `HookService` | what the service promises, without threads | |
| `WorkerLifecycle` | threads, flag, handle and locks; implements `HookService` | `WorkerLifecycleProofs` |
| `VmRegistration` | one registration call after the other against the game's VMs | `VmRegistrationProofs` |
| `ObjectPatches` | the six sites and their records | `ObjectHooksProofs` |
| `VmStack` | the VM's stack between a script's natives and the worker | `VmStackProofs` |
| `ClosurePayload` | taking the payload apart, and the VM's reads of it | `StoredDataProofs` |
| `SkillDataStore` | the shared file and the copies of it | `StoredDataProofs` |
| `PathMap` | what the hooks promise the game, without a lock | |
| `ObjectPaths` | the path map, its lock and the game's hooks; implements `PathMap` | `ObjectHooksProofs` |
| `EncodedFields` | encoded fields, shared keys and mirrors | `ObjectDataProofs` |
| `OffsetPath` | parsing paths of offsets, and the loops that follow them | `ObjectDataProofs` |
| `NativeCalls` | the arguments of 29 natives and their calls into the game | `NativeCallsProofs` |
| `Extension` | `WorkerLifecycle` and `VmRegistration` composed; implements both | `ExtensionProofs` |

Each `MC` module gives a module its instance: definitions for the constants
that a `.cfg` cannot write, the symmetry, and for `Extension` the assumptions of
its components; `WorkerLifecycle` needs none of this. Definitions whose
comment calls them mutants are not part of any specification; they are the
changes that each property is known to notice.

The modules meet at operations that one of them describes and another uses.
`WorkerLifecycle` reduces registration to a trace (`clear`, `pending`,
`registered`) and hook installation to a step that may fail; `VmRegistration`
and `ObjectPatches` are those steps. `Extension` puts the first two together
again and shows that nothing is lost by looking at each alone: what all threads
do to the VM is one call of `VmRegistration` after the other, and what
registration does to the threads is what `WorkerLifecycle` takes for its
outcome. The lifecycle lock, which every installation and removal holds, is why
`ObjectPatches` has one operation at a time. `VmRegistration` keeps of the paths
only whether there are any of the current and of an earlier VM; `ObjectPaths`
keeps the map. `VmStack` takes one operation of `VmRegistration` apart into the
Squirrel calls it consists of, and `NativeCalls` has the natives that `VmStack`
leaves out.

### WorkerLifecycle and HookService

`phase` is the DLL's attachment; `running`, `handle`, `lifecycleLock`,
`workerLock`, `registrationLock`, `contextReady`, `hooks` are the globals of
`dll_entry.cpp`; `pc` and `wpc` say where each caller and each worker thread
is. A step is the code between two points where another thread can act:
acquiring a lock, waiting, reading or writing the flag. `TryAcquire` is a step
that fails when the lock is held. Hook installation, `CreateThread` and
`ResumeThread` may fail. `DllMain` may detach at any moment, which lowers the
flag and takes no lock.

`HookService` is the same service as its users see it: `unloaded`, `auto`,
`on`, `off`, `changing`, `detached`, and the answer of each call. The
refinement mapping (`Service`) reads the state off the flag, the hooks, the
threads and the registration. What it says: a service that is on goes down only
in a `StopHook`, one that is off comes up only in a `StartHook`, and every
answer is true of the state it is given in.

### VmRegistration

`published` is the game's VM global, `natives` and `closures` what the root
table of that VM has; `registered`, `attempted`, `nextAttempt` and `since` are
the globals of `dll_entry.cpp`. The game publishes, unpublishes and replaces
VMs between any two steps, also at an address that was used before. Since
`g_registration_lock` is only ever tried, one program counter is enough for all
calls. A call through a pointer that is not published may answer anything. The
tick count is a number modulo `W` and the differences are taken in the code's
way, unsigned for settling and signed for the retry. `age`, `reused`,
`failedAt` and `failedAgo` are history: they remember what the properties
speak of, and no guard reads them.

### Extension

The variables of both components, except that `registration` of
`WorkerLifecycle` is computed (`Trace`) and the locals of `RegisterCurrentVm`
exist once per thread (`call`). A thread outside of it takes the steps of
`WorkerLifecycle`, a thread inside those of `VmRegistration` under an instance
of its own (`R(t)`); leaving it releases the lock (`Release`) and lets the
thread go on. `ClearRegistrationState` is one step of both components.
`ImplementsRegistration` is the specification of `VmRegistration` with the
locals of the lock's owner, `ImplementsLifecycle` that of `WorkerLifecycle`.
The detachment of the DLL and the paths that scripts register are left to the
components.

`Paced` ties time to the worker: it polls every 50 ms, so that a clock whose
range is small must not go round between two of its polls; in the code the range
is 49 days. While a thread is inside the VM any number of ticks may pass.

### ObjectPatches

`bytes`, `saved` and `original` are the six sites and their records, `at` the
site an operation is at. Each write is a step because the game executes the
sites all the time. `VirtualQuery` and `VirtualProtect` fail at will; a restore
that failed puts its site into `stuck`, which is history. The other plugin
writes the sites in `ForeignSites` at any time; `late` remembers which of them
it took after the checks.

### VmStack

One stack, as in the reference VM that the tests of the repository use: an
index counts from the base of the innermost activation or from the top, and the
base belongs to the VM. Each `sq_` call is one step. The three dispatch natives
are one sequence of labels with a different first argument; the worker's
operations are a lookup, a registration with and without force, and the
installation of a closure. Arguments are values that are told apart; a read
outside the stack yields anything. `clean` is history: whether a step of the
game's thread has fallen inside an operation of the worker, which the code does
nothing to prevent. The properties hold for activations that are clean
(`OneResultUnlessStraddled` states the condition). Two threads inside one `sq_`
call are below this grain.

### ClosurePayload

The payload's size is chosen at the start and its contents as they are read:
every word is read once before the verdict, so this is any payload. Sizes are
unsigned and differences wrap (`Sub`). `read` is the furthest byte that may have
been read, by the parser or by the VM through `ReadSerializedClosure`, which it
calls with sizes of its own. `claimed` adds up, without wrapping, what the
headers say; `sound` is whether headers and names kept to the format.

### SkillDataStore

A client is the process of one game: its copy of the file, whether it has
loaded it, and how far a save in progress has come. The mutex makes a call one
operation inside a client, so it is split only where another client can look: a
save truncates, then writes line by line, and a client can end in between. A
read sees one state of the file: the file is smaller than the one buffer it is
read with. A character's lines go under a key made from the bytes of its name, each as
`\x` and its two halves in decimal; the model keeps the bytes, because two names
with one key would share their numbers. Lines have equal lengths and are written
whole; a line cut short has no closing bracket and the parser drops it. `mishaps` names what has gone
wrong so far: a save cut short, a file that did not open for reading or for
writing, a save from a copy that another client had overtaken.

### ObjectPaths and PathMap

A critical section is two steps, entering the lock and the access with which it
leaves; a lookup while a writer is inside would find `Torn`. A registration
goes on, after the lock is left, as the creation of its object by the game,
which asks whether the index is allowed and then for its path, under two
separate holds of the lock. `cleared` is history: the threads whose call has
seen all paths cleared.

`PathMap` is the same without a lock: a map that is changed and read at one
instant, and for each thread how far it is with its object and the path it was
given. The refinement mapping places the instant at the access inside the lock
and takes the given path from the thread's own copy, so that another thread's
registration or clear cannot change a string the game is reading.

### EncodedFields

A half word is the set of its bits, so that exclusive or is symmetric
difference, and the arithmetic of the check word is set arithmetic on its low
half. `key` is a function from fields to cells that need not be injective.
Writing takes any salt. `value` remembers what a field was last set to, or
`Lost` once a field with the same key has been written.

### OffsetPath

A text is a sequence of items: a numeral, a blank, a plus, or anything else.
`ParseToken` is one turn of the loop of `ParseOffsetPath`, `Throw` a turn that
ends in an exception. The walks are the loops of `ResolveEncodedPath`,
`ResolvePointerPath`, `AbsoluteResolvePath`, `Walk` and `cqx_getObjectInfo2nd`;
one behaviour sends all of them along the same path, so that their results can
be compared. `mem` is what the memory has been found to hold so far.

### NativeCalls

A native reads its arguments one slot after the other (`ReadArgument`), refuses
the call at the first that does not convert (`Refuse`, or `DefaultArgument`
where the code has a default), and then calls into the game step by step
(`CallGame`). `Get` says which values a getter makes of a slot of each kind. The
VM does not count the arguments: a slot beyond them may hold anything, and
`misread` remembers that one was read. `writer` is the game's one packet
writer, which the game uses too when no native runs. `script` is history: the
packet that the answers have told the script it has, as a set with one member,
or none once it cannot know. Calls that only draw or read are one opaque step
(`Use`). Numbers have the widths of the code with a smaller base `Byte`, so that
truncation and the sign in the upper half of a field are the code's.

## Runs

The longest, `extension`, takes a little over two minutes with two TLC workers.

| Run | Instance | What it shows |
| --- | --- | --- |
| `lifecycle` | 3 callers, 2 worker identities | no worker is lost, a stop is complete; the refinement of `HookService`; the lock comes back, a half-done start or stop ends |
| `vm_registration` | 2 addresses, 2 natives, 2 closures, ticks modulo 7 | a registered VM is complete, settles, is retried in time, sees only its own paths |
| `vm_reuse` | the same | a comment that the code does not keep |
| `extension` | 1 caller, 1 worker, 1 address, 1 native, 1 closure, ticks modulo 4 | both components are implemented; a stop leaves nobody with a VM; a VM that stays is registered |
| `object_patches` | all six sites, three of them shared | patches are restorable, ordered, all or nothing |
| `vm_stack` | two natives deep, none to 3 arguments, one straddling step | arguments, results, what runs inside leaves the outside alone, the worker's answers |
| `closure_payload` | up to 30 bytes, 2 records, sizes modulo 32 | reads stay inside, records tile, rejections have a cause |
| `skill_data_store` | 2 clients, 2 characters, 2 values | what a save keeps and what a mishap can lose |
| `object_paths` | 3 threads, a fixed and a free index, 2 strings | a map changed and read at one instant; nobody waits for itself |
| `encoded_fields` | 2 entries, 3 keys, half words of 2 bits | reads as set, the check fits, the mirror agrees |
| `offset_path` | texts of up to 5 items, 5 addresses | what parses and to what; five loops that come to one place |
| `native_calls` | 29 natives, 5 numbers, packets of up to 2 fields | packets are whole, no null address gets through |

Why the bounds are enough. Workers: a third worker could only exist beside two
that live, which `SingleWorker` excludes, and identities are used again once a
worker has ended. Callers: one can hold the lifecycle lock, one wait for it and
one come after; symmetry is not used, because liveness does not admit it.
Ticks modulo 7 with a settling time of 2 and a retry of 3 are the smallest that
keep the code's proportion (both less than half the range) and wrap several
times in a behaviour. Two natives and two closures have a first, a last and a
between. `VmStack` bounds the depth of calls (`MaxDepth`), the arguments
(`MaxExtra`, beyond the first) and the straddling steps
(`MaxStraddles`): its properties speak of one activation and its caller. The
payload instance has room for two whole records and for every way to miss the
end by a byte. Three threads suffice for one to register and one to clear
between another's two lookups. In `Extension` one caller stops and starts
again while the worker lives, which is every overlap of two threads in
`RegisterCurrentVm`; more callers are the business of `lifecycle`. One address
makes every VM a reuse of the one before, the hardest case. Ticks modulo 4 are
the fewest with a settling time and a retry of 1 in which the signed difference
has a positive and a negative side. A packet of two fields has a first and a
last; the numbers are both signs and values that fit and do not fit each width.
The two names of `skill_data_store` are chosen so that their keys end alike.
Three keys for four fields give every pattern
of sharing but the one without any. Half words of two bits have a carry into
nothing and every pair of halves. Five items are three numerals and the pluses
between them, or one with everything around it; five addresses are the fewest
in which an address can wrap to a place that is not null, at either end.

`CHECK_DEADLOCK FALSE` is said where the system may stop: the payload once it
has its verdict, a path once it has been followed, and `VmStack` when its bounds on depth and straddling are
used up.

### Fairness

`lifecycle` needs `WF` for each caller and each worker. The code justifies it
because every step outside a lock is code that runs, and inside one it is a
Windows call or a call into the VM that is assumed to return. No fairness of the
locks is assumed (a waiting caller may be overtaken for ever; what is shown is
that the lock is released), nor that anybody calls, loads or detaches. A
worker's `TryAcquire` that keeps failing is a worker that keeps stepping.

`extension` adds to this that time passes (`WF` of `Tick`), and `SF` of putting
each native and each closure into the VM: a call into the VM may fail, and fail
often, but one that is repeated for ever is assumed to succeed at some time.
Without it a VM that always refuses is never registered, which is no fault of the
code. What it shows is conditional: the service stays on, the game keeps its VM,
and a worker has got as far as its polling loop. The last is not automatic. A
worker that has just been created must find the lifecycle lock free once, and
callers of `StartHook` without a pause can take it each time.

### What does not hold

The violation run checks one sentence of a comment. `ReusedVmIsRegistered`: a VM
that replaces another at the same address while it is registered keeps the
sentinel but too few natives, for good. `CompleteUnlessReused` states the exact
condition under which it does hold.

Some more hold only in part, and the condition is in the property that
passes. A VM that replaces another at the same address between two polls is
entered before it has been published for 500 ms (`runtime/dll_entry.cpp:76`;
`SettledUnlessReused` excepts it). A pointer that was read is used for all the
natives although the game may have unpublished it since (the same comment; the
step is `RegisterNative` of `VmRegistration`). A site that another plugin takes
after the checks is overwritten (`host/object_hooks.cpp:273`;
`ForeignAtCheckKept` excepts it).
Exactly one result above the callback's stack
(`host/game_squirrel_vm_adapter.cpp:273`) is left only if the worker's operation does not straddle a step of the game
(`OneResultUnlessStraddled`). The width of a packet field
and the last argument of `cqx_startDungeon` are optional, but one that is omitted
takes the default only if the slot beyond the arguments holds no number
(`ScriptPacketWhole` excepts it).

## Proofs

Every theorem is proved from the named assumptions on the constants and nothing
else, except those about `SkillDataStore`, which have the hypothesis named
there. Each proofs module follows one line: an inductive invariant (`IInv`, or
the parts named below), a lemma per group of actions that it is preserved, and
the properties as consequences.

- `WorkerLifecycleProofs` (any callers and workers). `LockInv` ties each lock
  to the labels of its owner, `FlagInv` the flag to a live handle, `WorkerInv`
  and `CallerInv` what a thread may rely on at each label. None of the safety
  properties is inductive by itself: that no worker is lost needs that a raised
  flag means a live handle, and that needs who can be at which label. On top:
  `SingleWorker`, `StopIsComplete`, `StartIsEffective`, `ClearNeverBlocks`,
  `RegistrationOwned` with `RegistrationNeedsHooks`,
  `FlagRaisedOnlyWhenDrained`, and the refinement of `HookService`, one step
  per action.
- `VmRegistrationProofs` (any addresses, tick width, numbers of natives and
  closures). `ProgressInv` is what a call has put into the VM so far,
  `GenerationInv` that a VM with natives or paths is the attempted one,
  `AgeInv` and `PendingInv` relate the modular differences to the history of
  the clock; the wrap is in lemmas about `%`. On top: `CompleteUnlessReused`,
  `PathsOfThisVm`, `SettledUnlessReused`, `BackoffUnlessDueAtZero`,
  `OwnPathsKept`.
- `ObjectHooksProofs`, the two halves of `host/object_hooks.cpp`.
  For `ObjectPatches` (any shared sites) `WrittenInv` and `RestoredInv` say
  what the sites before and after the one in progress hold. On top:
  `Restorable`, `BranchAfterTargets`, `InstalledIsComplete`, `CleanWhenOff`,
  `ForeignAtCheckKept`. For `ObjectPaths` (any threads, indices, strings) one
  part ties the lock to the labels, `PathInv` carries an allowed index to its
  path or a clear, `CopyInv` the copy to what was found. On top:
  `AllowedHasPath`, `WaiterHoldsNothing`, and the refinement of `PathMap`
  (`ImplementsPathMap`), one step per action.
- `VmStackProofs` (any names and arguments, any depth of calls, any number of
  straddling steps). None of the properties is inductive: that a native leaves one
  result needs to know where every value on the stack is in the middle of it.
  `Shape` says how activations nest; `Sound`, of every clean native, that what
  was there below it still is (`Over`), what it has put on top at its label
  (`Running`), or, while it waits for a callee, that the callee's base is where
  its own values begin (`Called`); `WorkerInv` says the same of the worker's
  operation and that one which is no longer clean has taken the natives with it.
  All of them speak of `Settled`, the stack without what an operation of the
  worker has on top of it at the moment. The lemmas are about pushing, removing
  and replacing on a stack that lies over another. On top:
  `OneResultUnlessStraddled`, `ArgumentsForwarded`, `OuterStackKept`,
  `WorkerLeavesStack`, `AnswerHolds`.
- `StoredDataProofs`, what is read back from files.
  For `ClosurePayload` (any word, limits, count and names) `ParsingInv`: the
  offset is where the records so far end, the headers account for it, and
  nothing further has been read; `StreamsInside`: all streams lie before the
  end, without which the VM's reads are not bounded; `CursorInv`. On top:
  `ReadsStayInside`, `RecordsTile`, `RejectedForCause`.
  For `SkillDataStore` (any clients, values and names) the invariant is in terms
  of `Believed`, the table that scripts were told is saved. Before the first
  mishap there are two cases. Nobody writes, and the file holds exactly the lines of
  `Believed`, as does every copy that is fresh (`QuietInv`); or one client
  writes, its copy is `Believed` with one entry changed, the file holds the first
  lines of that copy, and no other copy is fresh (`SavingInv`). `SavedUnlessMishap`
  alone is not inductive because it says nothing of the copies. Under it lie lemmas that
  reading what was written gives the table again (`ParseLines`), that reading
  a beginning of it gives each entry or none (`ParseWritten`), and that the
  order of the keys is strict and total, so that a map has one sequence of
  lines (`BeforeIsOrder`, `InOrderFacts`). The theorems have one
  hypothesis, `KeysDiffer`: no two characters have one key. It is needed.
  The bytes 1A and B0 alone have the same key, because the halves of a byte are
  written in decimal without a separator. Names in UTF-8 differ in their
  keys, since one of two such bytes always begins a character and the other always
  continues one; that is an argument about the encoding and not a theorem. It holds of the
  names of the run, which end in just these bytes.
  On top: `SavedUnlessMishap`, `CutLosesOnly`.
- `ObjectDataProofs`, what natives read and write of the game's objects.
  For `EncodedFields` (any word width, fields, keys and table) the invariant
  relates every field's cell and payload to its value; the algebra of symmetric
  difference is in lemmas. On top: `ReadsAsSet`, `CheckFits` and `MirrorAgrees`;
  the last needs that no write sets the index through which a mirror is found
  (`MirrorInv`).
  For `OffsetPath` (any items, any length of the path, any memory and size of
  the address space) `ParseInv` says that what is left of the text begins at the start
  of a token, and that the numbers so far are those of the tokens before it.
  `WalkInv` says that there is a trail of addresses, from the object along
  the offsets through the memory seen so far, that the walk in progress is at
  its place on the trail, and that each result so far is what its loop makes of
  the trail. The first walk extends the trail and the memory, and later walks find
  the memory they need. On top: `ParsedOrThrown`, `WalksAgree`.
- `ExtensionProofs` (any threads, addresses and counts). `OwnerInv` and
  `LocalInv`: `RegisterCurrentVm` belongs to the owner of the registration lock.
  On top: the composition implements `VmRegistration` and `WorkerLifecycle`, one
  step per kind of step, and `QuietWhenStopped`, for which the invariant that
  `WorkerLifecycleProofs` proves is taken over through the refinement. All
  theorems of the two components thereby hold of the composition, under the
  assumptions of the components.
- `NativeCallsProofs` (any width of a byte, any numbers, packets of any length).
  `ReadInv`: a packet native has read as many numbers as it has arguments;
  `ScriptInv`: what the writer holds before and after the native's call into the
  game; `StartInv`: how much of a dungeon packet is in the writer when so many
  calls are left. The sign of the widest field is in lemmas about quotients and
  remainders. On top: `NullNeverHanded`, `ScriptPacketWhole` and
  `DungeonPacketsWhole`.

Where a definition computes over a sequence of any length (the rows of
`FlattenSeq`, the numbers of a path), the proof does not use induction schemes,
which take an operator as a parameter. It takes the least place at
which the claim fails, which exists because finite subsets of the numbers are
well founded (`Smallest`, `FirstFacts`).

Only model-checked: liveness (`LockReleased`, `Settles`,
`EventuallyRegistered`), which the prover does not reach.

## What is not modelled

- What the data natives read of the game's memory and how `cqx_readValue`
  formats it, and what the drawing calls draw: they keep no state here.
- The thunks in machine code, and a processor that runs a site while it is
  written.
- Two threads inside one `sq_` call or in the game's heap.
- The arithmetic of the salt: which salt is taken does not matter to any
  property. The counter behind it indexes a table whose size is the game's.
- The expansion configuration, except whether there are ranges: nothing in the
  repository calls `SkillSlotOffsetX` or `SkillSlotOffsetY`.
- What becomes of an exception of the parser: it passes the frames of the VM,
  and `offset_path` shows only when there is one.
- Vendored Squirrel, generated tables, build scripts and tests.

## Plan

Done: the modules above, and the proofs of all their safety properties. What is
left, in this order:

1. An abstract specification of `SkillDataStore` (a durable map up to mishaps),
   implemented by it.
2. `ObjectPaths` inside `Extension`: the paths that a script registers between
   the steps of a worker.
