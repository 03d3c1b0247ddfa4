# TLA+ models of the X11 shared-clipboard backend and the page-sharing service

This directory models two parts of the repository. It contains TLC
model-checking runs and TLAPS proofs of both.

- The X11 backend of the VirtualBox shared clipboard,
  `src/src/VBox/GuestHost/SharedClipboard/x11-clipboard.cpp`.
- The page-sharing (page fusion) service of VBoxService,
  `src/src/VBox/Additions/common/VBoxService/VBoxServicePageSharing.cpp`
  (see [the second part](#the-page-sharing-service) below).

The two share no state.

## The system

The backend sits between two parties:

- **the host side.** The VBox service calls `ClipAnnounceFormatToX11`,
  `ClipRequestDataFromX11` and `ClipStopX11`. The backend calls it back
  through `ClipReportX11Formats`, `ClipCompleteDataRequestFromX11` and
  `ClipRequestDataForX11`.
- **X11 peers.** Other clients own the CLIPBOARD selection, ask us to convert
  it, or answer our conversions.

All X work happens on one thread, `clipEventThread`, which runs Xt's
`XtAppProcessEvent`. The host's calls never touch X directly. They queue a work
item with `clipQueueToEventThread`, which is a zero-delay Xt timer plus a byte
written to a wakeup pipe. Each pass of the loop does three things, in order:

1. It peeks at the head X event, for XFixes selection-owner notifications
   (`clipPeekEventAndDoXFixesHandling`).
2. It blocks until something is ready.
3. It dispatches with Xt's priority: due timers first, then the pipe, then
   one X event.

The requester side reads the X11 clipboard for the host. `clipQueryX11CBFormats`
converts TARGETS, `clipConvertX11Targets` picks the best text format, and
`vboxClipboardReadX11Worker` converts the data, which `clipConvertX11CB`
completes. Only one conversion may be in flight at a time. The `fBusy` and
`fUpdateNeeded` flags enforce this: a TARGETS query that arrives while busy is
deferred and re-run when the busy transfer ends.

The owner side offers the host's data to X11. `clipNewVBoxFormatsWorker`
invalidates the Unicode cache, and `clipGrabX11CB` takes CLIPBOARD through
`XtOwnSelection`. `clipXtConvertSelectionProc` answers peer requests from the
cache, or through `ClipRequestDataForX11`. Xt performs a conversion requested
by our own requester locally whenever Xt believes we own the selection.

## Modules

| Module | Models |
|---|---|
| `ClipFormats` | The format table `g_aFormats` and its lookups. It also gives the two loops, `clipGetTextFormatFromTargets` and `clipCreateX11Targets`, in closed form, without recursion, so that the proofs can use them. |
| `ClipFormatsLoop` | The same two loops translated literally, with `RECURSIVE`. TLC checks them against the closed forms for every target list of up to 3 atoms and every format mask. |
| `X11Clipboard` | The core model: the event thread, the requester, the owner, the host calls and the X server plus a peer. |
| `MC_X11Clipboard` | Small constant sets for the runs. |
| `X11ClipboardProofs` | TLAPS proofs about `X11Clipboard`. |
| `ClipRequestContract` | The abstract contract between the backend and the frontend for read requests. The core model instantiates it as `Contract`. |
| `X11ClipboardContract` | The TLAPS proof that the core model implements `ClipRequestContract`. |
| `X11ClipboardAccounting` | The TLAPS proof that every host read request is accounted for exactly once. |

### State of `X11Clipboard`

- `loop` is where the event loop is.
- `xq` is the X event queue. It holds XFixes notifications, SelectionClear,
  SelectionRequest and our conversions' replies, in server order.
- `timers` and `pipe` are the queued work items and the unread wakeup bytes.
- `busy`, `updateNeeded`, `x11Fmt` (`X11TextFormat`) and `reported` are the
  requester's state.
- `vboxFormats`, `xtOwn` (Xt's belief that we own the selection) and
  `selOwner` (the server's owner) are the owner's state. `cache` is
  `pvUnicodeCache`, tagged with the announcement version that filled it.
- `atPeer` is the conversions routed to the peer and not yet answered.
- `requested`, `compl` and `result` record what the host asked for and how
  each request was completed.
- `peerOps`, `peerReqs` and `anns` count bounded events.

### Actions

Each action models a whole handler, with its guards, early returns and the
calls it makes.

- The host's entry points each queue a work item: `ClipAnnounceFormatToX11`
  (including its out-of-memory path), `ClipRequestDataFromX11`, `ClipStopX11`
  and `clipUninit`.
- `RunTimer` runs the item at the head of `timers`. That is one of the
  following, each including every call it makes:
  - `clipNewVBoxFormatsWorker` with `clipGrabX11CB`;
  - `vboxClipboardReadX11Worker` with `clipQueryX11CBFormats`;
  - `clipStopEventThreadWorker`.
- The dispatch actions run Xt's handling of one X event and the callback it
  calls:
  - `clipConvertX11Targets`;
  - `clipConvertX11CB`;
  - `clipXtConvertSelectionProc`;
  - the SelectionClear handling.
- Xt's local-conversion short cut is part of `ServerConvertSelection`.
- The peer can:
  - answer or time out a conversion, in `PeerAnswer`;
  - take or drop the selection;
  - ask us for a target.

  An `XtOwnSelection` that races with a peer grab fails. Xt then ignores the
  clear, and the code ignores the failure.

PROJECT.json's `map` gives the source lines behind every definition.

## Runs

| Run | Checks | Shows |
|---|---|---|
| `formats_loops` | `TextFormatLoopAgrees`, `CreateTargetsLoopAgrees` | The loops compute what the closed forms say. |
| `requester` | `TypeOK`, `OneTransferInFlight`, `UpdateNeededOnlyWhenBusy`, `EachRequestAccounted` | See below. |
| `owner` | `OneTransferInFlight`, `CacheFresh` | The Unicode cache never serves data older than the last announcement applied. This holds through peer requests and local transfers. |
| `liveness` | `RequestsEventuallyComplete` | Every host read is completed unless the backend stops first. |

In the `requester` run, two host reads, one announcement and a peer ownership
change interleave with the busy machine. The run shows three things:

- At most one conversion is in flight.
- `fUpdateNeeded` is only set while busy.
- Every request is either completed exactly once, or is still in exactly one
  place: a timer, the peer, or the X queue.

That the backend implements `ClipRequestContract` (`RequestContract`) is
proved for every bound by `ImplementsContract` (see Proofs), under the
mapping below; it adds no question to the run that `EachRequestAccounted`
does not already ask.

`ClipRequestContract` is the abstract specification of what the backend
promises the frontend about read requests. The frontend makes a request
(`Request`). The backend later completes it once, with a status (`Answer`).
The mapping sends:

- `requested` to `requested`;
- `answers` to `compl`, the number of `ClipCompleteDataRequestFromX11` calls;
- `status` to `result`.

The contract does not promise that a request is ever completed. That is the
liveness property `RequestsEventuallyComplete`, and a stop may leave requests
pending.

Four runs are expected violations. Each records a finding in PROJECT.json:

- **`busy_stuck`.** A read that fails before it starts a transfer
  (`VERR_NO_DATA` or `VERR_NOT_IMPLEMENTED`) leaves `fBusy` set forever. After
  that, every X11 change is swallowed into `fUpdateNeeded`.
- **`owner_echo`.** The reply to a TARGETS query issued before our grab arrives
  after it. It sets `X11TextFormat` and reports the peer's formats while we own
  the selection.
- **`convert_fail`.** Xt's timeout passes a NULL value with `XT_CONVERT_FAIL`.
  The NULL test comes first, so the request completes with `VERR_NO_DATA` and
  never `VERR_TIMEOUT`.
- **`empty_announce`.** An announcement of no formats still grabs the
  selection, which the test at lines 2566-2569 asserts.

### Bounds

- There are two cookies, or one in the `owner` run.
- There are one or two announcements.
- The peer gets one ownership change and at most one request.

These bounds are enough to reach every case the properties distinguish:

- two overlapping reads, where the second is refused with `TRY_AGAIN`;
- a TARGETS query deferred by a busy transfer;
- a grab racing a peer grab and a queued SelectionClear;
- a cache fill that races a newer announcement;
- a local transfer while we own the selection.

Each added bound only repeats these patterns with more copies.

The runs pass with `CHECK_DEADLOCK FALSE`. The backend really may idle: with
nothing queued, the event thread blocks in `select` forever.

### Fairness

The liveness run assumes weak fairness of three things:

- **The event thread.** It is a dedicated thread that is never blocked
  except in the wait for events.
- **The answer to a routed conversion.** Xt's selection timeout calls the
  callback with `XT_CONVERT_FAIL` even if the peer never answers.
- **`clipUninit`.** `RTThreadWait` returns after the stop item runs.

The host and the peer are not assumed fair.

## Proofs (`X11ClipboardProofs` and `X11ClipboardAccounting`, checked by tlapm)

- **`TypeCorrect: Spec => []TypeOK`.** The inductive invariant is
  `TypeOK /\ hostVer = anns`. The version counter must equal the
  announcement count so that versions stay in the bounded range that `TypeOK`
  states.

  The proof rests on lemmas about the format table (for example,
  `clipCreateX11Targets` yields atoms) and about each handler. There is one
  step per action.

- **`OneTransfer: Spec => []OneTransferInFlight`** and
  **`UpdateNeededBusy: Spec => []UpdateNeededOnlyWhenBusy`.** The invariant is
  not inductive on its own. The proofs use `BusyInv`, which is `TypeInv`
  plus three conjuncts:
  - `ShapeOK`: at most one conversion is at the peer, and at most one of ours
    is in the X queue, never both at once;
  - `QuietOK`: either busy, or nothing of ours is in flight;
  - `FlagOK`: `updateNeeded => busy`.

  Sequence lemmas about appending and concatenating quiet event lists carry
  the argument through the dispatch actions.

- **`CacheIsFresh: Spec => []CacheFresh`.** This needs `VersionsOK`:
  - the last applied announcement, and every queued one, is at most `hostVer`;
  - a filled cache is at least as new as the last applied announcement.

  `clipNewVBoxFormatsWorker` empties the cache, and a fill only stores the
  current version.

- **`RequestsAccounted: Spec => []EachRequestAccounted`** (in
  `X11ClipboardAccounting`). Each read request is queued as a work item,
  carried by a conversion at the peer or in the X queue, or completed, and in
  exactly one of these places.
  - The module restates the count with index sets. `TC`, `PC` and `XC`
    count the reads of a cookie in the timers, at the peer and in the X
    queue. `Held(c)` is their sum plus `compl[c]`.
  - `Accounted` (`Held(c)` is 1 if `c` was requested and 0 otherwise) is
    not inductive on its own. When the peer answers, the answer must go to
    the only conversion at the peer. The invariant is therefore
    `AInv == BusyInv /\ Accounted`, and `ShapeOK` of `BusyInv` supplies
    that shape.
  - Counting lemmas cover the helpers that move a request: appending to the
    X queue, taking its head, and concatenating quiet events. Each action
    either keeps `Held(c)` and `requested` (lemma `KeptAccounted`) or moves
    a request from one place to another: `GrabFlight`, `ReadMove` and
    `ReplyMove`.

- **`ImplementsContract: Spec => RequestContract`** (in
  `X11ClipboardContract`). The proof is a refinement proof:
  - `Init` maps to the contract's `Init`.
  - Under `AInv`, each step maps to a contract step or a stutter. There is
    one lemma per kind of step. `ClipRequestDataFromX11` is `Request`. A
    completion is `Answer`, whether it comes from the read worker's refusal,
    from a local transfer, or from a data reply.
  - Every completion ends a request that is still held, as the head work
    item or the head X event. Lemma `IdxHead` counts it, so `Held(c) >= 1`.
    `Accounted` then gives that the request was made and that `compl[c] = 0`.
  - The proof reuses `AInv` and its step lemma from `X11ClipboardAccounting`.

- **Announcement order is not claimed.** `ClipAnnounceFormatToX11` queues
  each announcement as a 0 ms Xt timer. Xt orders timers by expiry and puts
  a new one ahead of those with the same expiry, so two announcements made
  in the same millisecond run newest first, and X11 may be left offering the
  older formats. The model's queue is FIFO, which is Xt's order only when
  the expiry times differ, so no ordering property is stated; Xt is not in
  this repository.

The proofs hold for every value of the constants, under the named assumptions
in `X11Clipboard`.

Two things are only model-checked:

- **Liveness** (`RequestsEventuallyComplete`). It needs fairness and ENABLED,
  which tlapm does not handle.
- **The agreement of the literal loops with their closed forms.** The loops are
  `RECURSIVE`, and `clipCreateX11Targets` is a `FoldLeft`, which is
  recursive too. tlapm cannot use modules that reach `RECURSIVE`. Their
  agreement is a statement about every target list, so it needs induction
  over data, and the installed provers cannot instantiate the library's
  induction theorems.

## Not modelled

- **The text transcoders** (UTF-16 to UTF-8, Latin-1 and COMPOUND_TEXT). They
  are pure conversions. The model abstracts the data to "OK, no data or
  failure". Their buffer-size and sign-extension hazards are listed in
  PROJECT.json.
- **The VBoxSCSI declarations and the fast_io header.** They hold
  declarations only, with no behaviour to model.
- **Part of the backend lifecycle.** The model covers starting the event
  thread and stopping it. It does not cover:
  - construction and init failures;
  - the context registry;
  - headless mode.

## Plan for later sittings

1. Model the lifecycle: `ClipConstructX11`, the init failures at lines 713
   and 796, the context registry, and headless mode.
2. Model the `ClipRequestDataFromX11` no-memory and `fHaveX11` paths.
3. Model the transcoders as functions over bounded strings, and check them
   against reference definitions.
4. Write an abstract clipboard specification, in which the host and X11 see
   the latest announced owner's data. Refine the core model to it with an
   `INSTANCE ... WITH` mapping, and prove the refinement's step cases.

# The page-sharing service

## The system

On a Windows guest, VBoxService's page-sharing service reports the loaded
DLLs and drivers to the host, so that the host can share identical pages
between VMs. Two processes take part:

- **The service thread.** `VBoxServicePageSharingWorkerProcess` runs in
  VBoxService itself. It forks a second VBoxService process with
  `--pagefusionfork` while page fusion is enabled, and kills that process when
  it stops. `VBoxServicePageSharingStop` signals its semaphore.
- **The worker.** `VBoxServicePageSharingInitFork` runs in the forked
  process. It calls `VBoxServicePageSharingInit` and then
  `VBoxServicePageSharingWorker`. Every minute, the worker makes one pass,
  `VBoxServicePageSharingInspectGuest`:
  1. It walks the processes. For each one except itself, it runs
     `VBoxServicePageSharingInspectModules` over that process's modules.
  2. It walks the kernel modules.
  3. It destroys what is left of the old tree, unregistering each module.
  4. It makes the new tree the known one.

Within a pass, each module is handled in one of three ways:

- It is skipped if it is an executable or is already in the new tree.
- It is moved over if it is in the old tree, `g_pKnownModuleTree`.
- Otherwise it gets a new `KNOWN_MODULE` record, which is loaded and
  registered.

After each wait, a new session id means the VM was restored. The worker then
frees the old tree without unregistering.

## Modules

| Module | Models |
|---|---|
| `PageSharingRegistry` | The abstract specification: what the worker promises about the set of modules it tracks. |
| `PageSharing` | The worker. It also holds the refinement mapping to `PageSharingRegistry`. |
| `MC_PageSharing` | Model values and small sets for the runs. |
| `PageSharingService` | The service thread, the child's lifetime and the stop callback, with the theorem `ChildNotOrphaned`. |
| `PageSharingProofs` | TLAPS proofs about `PageSharing`: type correctness and `RecordsNotDangling`. |
| `PageSharingRefinement` | TLAPS proofs of `NoLeakedRecord` and of the refinement, under named fault assumptions. |

### State of `PageSharing`

- `known` and `newTree` are the two AVL trees, as functions from a module
  (its base address) to a record.
- `recs` is the set of allocated `KNOWN_MODULE` records. A record is a
  module paired with a number, so a freed record and a new one differ.
- `rc` is the `rc` of the current loop. It is kept across modules, as in the
  code.
- `stage`, `procIdx` and `modIdx` are where the pass is.
- `idSession` and `sem` are `g_idSession` and `g_PageSharingEvent`.
- The environment is made of:
  - `procMods` and `kmods`, which are the modules loaded in each process and
    the kernel;
  - `enabled`, which is the host's page-fusion switch;
  - `session`, which is the VMM's session id.

### Actions

Each handler is an action, or a loop of them. `InspectModule` is one turn of
the module loop, with:

- the extension test;
- the lookups in the new tree and the old tree;
- `RTMemAllocZ`;
- `LoadLibraryEx`;
- `vboxServicePageSharingRegisterModule`.

The module loops walk a snapshot in a fixed order `ModOrder`.
`NextModAt(S, i, j)` is `Module32First` or `Module32Next`: it gives the next
module of snapshot `S` at or after position `i`. `NoModFrom(S, i)` ends the
loop. `UserModuleStep` and `KernelModuleStep` are the bodies of the two
loops.

`InspectKernelModule` is one turn of the kernel loop, including its path
building. `KernelQuery` has four outcomes:

- the query succeeds;
- the size query fails and the pass goes on with that error in `rc`;
- the kernel part is given up;
- the early `return VERR_NO_MEMORY`.

`InspectGuestEnd` is the destruction of the old tree
(`VBoxServicePageSharingEmptyTreeCallback`) and the activation of the new
one. The guest's and the host's changes happen between passes, as
snapshots: the code sees a process list and a module list taken at one
moment. A restore may happen at any time.

The data is abstracted to what the properties tell apart:

- A file version lookup is success or failure.
- A tree maps `Core.Key` to the record. For a kernel module whose file
  cannot be found (`KernelMissing`), the loop breaks at line 634, before
  line 666 sets `Core.Key`, and line 691 inserts the record under the NULL
  key `RTMemAllocZ` left in it. The module is never registered, the record
  is unregistered and freed with the old tree at the next pass, and a new
  one is made. With two such modules the second insert fails and its record
  leaks (`KeepIfOK` keeps a record only when the insert succeeds).
- `VirtualQuery` and the region table are success or failure.
- The call to `VbglR3RegisterSharedModule` is commented out in the code
  (line 321), so it stands as success.

## Runs

| Run | Checks | Shows |
|---|---|---|
| `ps_faults` | `PSTypeOK`, `NoDanglingRecord` | With every failure the code handles, and one kernel module whose file is missing, no tree holds a freed record, and no record is in both trees. |
| `ps_refines` | `NoLeakedRecord`, `RegistryRefinement` | When no registration fails, the worker implements `PageSharingRegistry`. It frees every record it stops tracking. |
| `ps_sticky_rc` | `RegistryRefinement` (violation) | The sticky `rc` drops a module that is still loaded. |
| `ps_service` | `ServiceStops` | After a shutdown request, the service thread ends, whether the request comes during the wait, a fork or the child's run. That no forked process outlives it is the theorem `ChildNotOrphaned`. |

The refinement maps each variable of the registry to worker state:

- `loaded` is `Sharable`: the non-executable modules of the other processes,
  and the kernel modules.
- `tracked` is `Tracked`, the keys of both trees except NULL: the modules
  registered with the host.
- `epoch` is `idSession`.

Under this mapping, each worker step is one of the registry's steps:

- a module moved to the new tree is a stutter;
- a new record is `Track`;
- the end of a pass is `Untrack`;
- a restore is `Forget`.

**Finding (`ps_sticky_rc`).** `rc` is not reset between modules. After one
registration fails, the next module found in the old tree is removed from it
and not inserted into the new tree (line 432). It is never freed, and it is
no longer tracked while still loaded. The kernel loop has the same flaw at
line 689.

### Bounds

The process list has three entries: one other process with modules, our own
process, and one other process. There are:

- two or three user modules, one of them an executable;
- two drivers;
- two or three passes;
- one or two guest or host changes;
- two sessions.

These bounds are enough for the interesting cases:

- a module is loaded in two processes;
- a module moves from the old tree to the new one;
- a failure followed by a known module;
- a restore between passes.

### Fairness

`ServiceStops` assumes weak fairness of the service thread only. It is a
dedicated thread, and `RTSemEventMultiWait` returns after 60 seconds even if
nothing signals it. Nothing is assumed of the supervisor, the host or the
child.

## Proofs

- **`RecordsNotDangling: Spec => []NoDanglingRecord`** (in
  `PageSharingProofs`). It holds for every set of processes, modules and
  faults, and every number of passes and sessions.
  - `NoDanglingRecord` says every record of either tree is allocated and no
    record is in both. It is not inductive on its own: a record moved to
    the new tree must leave the old one, and a new record must be in
    neither tree.
  - The invariant is therefore `IInv == TreeTypes /\ DInv`, where `DInv`
    adds that each tree is injective (no record under two keys) and
    `ModsDisjoint`: the trees share no key but NULL. The NULL key may be
    in both trees, with the old and the new record of a missing kernel
    module; freshness of `NewRec` keeps those records apart.
  - Each step of the two module loops is a `TreeStep`. Lemmas `ReuseKnownOK`
    and `KeepIfOKOK` show that it keeps `IInv`.
- **`ChildNotOrphaned: Spec => []NoOrphanChild`** (in `PageSharingService`).
  Its invariant adds `ChildHeld`: a running child is one the thread holds a
  handle to.

- **`TypeCorrect: Spec => []PSTypeOK`** (in `PageSharingProofs`). The
  invariant is `TInv == PSTypeOK /\ IsFiniteSet(recs)`. `NewRec` picks a
  number among `0 .. Cardinality(recs)` that no record has. That choice is
  only fresh when `recs` is finite.
- **`NoRecordLost`** (in `PageSharingRefinement`): under `NoStickyErrors`
  and `OneMissing`, `Spec => []NoLeakedRecord`.
  - `NoStickyErrors` says that no failure leaves an error in `rc` while the
    loops go on. That means no failed version lookup, `VirtualQuery` or
    kernel size query, and no kernel module whose path the code builds
    wrongly.
  - The assumption is needed. The `ps_sticky_rc` finding shows a record
    removed from the old tree and never inserted or freed, once `rc` holds
    an error.
  - `NoStickyErrors` also rules out the kernel query's early return at line
    507, which leaves the pass with the new tree and the records moved into
    it, all leaked.
  - `OneMissing` says at most one kernel module's file is missing. With two,
    the second NULL-keyed insert fails at line 691 and its record leaks;
    TLC finds this with `KernelMissing = {k1, k2}`.
  - The invariant is `LInv == NoLeakedRecord /\ RcOK /\ NullFresh`, where
    `RcOK` says that `rc` is a success inside the module loops and
    `NullFresh` that the new tree has no NULL key before the missing module
    is reached, so its insert succeeds.
- **`WorkerRefinesRegistry`** (in `PageSharingRefinement`): under
  `NoSkippedModules`, `Spec => RegistryRefinement`.
  - `NoSkippedModules` adds to `NoStickyErrors` that no snapshot,
    `OpenProcess` or allocation fails. Each of these ends a loop early. The
    modules it skips are then freed at the end of the pass while still
    loaded, which is an `Untrack` the registry does not allow.
  - The invariant is `RInv == IInv /\ RcOK /\ PTypes /\ Quiet /\ Visited`.
    `Quiet` says that the new tree is empty between passes. `Visited` says
    that a pass has taken out of the old tree every shareable module it has
    passed in the snapshot order. At the end of the pass, the old tree
    therefore holds only modules that are no longer loaded, so freeing it
    is the registry's `Untrack`.
  - It holds for any `KernelMissing`: a missing module is never registered
    and its NULL key is not in `Tracked`.
  - The proof shows `Init => Registry!Init`, and that every step keeps
    `RInv` and maps to a registry step or a stutter. It then combines these
    with PTL.

Only model-checked:

- **`ServiceStops`.** It is a liveness property, and needs fairness, which
  tlapm does not handle.
- **`RegistryRefinement` with every fault.** With sticky errors it fails
  (`ps_sticky_rc`). `NoLeakedRecord` fails under the same faults, under the
  line-507 return and with two missing kernel modules; it is checked only in
  `ps_refines`, with one missing module. The theorems state exactly the
  fault sets under which they hold.

## Not modelled

- **Library handles and `FreeLibrary`.** A failed registration leaks a
  handle (line 429). This is listed as a hazard.
- **Path and version strings.** This includes the format-string misuse at
  line 660.
- **The supervisor's ordering of the stop callback and the thread's exit.**
  The supervisor is not in this repository.
- **`VbglR3CheckSharedModules`.** It only reports to the host.

