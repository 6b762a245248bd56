# TLA+ models of firecracker-containerd

This directory holds TLA+ models of the stateful parts of the repository,
the TLC configurations that check them, and TLAPS proofs about them.

- The devmapper **snapshotter** (`src/unnamed/part_000`) keeps snapshot
  metadata in a bolt MetaStore and the snapshot contents in device-mapper thin
  devices.
- The firecracker **shim** task service (`src/runtime/service.go`) boots one
  microVM per container, talks to the agent inside it over vsock, and watches
  the container's processes.
- The legacy **devmapper snapshotter** (`src/snapshotter/devmapper/devmapper.go`)
  has the same RPC surface as the first one, and commits its bolt transaction
  through `complete()`.
- The **vsock CID allocator** (`findNextAvailableVsockCID` in service.go)
  picks a guest CID for each VM on a host shared by several shims.

## 1. The system

### Components and how they interact

| Component | Source | State | Operations |
|---|---|---|---|
| Snapshotter facade | part_000 | `store`, `pool`, `closeOnce`, `cleanupFn` | Prepare, View, Commit, Remove, Close (writable); Stat, Mounts, Walk, Usage, Update |
| MetaStore (containerd `snapshots/storage`, not in src) | spec 4.6 | bolt file: a record per key (id, kind, parent) and an id sequence | TransactionContext, CreateSnapshot, CommitActive, Remove, Commit/Rollback |
| ThinPool / PoolDevice (not in src) | spec 4.1 | the thin devices `<pool>-snap-<id>` | CreateThinDevice, CreateSnapshotDevice, RemoveDevice, Close |
| Legacy snapshotter | devmapper.go | same as the facade | same, with `complete()` as its commit path |
| Shim task service | service.go | `agentStarted`, `agentClient`, `machine`, `ctx`/`cancel`, the monitor goroutines | Create (startVM), Start, Exec, Kill, Shutdown, pass-through RPCs |
| CID allocator, dialVsock, stdio proxy, StartShim | service.go | kernel CID reservations, sockets and fifos | findNextAvailableVsockCID, dialVsock, proxyStdio, StartShim |

Every writable snapshotter operation runs inside one bolt transaction.
That transaction changes the thin pool, and the pool is not transactional.
A rollback therefore undoes the metadata but not the devices.

The shim serves containerd's RPCs concurrently over ttrpc. It has no lock
around `agentStarted`, `agentClient` or `machine`.
Start spawns a `monitorState` goroutine. That goroutine polls the agent, then
publishes TaskExit and calls Shutdown.

### The hard behaviours

- **Partial failure inside a transaction.** The device is created, then mkfs
  or the bolt commit fails.
- **Crash between the device step and the commit.**
- **Id reuse.** The MetaStore's id sequence is part of the rolled-back
  transaction.
- **Concurrent Create calls.** They race on `agentStarted` and `s.machine`.
- **Nil dereferences.** An RPC that arrives while Create is still booting
  dereferences a nil `agentClient`, `machine` or `cancel`.
- **Early returns that skip clean-up.** In Kill, startVM's Start failure and
  Shutdown, an early return skips stopVM or cancel.
- **Monitor termination.** A monitor goroutine ends only when its context is
  cancelled.

PROJECT.json lists each hazard at its source line, together with the
properties that cover it.

## 2. Modules

| Module | Models | Notes |
|---|---|---|
| `Snapshotter` | part_000 (Snapshotter), MetaStore and PoolDevice from the spec | the component |
| `MC_Snapshotter` | three model-value keys and symmetry | used by the `MC_Snapshotter*.cfg` runs |
| `SnapshotterProofs` | TLAPS lemmas about `Snapshotter` | type correctness, id uniqueness, `DevicesMatchRecords` under device faults only |
| `SnapshotterAncestors` | TLAPS proof of `AncestorsPresent` | extends `SnapshotterProofs` |
| `SnapshotterDevices` | TLAPS proof of `RecordsHaveDevices` | extends `SnapshotterAncestors` |
| `Shim` | service.go: Create/startVM, Exec, Start, monitorState, Kill, Shutdown | the component |
| `MC_Shim` | model-value callers | used by the `MC_Shim*.cfg` runs |
| `ShimProofs` | TLAPS proofs about `Shim` | `RunningIsMachine`, `FailedBootLeavesNoVM`, `NoVMOutlivesShutdown` |
| `SnapshotStore` | spec 4.2: the atomic snapshot-store contract | abstract; no transactions, ids or devices |
| `DevmapperV1` | devmapper.go, reusing `Snapshotter`'s store operations through `INSTANCE` | refines `SnapshotStore` |
| `MC_DevmapperV1` | three model-value keys | used by the `MC_DevmapperV1*.cfg` runs |
| `DevmapperV1Proofs` | TLAPS proofs about `DevmapperV1` | type correctness, the refinement, `CreatedHasDevice` |
| `VsockCID` | service.go: `findNextAvailableVsockCID`, and the steps of startVM and stopVM that use its CID | one process per shim |
| `MC_VsockCID` | two model-value shims, symmetry | used by `MC_VsockCID.cfg` |

### Snapshotter

**Variables**

- `meta` is the committed MetaStore: `recs[key]` is a record (id, kind,
  parent) or `NoRec`, and `seq` is the id sequence.
- `wtx` is the writable transaction in flight. bolt holds its writer lock from
  `TransactionContext(true)` to Commit/Rollback, so there is at most one.
  `wtx` records:
  - the operation;
  - its key;
  - its phase;
  - the private copy of the store (`data`);
  - the id it draws;
  - the parent's id.
- `devices` is the set of ids that have a thin device.
- `closed` and `closeResults` model `closeOnce` and what each Close returned.
- `crashes` counts process crashes.

**Actions**

Each action is one step of a handler, cut where control leaves the process.

| Action | Code |
|---|---|
| `BeginCreate(kind,key,parent)` | Prepare/View, `TransactionContext`, `storage.CreateSnapshot` (a refusal is a rollback with no effect) |
| `CreateThinDevice` / `CreateSnapshotDevice` | the two branches of `createSnapshot` (failure → rollback) |
| `Mkfs` | `dm.mkfs` (failure → rollback, device stays) |
| `BeginRemove(key)` / `RemoveDevice` | `Remove` → `removeDevice`: `storage.Remove`, then `pool.RemoveDevice` |
| `CommitTx` | `withTransaction`'s `trans.Commit` (failure → nothing persists) |
| `Commit(name,key)` | `Commit`: `CommitActive` and commit in one step, since no device is touched |
| `Close` | `Close` with `closeOnce` |
| `CrashRestart` | the process dies and `NewSnapshotter` runs again: bolt and the pool persist, the transaction and `closeOnce` do not |

Failures are injected only when their kind is in the constant `Faults`.

**Not modelled**

- Read-only operations (Stat, Mounts, Walk) and Update (labels only) change
  nothing the properties distinguish.
- The `lost+found` removal is best effort and its error is ignored.

### Shim

**Variables**

- Variables named after the Go fields: `agentStarted`, `client` (the VM the
  agent client talks to, 0 = nil), `machine`, `ctx`, `cancelled`.
- The environment:
  - `vm`: the firecracker processes;
  - `nvm`: the number of machines created;
  - `task`: the agent's processes in each VM;
  - `mon`/`monCtx`: the monitor goroutines and their contexts;
  - `exits`: TaskExit events published;
  - `shim`: up, exited or panicked.
- Each RPC caller's position in Create (`pc`), and `own`, the machine its
  startVM created (it stands for the CID that its `dialVsock` dials).
- `serving`: the ttrpc server still takes calls. `s.server.Close()` after a
  monitor's Shutdown call clears it; new RPCs (`CreateBegin`, `Exec`,
  `Start`, `Kill`, `Shutdown`) need it.

**Create**

Create is split at the points where another RPC can interleave:

1. `CreateBegin` reads `agentStarted`.
2. `NewMachine` covers the CID search, the drive list and `NewMachine`. Its
   three outcomes are: a new machine in `s.machine`; an early error (no CID,
   an unsupported mount) that leaves `s.machine` alone; and an error of
   `firecracker.NewMachine` (fault `"new"`), which line 652 assigns to
   `s.machine` as nil before checking it. `MaxVMs` is the model's bound on the
   machines created; the code has none, and past it only the early error
   remains.
3. `VMStart` is `s.machine.Start`, on whatever `s.machine` is by then: a nil
   machine panics. Every machine uses the one API socket
   `s.config.SocketPath` (service.go:603, 644), so Start succeeds only on a
   machine not yet started while no firecracker process runs. Otherwise it
   fails; with the `"start"` fault it may fail after spawning the process,
   which then runs on. On failure startVM returns without stopVM.
4. `Dial` is `dialVsock` to the caller's own CID. On failure it calls
   `stopVM`, which stops `s.machine` (a nil one panics); on success it sets
   `agentClient` and `agentStarted`.
5. `CreateTask` is the agent's Create followed by `context.WithCancel`.

**Other actions**

- `Exec`, `Start(p)`, `Kill(p)` and `Shutdown` are the RPCs.
- A nil `agentClient`, `s.machine` or `s.cancel` panics. `Panic` sets `shim = "panicked"` and leaves
  every VM running: a Go panic in a ttrpc handler ends the process.
- Kill's deferred `stopVM` runs after the agent call, and also when that
  call fails or panics. The model takes the agent call and `stopVM` as one
  step.
- `MonitorShutdown(m)` calls Shutdown and then `s.server.Close()`: when
  Shutdown returned (its stopVM failed), the shim stays up and serves no more
  RPCs.
- `MonitorTick(m)` is one tick of `monitorState`, for `m` in `Mons`
  (one goroutine per process of each VM, `VMIdx \X Procs`).
- `StopVM(ok)` is `StopVMM`. On a process that is not running, its result is
  not specified, so `ok` is chosen nondeterministically.
- `GuestExit` is a guest process ending on its own.

### DevmapperV1

`DevmapperV1` has the variables of `Snapshotter` (`meta`, `wtx`, `devices`,
`closed`) and a `reply` variable, which holds the answer of the last writable
RPC. The store operations (`CanCreate`, `CreateRec`, `RemoveRec`,
`CommitActiveRec`) are taken from `Snapshotter` through
`S == INSTANCE Snapshotter`. MetaStore is not in src, so it has a single
model.

| Action | devmapper.go |
|---|---|
| `createSnapshot(kind, key, parent)`, called by `Prepare`/`View` | `TransactionContext(true)` and `storage.CreateSnapshot`; an error goes through `complete` and is answered |
| `CreateThinDevice`, `Mkfs`, `CreateSnapshotDevice` | the device steps; a failure goes through `complete(ctx, trans, err)` (`Abort`) |
| `Finish` | the last `complete(ctx, trans, nil)` of createSnapshot and Remove |
| `Commit(name, key)` | `storage.CommitActive` then `complete`, in one step because no device is touched |
| `Remove(key)`, `RemoveDevice` | `storage.Remove`, then `pool.RemoveDevice` |
| `Close` | `store.Close` and `pool.Close`: needs the writer lock, so no transaction is in flight |

`Complete` models `complete()` itself. On a nil error it commits. The
`"commit"` fault lets `trans.Commit` fail, and `complete` drops that error
(devmapper.go:321-326): the RPC answers success while `meta` keeps its old
value.

`StoreView` maps `meta` to `SnapshotStore`'s `snaps`: the kind and parent of
each recorded key. An in-flight transaction is invisible through the mapping
until it commits.

### VsockCID

Each shim has a phase (`pc`), its loop variable `contextID`, and the `cid`
that the allocator returned. Who holds a CID in the kernel is not a variable.
It is computed from the phases (`Holders`): a shim between its successful
ioctl and the deferred `file.Close`, or a shim whose VM is running.

- `OpenDevice` opens `/dev/vhost-vsock`.
- `Ioctl` is one loop iteration. It can be cancelled, succeed on a free CID,
  get `EADDRINUSE` and continue, or fail.
- `Exhausted` is the loop reaching `maxCID`.
- `ReturnCID` is the return, with its deferred Close.
- `MachineStart` is firecracker binding the CID.
- `StopVM` is the VMM exiting.

## 3. Runs

Every run's bounds are set in its `.cfg`. Deadlock checking is off in the
snapshotter, shim and CID runs, because each of those systems really stops:

- Close is the snapshotter's last call;
- the shim process ends;
- each shim's boot ends in a final phase.

`MC_DevmapperV1.cfg` does check deadlock: `Close` is the only way it stops.

| Run (cfg) | Expect | Properties | What it shows |
|---|---|---|---|
| `snap_core` (`MC_Snapshotter.cfg`) | pass | DevicesMatchRecords | with dm and Close failures, the pool holds exactly the recorded snapshots' devices between operations |
| `snap_faults` (`MC_Snapshotter_faults.cfg`) | pass | AncestorsPresent | under all failures and one crash, every parent stays recorded, committed and backed by a device |
| `snap_devices` (`MC_Snapshotter_devices.cfg`) | pass | RecordsHaveDevices | with dm, mkfs and Close failures, every recorded snapshot keeps its device (mkfs leaves orphans, never strands a record) |
| `snap_remove_strand` (`MC_Snapshotter_strand.cfg`) | violation | RecordsHaveDevices | Remove deletes the device before the bolt commit; a failing commit keeps the record without its device |
| `snap_mkfs_leak` (`MC_Snapshotter_mkfs.cfg`) | violation | NextIdUnused | a failed mkfs leaves the device behind, and its id is handed out again |
| `shim_core` (`MC_Shim.cfg`) | pass | RunningIsMachine, FailedBootLeavesNoVM, NoVMOutlivesShutdown | with one caller and failing NewMachine, dials and agent calls, only `s.machine` runs, failed boots leave nothing running, and Shutdown stops the VM |
| `shim_race` (`MC_Shim_race.cfg`) | violation | NoVMOutlivesShutdown | two concurrent Creates: the second replaces `s.machine` while the first VM runs, and Shutdown stops the wrong machine |
| `shim_panic` (`MC_Shim_panic.cfg`) | violation | NoVMOutlivesShim | an RPC during boot panics and leaves the VM running |
| `shim_kill_monitor` (`MC_Shim_kill.cfg`) | violation | MonitorsEnd | Kill with an agent error never cancels the monitor |
| `v1_core` (`MC_DevmapperV1.cfg`) | pass | SnapshotStoreSpec, CreatedHasDevice, TxEnds | with dm and mkfs failures, devmapper.go refines the atomic store contract; a successful Prepare/View has its device; every transaction ends |
| `v1_commit` (`MC_DevmapperV1_commit.cfg`) | violation | SnapshotStoreSpec | a failed `trans.Commit` is swallowed by `complete`: Prepare answers success, no snapshot exists, and its device is orphaned |
| `cid_race` (`MC_VsockCID.cfg`) | violation | DistinctCIDs | the deferred Close releases the CID before firecracker binds it, so a second shim is given the same CID |

A crash between the device step and the commit breaks `NextIdUnused` in the
same way (TLC finds it with `Faults = {"crash"}`, `MaxCrashes = 1`). The
failure run above is kept as the one that shows the orphan device.

PROJECT.json's `findings` explains each violation against the code and the
spec.

### Bounds

**Snapshotter**

- Three keys and ids up to 4. This is enough for a parent, a child, a
  committed image and one id reused after a rollback. `MaxID` is the model's
  bound on the id sequence (`CanCreate`'s `s.seq < MaxID`); bolt's sequence
  has none, and no property depends on reaching it.
- Up to 2 Close calls, enough to observe a second Close.
- At most one crash.
- Symmetry over the keys is sound: keys are model values and no definition
  tells them apart.

**Shim**

- Two machines, so that a failed boot can be followed by a second one, and
  a second Create can replace `s.machine` while the first VM runs.
- One caller in the pass run, as containerd drives a shim, and two in the
  race run.

**DevmapperV1**

- Three keys and ids up to 4. This is enough for a committed parent, a
  snapshot of it, and a reused key after a Remove.
- No symmetry: the liveness property `TxEnds` is checked in the same run, and
  TLC does not combine symmetry with liveness soundly.

**VsockCID**

- Two shims and CIDs 3..5 (`maxCID = 5`). Two shims are enough for two
  allocators to meet on one CID, and the range still leaves free CIDs.

### Fairness

Two runs use fairness.

`MC_DevmapperV1.cfg` assumes weak fairness on the steps of the RPC that holds
the transaction: `CreateThinDevice`, `Mkfs`, `CreateSnapshotDevice`,
`RemoveDevice` and `Finish`. That goroutine owns the bolt writer lock and runs
straight-line code to `complete()`, so it keeps being scheduled. Nothing is
assumed of new RPCs or of Close.

`MC_Shim_kill.cfg` assumes weak fairness on each
monitor's tick and on its Shutdown call. `monitorState` is a goroutine
driven by a one-second ticker, so it keeps being scheduled while it runs.
Nothing is assumed of the RPC callers: containerd may stop calling at any
time.

## 4. Proofs

The results a reader should know are `AncestorsKept`, `RecordsKeepDevices`,
`V1Refinement`, `CreatedDevice`, `MachineRuns`, `FailedBootClean` and
`ShutdownStopsVM`. The other theorems of the proof modules are the lemmas
they rest on.

`SnapshotterProofs` holds the Snapshotter's supporting lemmas, for every key
set, `MaxID`, `MaxCrashes`, `MaxClose` and fault set that satisfies
`ConstantsAssumption`:

- `TypeCorrect`: `TypeOK` is inductive as it stands. The store operations
  have their own lemmas (`CreateRecType`, `RemoveRecType`,
  `CommitActiveRecType`), and the sentinels `NoRec`/`NoTx` are not records
  (`SentinelsDistinct`).
- `DevicesMatch`: `DevicesMatchRecords` under `Faults \subseteq {"dm","close"}`,
  from the strengthening `IInv` (between operations the pool is exactly the
  recorded ids; mid-operation it is those ids plus or minus the
  transaction's). Its id facts `UniqueIDs(meta)` and `IDsBelowSeq(meta)` (no
  two records share an id; every id is at most the sequence) are what the
  other Snapshotter proofs reuse.

The lemmas `RecIDsCreate`, `RecIDsRemove` and `RecIDsCommitActive` state what
each store operation does to the set of ids. `CreateRecIDs`, `RemoveRecIDs`
and `CommitActiveRecIDs` state that they keep the two id conditions. TLC
checked `IInv` as an invariant of the `MC_Snapshotter.cfg` instance before
the proof was written.

`DevmapperV1Proofs` proves two theorems for every key set and `MaxID`
satisfying `V1Assumption`, on top of the lemma `V1TypeCorrect` (`TypeOK` is
inductive; `V1PhaseUpdate` and `V1AbortType` cover the phase changes and the
rollback).

`THEOREM V1Refinement` is stated as
`ASSUME CommitSafe PROVE Spec => SnapshotStoreSpec`. It proves that
devmapper.go implements the abstract store under `StoreView`.

- The hypothesis `CommitSafe` is `"commit" \notin Faults`. Without it the
  refinement is false, as the `MC_DevmapperV1_commit.cfg` run shows.
- The inductive invariant is `IInv == TypeOK /\ TxMatchesStore`. It says that
  the open transaction's private store is the committed `meta` changed by one
  `CreateRec` or `RemoveRec`, and that this operation's precondition held on
  `meta`.
- The strengthening is needed for this reason: when `Finish` commits
  `wtx.data`, the view must change by exactly one `SnapshotStore!Create` or
  `SnapshotStore!Remove` step whose guard holds. `TypeOK` alone says nothing
  about what the private store contains.
- Each step maps to an abstract step or a stutter:
  - `Finish` maps to `Create` or `Remove`, by `FinishCreate` and
    `FinishRemove`;
  - `Commit` maps to `Commit`, by `CommitStep`;
  - every error answer maps to `Fail`, by `FailStep` and `AbortStep`;
  - the device steps and `Close` are stutters, by `Stutter`.
- The lemmas `ViewCreate`, `ViewRemove` and `ViewCommit` state how `ViewOf`
  changes under each store operation.

`THEOREM CreatedDevice` is stated as
`ASSUME CommitSafe PROVE Spec => CreatedHasDevice`. It proves the action
property from the invariant `DInv == IInv /\ DevReady`. `DevReady` says that
a create in flight will record the id `meta.seq + 1`, and that once its
device step is past, that id's device is in the pool. `CreatedStep` shows
that only `Finish` of a create answers a Prepare or View with success, and
that it commits a record with exactly that id. With the commit fault,
`Finish` answers success without recording anything, so the hypothesis is
needed, as for the refinement.

`SnapshotterAncestors` proves `THEOREM AncestorsKept == Spec => []AncestorsPresent`
for every value of the constants and **every** fault set: device-mapper,
mkfs and bolt-commit failures, Close errors and up to `MaxCrashes` crashes.
The inductive invariant `AInv` is stronger than the property:

- `TypeOK`, `UniqueIDs(meta)` and `IDsBelowSeq(meta)`, as above;
- `ParentsOK(meta, devices)`: a recorded snapshot's parent is recorded,
  committed, and its id is in the pool. `AncestorsPresent` is its first two
  parts. The third is needed because the device of a parent must survive
  until a child is committed, and the pool is what `RemoveDevice` changes;
- for a transaction in flight, `CreatePending` or `RemovePending`. A create's
  private store is `CreateRec` of the committed store, for a parent that
  passed `CanCreate`, and once past the device step the parent's device is
  in the pool (`CreateSnapshotDevice` checked it). A remove's private store
  is `RemoveRec`, its id is the key's id, and `CanRemove` held, so the key
  has no children.

Why the property survives faults: a failure or a crash only drops the
transaction and leaves `meta` and the pool alone (`AInvDrop`). `RemoveDevice`
removes the device of a childless key, and since ids are unique no other
record's parent id is lost (`ParentsRemoveDevice`). Committing a create adds a
record whose parent is committed and has a device (`ParentsCreate`).
Committing an active snapshot keeps its id, so its children's parent device
stays (`ParentsCommitActive`). TLC checked `AInv` on the
`MC_Snapshotter_faults.cfg` instance, and with `MaxCrashes = 2`, before the
proof was written.

`SnapshotterDevices` proves
`THEOREM RecordsKeepDevices == ASSUME DeviceFaults PROVE Spec => []RecordsHaveDevices`
for every value of the constants, with `DeviceFaults` =
`Faults \subseteq {"dm","mkfs","close"}`. The hypothesis excludes the bolt
commit failure and the crash: after Remove's `removeDevice`, either leaves the
record without its device, as the `snap_remove_strand` run shows. The
inductive invariant is `RInv == AInv /\ HaveDevs(meta, devices, RemKeys) /\ TxDevices`:

- `HaveDevs` is the property itself, written for any store, pool and set of
  excepted keys, so that lemmas can state what each store operation does to
  it (`HaveDevsCreate`, `HaveDevsRemove`, `HaveDevsCommitActive`,
  `HaveDevsRemoveDevice`; `HaveDevsMono` and `HaveDevsJoin` move it between
  pools and exception sets);
- `TxDevices` is needed for the committing step. A create in flight records
  id `meta.seq + 1` and its device exists once the device step is past, so
  the new record has its device. A remove in flight still has its device
  until `removeDevice`, and never reaches `mkfs`.

A failed mkfs deletes nothing that a record names: the id it leaves in the
pool is unrecorded, so `RecordsHaveDevices` holds with the mkfs fault while
`NextIdUnused` does not (`snap_mkfs_leak`). `RInvStep` has one case per
action, and for the device steps one for the rollback and one for success.

`ShimProofs` proves `ShimTypeCorrect` (`TypeOK` is inductive; `ExceptType`
and `ExceptType2` cover updates of `vm`, `task` and `mon` at `machine`, which
is 0 before the first `NewMachine` and after a failing one) and three
theorems for every `MaxVMs` satisfying `ShimAssumption`, each stated as
`ASSUME NEW c0, Callers = {c0}, "start" \notin Faults PROVE Spec => []P`:

- `MachineRuns`: `P = RunningIsMachine`, the only firecracker process is
  `s.machine`'s, so stopVM reaches every VM;
- `FailedBootClean`: `P = FailedBootLeavesNoVM`, a Create that failed
  before the agent started leaves no VM;
- `ShutdownStopsVM`: `P = NoVMOutlivesShutdown`.

The inductive invariant `BootInv` is `TypeOK`, `Running \subseteq {machine}`,
no VM once the shim exited, and for the caller: inside startVM (`Booting`)
the agent is not started; at `CreateTask` it is; idle or before `VMStart`
without a started agent, no VM runs. The last conjunct is what makes a
second boot safe: `NewMachine` replaces `s.machine` only while nothing runs,
so `Running \subseteq {machine}` survives it. `StopVMRunning`, `StartRunning`
and `OthersStop` state what each group of actions does to `Running`.

The hypotheses are those the runs show necessary. Two overlapping Create
calls let `NewMachine` replace a running machine (`shim_race`), and a
failing `machine.Start` may leave firecracker running after Create returned
its error (TLC finds `FailedBootLeavesNoVM` violated with `Faults = {"start"}`). A single caller is how containerd drives a
shim's Create. All fault kinds but `"start"` are allowed: a nil machine from
a failed `NewMachine` makes stopVM and Shutdown panic, and the proof covers
that. TLC checked `BootInv` on the `MC_Shim.cfg` instance before the proof.

Only TLC checks:

- the cases outside the theorems' hypotheses, where the properties do not
  hold: `DevicesMatchRecords` under mkfs, commit or crash faults,
  `RecordsHaveDevices` under commit or crash faults (`snap_remove_strand`),
  the Shim invariants with several Create callers (`shim_race`) or a failing
  VM start;
- the liveness properties `MonitorsEnd` and `TxEnds`. Liveness and `ENABLED`
  are beyond TLAPS;
- the violated properties `DistinctCIDs`, `NextIdUnused`, `NoVMOutlivesShim`
  and, for devmapper.go's failed commit, `SnapshotStoreSpec`.

## 5. Not modelled, and the plan

Planned for later:

- The `dialVsock` delay schedule, as a pure operator checked against a
  reference.
- A refinement of `SnapshotStore` by `Snapshotter` (the facade) as well as
  by `DevmapperV1`.

Left out:

- The stdio proxy, `StartShim` and `packBundle`. They are I/O and data
  conversion with no shared state beyond the per-task context, which is
  modelled.
