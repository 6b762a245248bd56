----------------------------- MODULE Snapshotter -----------------------------
(***************************************************************************)
(* The devmapper snapshotter (src/unnamed/part_000, type Snapshotter).     *)
(*                                                                         *)
(* Each snapshotter operation runs inside one MetaStore transaction        *)
(* (withTransaction).  A writable bolt transaction holds the store's       *)
(* writer lock from TransactionContext to Commit/Rollback, so at most one  *)
(* writable operation is in flight: it is the variable wtx.  Inside it the *)
(* operation mutates the thin pool (devices), which is NOT transactional:  *)
(* a rollback of the MetaStore leaves the pool as it is.                   *)
(*                                                                         *)
(* A writable operation is split at the points where it leaves the         *)
(* process (device-mapper ioctl, exec of mkfs.ext4, bolt commit) because   *)
(* a crash, a failure or a reader can come between them.                   *)
(*                                                                         *)
(* The MetaStore (containerd snapshots/storage) and the PoolDevice are not *)
(* under src/; their behaviour is taken from the spec (sections 4.1, 4.6): *)
(* serializable transactions whose rollback discards every change, the     *)
(* snapshot id drawn from a sequence inside the transaction, and device    *)
(* creation that is atomic against its own failures.                       *)
(***************************************************************************)
EXTENDS Naturals, Sequences, FiniteSets

CONSTANTS
    Keys,       \* snapshot keys and commit names (model values)
    MaxID,      \* bound on the MetaStore id sequence
    MaxCrashes, \* bound on process crashes
    MaxClose,   \* bound on Close calls per process lifetime
    Faults,     \* the failures the environment may inject
    NoKey       \* the empty parent ""

FaultKinds == {"dm", "mkfs", "commit", "crash", "close"}

ASSUME ConstantsAssumption ==
    /\ NoKey \notin Keys
    /\ MaxID \in Nat
    /\ MaxCrashes \in Nat
    /\ MaxClose \in Nat
    /\ Faults \subseteq FaultKinds

IDs == 1..MaxID

Kinds == {"active", "view", "committed"}

(* A MetaStore record: its stable id, its kind and its parent key.         *)
Rec == [id : IDs, kind : Kinds, parent : Keys \cup {NoKey}]

NoRec == [none |-> TRUE]

(* Committed contents of the MetaStore: records and the id sequence.       *)
Store == [recs : [Keys -> Rec \cup {NoRec}], seq : 0..MaxID]

NoTx == [none |-> TRUE]

Phases == {"device", "mkfs", "commit"}

(* The in-flight writable transaction: which operation, its key, its       *)
(* phase, the transaction's private copy of the store, the snapshot id it  *)
(* works on and, for a create, the id of the parent snapshot (0 = none).   *)
Tx == [op : {"active", "view", "remove"}, key : Keys, phase : Phases,
       data : Store, id : IDs, pid : 0..MaxID]

VARIABLES
    meta,         \* committed MetaStore contents (metadata.db)
    wtx,          \* the writable transaction in flight, or NoTx
    devices,      \* ids whose thin device <pool>-snap-<id> exists
    closed,       \* closeOnce has run in this process
    closeResults, \* what each Close call of this process returned
    crashes       \* crashes so far

vars == <<meta, wtx, devices, closed, closeResults, crashes>>

-----------------------------------------------------------------------------
(* Helpers on the store                                                    *)

HasRec(s, k) == s.recs[k] # NoRec

RecIDs(s) == {s.recs[k].id : k \in {k2 \in Keys : HasRec(s, k2)}}

(* Some record names k as its parent (bolt keeps a children bucket).       *)
HasChildren(s, k) == \E c \in Keys : HasRec(s, c) /\ s.recs[c].parent = k

(* storage.CreateSnapshot: the key must be free; a parent must exist and   *)
(* be committed; the id is the next value of the sequence.  s.seq < MaxID  *)
(* is the model's bound on that sequence (bolt's NextSequence has none):   *)
(* past it no more snapshots are created.                                  *)
CanCreate(s, key, parent) ==
    /\ ~HasRec(s, key)
    /\ s.seq < MaxID
    /\ parent # NoKey => HasRec(s, parent) /\ s.recs[parent].kind = "committed"

CreateRec(s, kind, key, parent) ==
    [recs |-> [s.recs EXCEPT ![key] = [id |-> s.seq + 1, kind |-> kind,
                                       parent |-> parent]],
     seq |-> s.seq + 1]

(* Variant of CanRemove without the children check.                        *)
CanRemoveIgnoringChildren(s, key) == HasRec(s, key)

(* storage.Remove: the key must exist and have no child.                   *)
CanRemove(s, key) == HasRec(s, key) /\ ~HasChildren(s, key)

RemoveRec(s, key) == [s EXCEPT !.recs[key] = NoRec]

(* storage.CommitActive: key is Active and name is free; the committed     *)
(* record keeps the id and the parent of the active one.                   *)
CanCommitActive(s, key, name) ==
    /\ HasRec(s, key) /\ s.recs[key].kind = "active"
    /\ ~HasRec(s, name)

CommitActiveRec(s, key, name) ==
    [s EXCEPT !.recs[name] = [s.recs[key] EXCEPT !.kind = "committed"],
              !.recs[key] = NoRec]

-----------------------------------------------------------------------------
Init ==
    /\ meta = [recs |-> [k \in Keys |-> NoRec], seq |-> 0]
    /\ wtx = NoTx
    /\ devices = {}
    /\ closed = FALSE
    /\ closeResults = <<>>
    /\ crashes = 0

(* withTransaction's rollback path: the transaction is discarded, the      *)
(* committed store and the pool stay as they are.                          *)
Rollback ==
    /\ wtx' = NoTx
    /\ UNCHANGED <<meta, devices, closed, closeResults, crashes>>

(* Prepare / View: TransactionContext(true) then storage.CreateSnapshot.   *)
(* A failing CreateSnapshot rolls back with no effect (a stutter).         *)
BeginCreate(kind, key, parent) ==
    /\ wtx = NoTx
    /\ ~closed
    /\ CanCreate(meta, key, parent)
    /\ LET d == CreateRec(meta, kind, key, parent)
       IN wtx' = [op |-> kind, key |-> key, phase |-> "device", data |-> d,
                  id |-> d.seq,
                  pid |-> IF parent = NoKey THEN 0 ELSE meta.recs[parent].id]
    /\ UNCHANGED <<meta, devices, closed, closeResults, crashes>>

(* Variant of CreateThinDevice that drops the pool's error and goes on.    *)
CreateThinDeviceIgnoringError ==
    /\ wtx # NoTx /\ wtx.op \in {"active", "view"} /\ wtx.phase = "device"
    /\ wtx.pid = 0
    /\ devices' = IF wtx.id \notin devices /\ "dm" \notin Faults
                  THEN devices \cup {wtx.id} ELSE devices
    /\ wtx' = [wtx EXCEPT !.phase = "mkfs"]
    /\ UNCHANGED <<meta, closed, closeResults, crashes>>

(* createSnapshot, no parent: pool.CreateThinDevice.  The pool refuses a   *)
(* name that exists and undoes its own partial work on failure.           *)
CreateThinDevice ==
    /\ wtx # NoTx /\ wtx.op \in {"active", "view"} /\ wtx.phase = "device"
    /\ wtx.pid = 0
    /\ \/ /\ wtx.id \notin devices
          /\ devices' = devices \cup {wtx.id}
          /\ wtx' = [wtx EXCEPT !.phase = "mkfs"]
          /\ UNCHANGED <<meta, closed, closeResults, crashes>>
       \/ /\ wtx.id \in devices \/ "dm" \in Faults
          /\ Rollback

(* createSnapshot, with parent: pool.CreateSnapshotDevice from the device  *)
(* of ParentIDs[0].                                                        *)
CreateSnapshotDevice ==
    /\ wtx # NoTx /\ wtx.op \in {"active", "view"} /\ wtx.phase = "device"
    /\ wtx.pid # 0
    /\ \/ /\ wtx.pid \in devices /\ wtx.id \notin devices
          /\ devices' = devices \cup {wtx.id}
          /\ wtx' = [wtx EXCEPT !.phase = "commit"]
          /\ UNCHANGED <<meta, closed, closeResults, crashes>>
       \/ /\ wtx.pid \notin devices \/ wtx.id \in devices \/ "dm" \in Faults
          /\ Rollback

(* mkfs.ext4 on the new thin device.  On failure createSnapshot returns    *)
(* the error and the transaction rolls back; the device is left in place.  *)
Mkfs ==
    /\ wtx # NoTx /\ wtx.phase = "mkfs"
    /\ \/ /\ wtx' = [wtx EXCEPT !.phase = "commit"]
          /\ UNCHANGED <<meta, devices, closed, closeResults, crashes>>
       \/ /\ "mkfs" \in Faults
          /\ Rollback

(* Remove: TransactionContext(true) then storage.Remove.                   *)
BeginRemove(key) ==
    /\ wtx = NoTx
    /\ ~closed
    /\ CanRemove(meta, key)
    /\ wtx' = [op |-> "remove", key |-> key, phase |-> "device",
               data |-> RemoveRec(meta, key), id |-> meta.recs[key].id,
               pid |-> 0]
    /\ UNCHANGED <<meta, devices, closed, closeResults, crashes>>

(* Variant of RemoveDevice whose pool call leaves the device in place.     *)
RemoveDeviceKeepsDevice ==
    /\ wtx # NoTx /\ wtx.op = "remove" /\ wtx.phase = "device"
    /\ wtx' = [wtx EXCEPT !.phase = "commit"]
    /\ UNCHANGED <<meta, devices, closed, closeResults, crashes>>

(* removeDevice: pool.RemoveDevice(name, deferred = true).                 *)
RemoveDevice ==
    /\ wtx # NoTx /\ wtx.op = "remove" /\ wtx.phase = "device"
    /\ \/ /\ wtx.id \in devices
          /\ devices' = devices \ {wtx.id}
          /\ wtx' = [wtx EXCEPT !.phase = "commit"]
          /\ UNCHANGED <<meta, closed, closeResults, crashes>>
       \/ /\ wtx.id \notin devices \/ "dm" \in Faults
          /\ Rollback

(* withTransaction's success path: trans.Commit.  A failed commit is       *)
(* returned as an error and nothing of the transaction persists.           *)
CommitTx ==
    /\ wtx # NoTx /\ wtx.phase = "commit"
    /\ \/ /\ meta' = wtx.data
          /\ wtx' = NoTx
          /\ UNCHANGED <<devices, closed, closeResults, crashes>>
       \/ /\ "commit" \in Faults
          /\ Rollback

(* Commit(name, key): storage.CommitActive and trans.Commit in one         *)
(* transaction that touches no device.                                     *)
Commit(name, key) ==
    /\ wtx = NoTx
    /\ ~closed
    /\ CanCommitActive(meta, key, name)
    /\ meta' = CommitActiveRec(meta, key, name)
    /\ UNCHANGED <<wtx, devices, closed, closeResults, crashes>>

(* Close: closeOnce runs store.Close and pool.Close, collecting errors;    *)
(* a later call skips them and returns a fresh, empty result.  bolt's      *)
(* Close waits for the writable transaction to end.                        *)
Close ==
    /\ wtx = NoTx
    /\ Len(closeResults) < MaxClose
    /\ closed' = TRUE
    /\ \E failed \in IF ~closed /\ "close" \in Faults THEN BOOLEAN
                                                     ELSE {FALSE} :
           closeResults' = Append(closeResults, IF failed THEN "err" ELSE "ok")
    /\ UNCHANGED <<meta, wtx, devices, crashes>>

(* The snapshotter process dies and is started again (NewSnapshotter): the *)
(* open transaction is lost, metadata.db and the pool's devices persist.   *)
CrashRestart ==
    /\ "crash" \in Faults
    /\ crashes < MaxCrashes
    /\ wtx' = NoTx
    /\ closed' = FALSE
    /\ closeResults' = <<>>
    /\ crashes' = crashes + 1
    /\ UNCHANGED <<meta, devices>>

Next ==
    \/ \E k \in Keys, p \in Keys \cup {NoKey} :
           BeginCreate("active", k, p) \/ BeginCreate("view", k, p)
    \/ CreateThinDevice
    \/ CreateSnapshotDevice
    \/ Mkfs
    \/ \E k \in Keys : BeginRemove(k)
    \/ RemoveDevice
    \/ CommitTx
    \/ \E n, k \in Keys : Commit(n, k)
    \/ Close
    \/ CrashRestart

Spec == Init /\ [][Next]_vars

-----------------------------------------------------------------------------
TypeOK ==
    /\ meta \in Store
    /\ wtx \in Tx \cup {NoTx}
    /\ devices \subseteq IDs
    /\ closed \in BOOLEAN
    /\ closeResults \in Seq({"ok", "err"})
    /\ crashes \in 0..MaxCrashes

(* Section 3 of the spec: when no operation is in flight, the pool holds   *)
(* exactly the devices of the snapshots the MetaStore records -- no        *)
(* record without its device (Remove, Prepare) and no orphan device left   *)
(* by a rolled-back Prepare or Remove.                                     *)
DevicesMatchRecords ==
    wtx = NoTx => devices = RecIDs(meta)

(* The id the MetaStore will hand to the next snapshot has no device yet.  *)
(* If it had one, every later Prepare and View would fail in               *)
(* CreateThinDevice/CreateSnapshotDevice: the rollback returns the id to   *)
(* the sequence, so the same id is drawn again and again.                  *)
NextIdUnused ==
    wtx = NoTx => meta.seq + 1 \notin devices

(* A snapshot's ancestors stay usable: every recorded parent is recorded,  *)
(* committed and has its device, so CreateSnapshotDevice from it and the   *)
(* child's mount keep working (Remove refuses a snapshot with children).  *)
AncestorsPresent ==
    \A k \in Keys :
        HasRec(meta, k) /\ meta.recs[k].parent # NoKey =>
            LET p == meta.recs[k].parent
            IN  /\ HasRec(meta, p)
                /\ meta.recs[p].kind = "committed"
                /\ wtx = NoTx => meta.recs[p].id \in devices

(* The remove in flight, if any: its record is still committed while its  *)
(* device may already be gone.                                             *)
Removing(k) == wtx # NoTx /\ wtx.op = "remove" /\ wtx.key = k

(* Spec 3 and 4.2: a snapshot the MetaStore records keeps its thin device, *)
(* so its mounts name a device that exists.  The one exception is the key *)
(* a Remove is working on, whose device removeDevice deletes before the    *)
(* transaction commits.  A failure that rolls the MetaStore back after    *)
(* pool.RemoveDevice succeeded would leave a record without its device.   *)
RecordsHaveDevices ==
    \A k \in Keys :
        HasRec(meta, k) /\ ~Removing(k) => meta.recs[k].id \in devices

=============================================================================
