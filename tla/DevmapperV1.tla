----------------------------- MODULE DevmapperV1 -----------------------------
(***************************************************************************)
(* The older devmapper snapshotter (src/snapshotter/devmapper/devmapper.go *)
(* type devmapper).  Its operations run the same MetaStore transaction and *)
(* thin-pool steps as Snapshotter's, but end through complete(): an error  *)
(* rolls the transaction back and is returned; on success trans.Commit is  *)
(* called and its error is only logged -- complete returns the nil err it  *)
(* was given.  There is no closeOnce and no crash model here.              *)
(*                                                                         *)
(* The MetaStore records, the id sequence and the pool's devices are those *)
(* of Snapshotter, whose store helpers are used through the instance S.    *)
(* reply is the answer of the last mutating RPC, so that the module can be *)
(* checked against the caller's view in SnapshotStore.                     *)
(***************************************************************************)
EXTENDS Naturals

CONSTANTS
    Keys,   \* snapshot keys and commit names (model values)
    MaxID,  \* bound on the MetaStore id sequence
    Faults, \* the failures the environment may inject
    NoKey   \* the empty parent ""

ASSUME V1Assumption ==
    /\ NoKey \notin Keys
    /\ MaxID \in Nat
    /\ Faults \subseteq {"dm", "mkfs", "commit"}

VARIABLES
    meta,    \* committed MetaStore contents (metadata.db)
    wtx,     \* the writable transaction in flight, or NoTx
    devices, \* ids whose thin device <pool>-snap-<id> exists
    closed,  \* dm.store.Close has run
    reply    \* [op, key, ok] answered by the last Prepare/View/Commit/Remove

vars == <<meta, wtx, devices, closed, reply>>

S == INSTANCE Snapshotter
         WITH closeResults <- <<>>, crashes <- 0, MaxCrashes <- 0,
              MaxClose <- 0

NoTx == S!NoTx

Answer(op, key, ok) == reply' = [op |-> op, key |-> key, ok |-> ok]

-----------------------------------------------------------------------------
(* NewSnapshotter: an empty metadata.db and pool.                          *)
Init ==
    /\ meta = [recs |-> [k \in Keys |-> S!NoRec], seq |-> 0]
    /\ wtx = NoTx
    /\ devices = {}
    /\ closed = FALSE
    /\ reply = [none |-> TRUE]

(* complete(ctx, trans, err) with err != nil: rollback, return err.        *)
Abort ==
    /\ wtx' = NoTx
    /\ Answer(wtx.op, wtx.key, FALSE)
    /\ UNCHANGED <<meta, devices, closed>>

(* complete(ctx, trans, nil): trans.Commit; a failed commit is logged and  *)
(* the caller is still answered nil.                                       *)
Complete ==
    /\ \/ meta' = wtx.data
       \/ "commit" \in Faults /\ UNCHANGED meta
    /\ wtx' = NoTx
    /\ Answer(wtx.op, wtx.key, TRUE)
    /\ UNCHANGED <<devices, closed>>

(* createSnapshot: TransactionContext(true) (refused once the store is     *)
(* closed) and storage.CreateSnapshot; their errors end the call.          *)
(* S!CanCreate's seq < MaxID is the model's bound on the id sequence, not  *)
(* a check of the code: past it no more snapshots are created.             *)
createSnapshot(kind, key, parent) ==
    /\ wtx = NoTx
    /\ IF ~closed /\ S!CanCreate(meta, key, parent)
       THEN /\ wtx' = [op |-> kind, key |-> key, phase |-> "device",
                       data |-> S!CreateRec(meta, kind, key, parent),
                       id |-> meta.seq + 1,
                       pid |-> IF parent = NoKey THEN 0
                               ELSE meta.recs[parent].id]
            /\ UNCHANGED <<meta, devices, closed, reply>>
       ELSE /\ Answer(kind, key, FALSE)
            /\ UNCHANGED <<meta, wtx, devices, closed>>

Prepare(key, parent) == createSnapshot("active", key, parent)

View(key, parent) == createSnapshot("view", key, parent)

(* Variant of CreateThinDevice that drops the pool's error and goes on.    *)
CreateThinDeviceIgnoringError ==
    /\ wtx # NoTx /\ wtx.op \in {"active", "view"} /\ wtx.phase = "device"
    /\ wtx.pid = 0
    /\ devices' = IF wtx.id \notin devices /\ "dm" \notin Faults
                  THEN devices \cup {wtx.id} ELSE devices
    /\ wtx' = [wtx EXCEPT !.phase = "mkfs"]
    /\ UNCHANGED <<meta, closed, reply>>

(* No parent: pool.CreateThinDevice; on error complete(err).               *)
CreateThinDevice ==
    /\ wtx # NoTx /\ wtx.op \in {"active", "view"} /\ wtx.phase = "device"
    /\ wtx.pid = 0
    /\ \/ /\ wtx.id \notin devices
          /\ devices' = devices \cup {wtx.id}
          /\ wtx' = [wtx EXCEPT !.phase = "mkfs"]
          /\ UNCHANGED <<meta, closed, reply>>
       \/ /\ wtx.id \in devices \/ "dm" \in Faults
          /\ Abort

(* dm.mkfs: exec mkfs.ext4 on the new device; its error is returned       *)
(* through complete(err) and the device stays in the pool.                 *)
Mkfs ==
    /\ wtx # NoTx /\ wtx.phase = "mkfs"
    /\ \/ /\ wtx' = [wtx EXCEPT !.phase = "commit"]
          /\ UNCHANGED <<meta, devices, closed, reply>>
       \/ "mkfs" \in Faults /\ Abort

(* With a parent: pool.CreateSnapshotDevice from ParentIDs[0]'s device.    *)
CreateSnapshotDevice ==
    /\ wtx # NoTx /\ wtx.op \in {"active", "view"} /\ wtx.phase = "device"
    /\ wtx.pid # 0
    /\ \/ /\ wtx.pid \in devices /\ wtx.id \notin devices
          /\ devices' = devices \cup {wtx.id}
          /\ wtx' = [wtx EXCEPT !.phase = "commit"]
          /\ UNCHANGED <<meta, closed, reply>>
       \/ /\ wtx.pid \notin devices \/ wtx.id \in devices \/ "dm" \in Faults
          /\ Abort

(* Variant of Finish for a handler that returns without complete() after  *)
(* its pool step, leaving a Remove's transaction open.                     *)
FinishCreateOnly ==
    /\ wtx # NoTx /\ wtx.phase = "commit" /\ wtx.op # "remove"
    /\ Complete

(* buildMounts, the lost+found removal (its error ignored) and             *)
(* complete(ctx, trans, nil) at the end of createSnapshot and Remove.      *)
Finish ==
    /\ wtx # NoTx /\ wtx.phase = "commit"
    /\ Complete

(* Commit: storage.CommitActive and complete, touching no device.          *)
Commit(name, key) ==
    /\ wtx = NoTx
    /\ IF ~closed /\ S!CanCommitActive(meta, key, name)
       THEN \/ meta' = S!CommitActiveRec(meta, key, name)
            \/ "commit" \in Faults /\ UNCHANGED meta
       ELSE UNCHANGED meta
    /\ Answer("commit", key, ~closed /\ S!CanCommitActive(meta, key, name))
    /\ UNCHANGED <<wtx, devices, closed>>

(* Variant of Remove whose storage.Remove ignores the children bucket.     *)
RemoveIgnoringChildren(key) ==
    /\ wtx = NoTx
    /\ IF ~closed /\ S!CanRemoveIgnoringChildren(meta, key)
       THEN /\ wtx' = [op |-> "remove", key |-> key, phase |-> "device",
                       data |-> S!RemoveRec(meta, key),
                       id |-> meta.recs[key].id, pid |-> 0]
            /\ UNCHANGED <<meta, devices, closed, reply>>
       ELSE /\ Answer("remove", key, FALSE)
            /\ UNCHANGED <<meta, wtx, devices, closed>>

(* Remove: TransactionContext(true) and storage.Remove.                    *)
Remove(key) ==
    /\ wtx = NoTx
    /\ IF ~closed /\ S!CanRemove(meta, key)
       THEN /\ wtx' = [op |-> "remove", key |-> key, phase |-> "device",
                       data |-> S!RemoveRec(meta, key),
                       id |-> meta.recs[key].id, pid |-> 0]
            /\ UNCHANGED <<meta, devices, closed, reply>>
       ELSE /\ Answer("remove", key, FALSE)
            /\ UNCHANGED <<meta, wtx, devices, closed>>

(* Remove, second half: pool.RemoveDevice; on error complete(err).         *)
RemoveDevice ==
    /\ wtx # NoTx /\ wtx.op = "remove" /\ wtx.phase = "device"
    /\ \/ /\ wtx.id \in devices
          /\ devices' = devices \ {wtx.id}
          /\ wtx' = [wtx EXCEPT !.phase = "commit"]
          /\ UNCHANGED <<meta, closed, reply>>
       \/ /\ wtx.id \notin devices \/ "dm" \in Faults
          /\ Abort

(* Close: store.Close (bolt waits for the writer) and pool.Close; later    *)
(* transactions are refused.  A second Close repeats both and changes      *)
(* nothing.                                                                *)
Close ==
    /\ wtx = NoTx
    /\ closed' = TRUE
    /\ UNCHANGED <<meta, wtx, devices, reply>>

Next ==
    \/ \E k \in Keys, p \in Keys \cup {NoKey} : Prepare(k, p) \/ View(k, p)
    \/ CreateThinDevice
    \/ Mkfs
    \/ CreateSnapshotDevice
    \/ Finish
    \/ \E n, k \in Keys : Commit(n, k)
    \/ \E k \in Keys : Remove(k)
    \/ RemoveDevice
    \/ Close

Spec == Init /\ [][Next]_vars

(* The RPC goroutine that holds the writable transaction keeps running:    *)
(* each of its steps (pool calls, mkfs, complete) is weakly fair.           *)
Fairness ==
    /\ WF_vars(CreateThinDevice) /\ WF_vars(Mkfs)
    /\ WF_vars(CreateSnapshotDevice) /\ WF_vars(RemoveDevice)
    /\ WF_vars(Finish)

FairSpec == Spec /\ Fairness

-----------------------------------------------------------------------------
TypeOK ==
    /\ meta \in S!Store
    /\ wtx \in S!Tx \cup {NoTx}
    /\ devices \subseteq S!IDs
    /\ closed \in BOOLEAN
    /\ reply \in [op : {"active", "view", "commit", "remove"}, key : Keys,
                  ok : BOOLEAN] \cup {[none |-> TRUE]}

(* What a Stat or Walk shows of store s: kind and parent of each snapshot *)
(* (the NoSnap of SnapshotStore for a missing key).                         *)
ViewOf(s) ==
    [k \in Keys |-> IF S!HasRec(s, k)
                    THEN [kind |-> s.recs[k].kind, parent |-> s.recs[k].parent]
                    ELSE [none |-> TRUE]]

StoreView == ViewOf(meta)

Abs == INSTANCE SnapshotStore WITH snaps <- StoreView, reply <- reply

(* Spec 4.2 and 7: every Prepare, View, Commit and Remove that answers     *)
(* nil has taken effect in the store, atomically, and every one that       *)
(* answers an error has had none -- the devmapper implements the           *)
(* snapshotter contract of SnapshotStore under the refinement StoreView.   *)
SnapshotStoreSpec == Abs!Spec

(* A Prepare or View that returns its mounts without error leaves the      *)
(* snapshot recorded with its thin device present: the mount the caller    *)
(* received points at a device that exists.                                *)
CreatedHasDevice ==
    [][ /\ reply' # reply
        /\ reply'.ok
        /\ reply'.op \in {"active", "view"}
        => /\ S!HasRec(meta', reply'.key)
           /\ meta'.recs[reply'.key].id \in devices' ]_vars

(* Every writable transaction an RPC opens is ended -- committed or rolled *)
(* back through complete() -- so bolt's writer lock, on which every other  *)
(* Prepare, View, Commit, Remove and Close waits, is released.             *)
TxEnds ==
    wtx # NoTx ~> wtx = NoTx

=============================================================================
