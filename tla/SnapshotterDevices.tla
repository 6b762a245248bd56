-------------------------- MODULE SnapshotterDevices --------------------------
(***************************************************************************)
(* Proof that every snapshot the MetaStore records keeps its thin device   *)
(* (RecordsHaveDevices) when the failures are those of the thin pool, of   *)
(* mkfs.ext4 and of Close.  A failed mkfs leaves an orphan device, but no  *)
(* record loses its own.  The bolt-commit failure and the crash are left  *)
(* out: after removeDevice has deleted the device they drop the remove    *)
(* and keep the record, and run snap_remove_strand shows it.               *)
(***************************************************************************)
EXTENDS SnapshotterAncestors

(* The failures under which records keep their devices.                    *)
DeviceFaults == Faults \subseteq {"dm", "mkfs", "close"}

(* A create in flight will record the sequence's next id, whose device    *)
(* exists once its device step is past; a remove in flight still has its  *)
(* device until removeDevice, and never runs mkfs.                         *)
TxDevices ==
    /\ wtx # NoTx /\ wtx.op \in {"active", "view"} =>
           /\ wtx.id = meta.seq + 1
           /\ wtx.phase # "device" => wtx.id \in devices
    /\ wtx # NoTx /\ wtx.op = "remove" =>
           /\ wtx.phase # "mkfs"
           /\ wtx.phase = "device" => wtx.id \in devices

(* Every record of s, except those of the keys in ex, has its device in   *)
(* dev.                                                                    *)
HaveDevs(s, dev, ex) ==
    \A k \in Keys \ ex : HasRec(s, k) => s.recs[k].id \in dev

(* The key of the remove in flight, if any.                                *)
RemKeys == IF wtx # NoTx /\ wtx.op = "remove" THEN {wtx.key} ELSE {}

(* The inductive strengthening of RecordsHaveDevices.                      *)
RInv == AInv /\ HaveDevs(meta, devices, RemKeys) /\ TxDevices

-----------------------------------------------------------------------------
(* More devices, or fewer records required to have one, keep HaveDevs.    *)
LEMMA HaveDevsMono ==
    ASSUME NEW s, NEW dev, NEW dev2, NEW ex, NEW ex2,
           HaveDevs(s, dev, ex), dev \subseteq dev2, ex \subseteq ex2
    PROVE  HaveDevs(s, dev2, ex2)
BY DEF HaveDevs

(* A key whose device is present need not be exempted.                     *)
LEMMA HaveDevsJoin ==
    ASSUME NEW s, NEW dev, NEW key,
           HaveDevs(s, dev, {key}), HasRec(s, key) => s.recs[key].id \in dev
    PROVE  HaveDevs(s, dev, {})
BY DEF HaveDevs

(* storage.CreateSnapshot records the new key with the id seq + 1; when    *)
(* that id has its device, every record still has one.                     *)
LEMMA HaveDevsCreate ==
    ASSUME NEW s \in Store, NEW kind, NEW key \in Keys, NEW p, NEW dev,
           HaveDevs(s, dev, {}), s.seq + 1 \in dev
    PROVE  HaveDevs(CreateRec(s, kind, key, p), dev, {})
<1> DEFINE t == CreateRec(s, kind, key, p)
<1>1. t.recs = [s.recs EXCEPT ![key] = [id |-> s.seq + 1, kind |-> kind,
                                        parent |-> p]]
    BY DEF CreateRec
<1>2. t.recs[key].id = s.seq + 1
    BY <1>1 DEF Store
<1>3. \A k \in Keys \ {key} : t.recs[k] = s.recs[k]
    BY <1>1 DEF Store
<1>4. QED
    BY <1>2, <1>3 DEF HaveDevs, HasRec

(* storage.Remove deletes the record whose device is gone.                 *)
LEMMA HaveDevsRemove ==
    ASSUME NEW s \in Store, NEW key \in Keys, NEW dev, HaveDevs(s, dev, {key})
    PROVE  HaveDevs(RemoveRec(s, key), dev, {})
<1>1. RemoveRec(s, key).recs = [s.recs EXCEPT ![key] = NoRec]
    BY DEF RemoveRec, Store
<1>2. QED
    BY <1>1 DEF HaveDevs, HasRec, Store

(* storage.CommitActive moves a record, with its id, to a free name.       *)
LEMMA HaveDevsCommitActive ==
    ASSUME NEW s \in Store, NEW key \in Keys, NEW name \in Keys, NEW dev,
           CanCommitActive(s, key, name), HaveDevs(s, dev, {})
    PROVE  HaveDevs(CommitActiveRec(s, key, name), dev, {})
<1> DEFINE t == CommitActiveRec(s, key, name)
<1>1. key # name /\ HasRec(s, key)
    BY DEF CanCommitActive
<1>2. s.recs[key] \in Rec
    BY <1>1, SentinelsDistinct DEF HasRec, Store
<1>3. t.recs = [s.recs EXCEPT ![name] = [s.recs[key] EXCEPT !.kind = "committed"],
                              ![key] = NoRec]
    BY DEF CommitActiveRec
<1>4. t.recs[name].id = s.recs[key].id
    BY <1>1, <1>2, <1>3 DEF Rec, Store
<1>5. ~HasRec(t, key)
    BY <1>1, <1>3 DEF HasRec, Store
<1>6. \A k \in Keys \ {key, name} : t.recs[k] = s.recs[k]
    BY <1>3 DEF Store
<1>7. QED
    BY <1>1, <1>4, <1>5, <1>6 DEF HaveDevs, HasRec

(* pool.RemoveDevice of the removed key's device: ids are unique, so no    *)
(* other record loses its device.                                          *)
LEMMA HaveDevsRemoveDevice ==
    ASSUME NEW s \in Store, NEW key \in Keys, NEW dev,
           UniqueIDs(s), HasRec(s, key), HaveDevs(s, dev, {key})
    PROVE  HaveDevs(s, dev \ {s.recs[key].id}, {key})
BY DEF HaveDevs, UniqueIDs

LEMMA RInvInit == Init => RInv
<1> SUFFICES ASSUME Init PROVE RInv
    OBVIOUS
<1>1. AInv
    BY AInvInit
<1>2. HaveDevs(meta, devices, RemKeys)
    BY DEF Init, HaveDevs, HasRec
<1>3. TxDevices
    BY DEF Init, TxDevices
<1>4. QED
    BY <1>1, <1>2, <1>3 DEF RInv

(* Under DeviceFaults every step keeps RInv.                               *)
LEMMA RInvStep ==
    ASSUME DeviceFaults, RInv, [Next]_vars
    PROVE  RInv'
<1>0. /\ AInv /\ AInv' /\ TypeOK /\ TypeOK'
      /\ "commit" \notin Faults /\ "crash" \notin Faults
    BY AInvStep DEF RInv, AInv, DeviceFaults
<1>1. wtx # NoTx => wtx \in Tx
    BY <1>0 DEF TypeOK
<1> SUFFICES HaveDevs(meta', devices', RemKeys') /\ TxDevices'
    BY <1>0 DEF RInv
<1>2. ASSUME NEW k \in Keys, NEW p \in Keys \cup {NoKey},
             NEW kind \in {"active", "view"}, BeginCreate(kind, k, p)
      PROVE  HaveDevs(meta', devices', RemKeys') /\ TxDevices'
    <2>1. /\ wtx = NoTx /\ meta' = meta /\ devices' = devices
          /\ wtx'.op = kind /\ wtx'.phase = "device" /\ wtx'.id = meta.seq + 1
          /\ wtx' # NoTx
        BY <1>2 DEF BeginCreate, CreateRec, NoTx
    <2>2. RemKeys = {} /\ RemKeys' = {}
        BY <2>1 DEF RemKeys
    <2>3. QED
        BY <2>1, <2>2 DEF RInv, TxDevices
<1>3. ASSUME NEW k \in Keys, BeginRemove(k)
      PROVE  HaveDevs(meta', devices', RemKeys') /\ TxDevices'
    <2>1. /\ wtx = NoTx /\ meta' = meta /\ devices' = devices /\ HasRec(meta, k)
          /\ wtx'.op = "remove" /\ wtx'.phase = "device" /\ wtx'.key = k
          /\ wtx'.id = meta.recs[k].id /\ wtx' # NoTx
        BY <1>3 DEF BeginRemove, CanRemove, NoTx
    <2>2. RemKeys = {} /\ RemKeys' = {k}
        BY <2>1 DEF RemKeys
    <2>3. HaveDevs(meta, devices, {})
        BY <2>2 DEF RInv
    <2>4. meta.recs[k].id \in devices
        BY <2>1, <2>3 DEF HaveDevs
    <2>5. HaveDevs(meta', devices', RemKeys')
        BY <2>1, <2>2, <2>3, HaveDevsMono
    <2>6. QED
        BY <2>1, <2>4, <2>5 DEF TxDevices
<1>4. CASE CreateThinDevice \/ CreateSnapshotDevice
    <2>1. wtx # NoTx /\ wtx \in Tx /\ wtx.op \in {"active", "view"}
          /\ wtx.phase = "device"
        BY <1>1, <1>4 DEF CreateThinDevice, CreateSnapshotDevice
    <2>2. RemKeys = {} /\ wtx.id = meta.seq + 1
        BY <2>1 DEF RemKeys, RInv, TxDevices
    <2>3. CASE Rollback
        BY <2>1, <2>2, <2>3 DEF Rollback, RInv, RemKeys, TxDevices
    <2>4. CASE \E ph \in {"mkfs", "commit"} :
                  /\ devices' = devices \cup {wtx.id}
                  /\ wtx' = [wtx EXCEPT !.phase = ph] /\ meta' = meta
        <3>1. PICK ph \in {"mkfs", "commit"} :
                  /\ devices' = devices \cup {wtx.id}
                  /\ wtx' = [wtx EXCEPT !.phase = ph] /\ meta' = meta
            BY <2>4
        <3>2. wtx'.op = wtx.op /\ wtx'.id = wtx.id /\ wtx'.phase = ph /\ wtx' # NoTx
            BY <2>1, <3>1, PhaseKeep
        <3>3. RemKeys' = {}
            BY <2>1, <3>2 DEF RemKeys
        <3>4. HaveDevs(meta', devices', RemKeys')
            BY <2>2, <3>1, <3>3, HaveDevsMono DEF RInv
        <3>5. QED
            BY <2>1, <2>2, <3>1, <3>2, <3>4 DEF TxDevices
    <2>5. QED
        BY <1>4, <2>3, <2>4 DEF CreateThinDevice, CreateSnapshotDevice
<1>5. CASE Mkfs
    <2>1. wtx # NoTx /\ wtx \in Tx /\ wtx.phase = "mkfs"
        BY <1>1, <1>5 DEF Mkfs
    <2>2. wtx.op \in {"active", "view"}
        BY <2>1 DEF RInv, TxDevices, Tx
    <2>3. RemKeys = {} /\ wtx.id = meta.seq + 1 /\ wtx.id \in devices
        BY <2>1, <2>2 DEF RemKeys, RInv, TxDevices
    <2>4. CASE Rollback
        BY <2>1, <2>3, <2>4 DEF Rollback, RInv, RemKeys, TxDevices
    <2>5. CASE wtx' = [wtx EXCEPT !.phase = "commit"]
               /\ UNCHANGED <<meta, devices, closed, closeResults, crashes>>
        <3>1. wtx'.op = wtx.op /\ wtx'.id = wtx.id /\ wtx' # NoTx
            BY <2>1, <2>5, PhaseKeep
        <3>2. QED
            BY <2>1, <2>2, <2>3, <2>5, <3>1 DEF RInv, RemKeys, TxDevices
    <2>6. QED
        BY <1>5, <2>4, <2>5 DEF Mkfs
<1>6. CASE RemoveDevice
    <2>1. wtx # NoTx /\ wtx \in Tx /\ wtx.op = "remove" /\ wtx.phase = "device"
        BY <1>1, <1>6 DEF RemoveDevice
    <2>2. /\ RemKeys = {wtx.key} /\ wtx.id \in devices
          /\ HaveDevs(meta, devices, {wtx.key})
        BY <2>1 DEF RemKeys, RInv, TxDevices
    <2>3. /\ wtx.key \in Keys /\ HasRec(meta, wtx.key)
          /\ wtx.id = meta.recs[wtx.key].id /\ UniqueIDs(meta) /\ meta \in Store
        BY <1>0, <2>1 DEF AInv, CreatePending, RemovePending, CanRemove, Tx, TypeOK
    <2>4. CASE Rollback
        <3>1. HaveDevs(meta, devices, {})
            BY <2>2, <2>3, HaveDevsJoin
        <3>2. QED
            BY <2>4, <3>1 DEF Rollback, RemKeys, TxDevices
    <2>5. CASE /\ devices' = devices \ {wtx.id}
               /\ wtx' = [wtx EXCEPT !.phase = "commit"] /\ meta' = meta
        <3>1. wtx'.op = "remove" /\ wtx'.key = wtx.key /\ wtx'.phase = "commit"
              /\ wtx' # NoTx
            BY <2>1, <2>5, PhaseKeep
        <3>2. RemKeys' = {wtx.key}
            BY <3>1 DEF RemKeys
        <3>3. HaveDevs(meta', devices', RemKeys')
            BY <2>2, <2>3, <2>5, <3>2, HaveDevsRemoveDevice
        <3>4. QED
            BY <3>1, <3>3 DEF TxDevices
    <2>6. QED
        BY <1>6, <2>4, <2>5 DEF RemoveDevice
<1>7. CASE CommitTx
    <2>1. /\ wtx # NoTx /\ wtx \in Tx /\ wtx.phase = "commit"
          /\ meta' = wtx.data /\ wtx' = NoTx /\ devices' = devices
        BY <1>0, <1>1, <1>7 DEF CommitTx
    <2>2. RemKeys' = {} /\ TxDevices'
        BY <2>1 DEF RemKeys, TxDevices
    <2>3. meta \in Store /\ wtx.key \in Keys
        BY <1>0, <2>1 DEF TypeOK, Tx
    <2>4. CASE wtx.op \in {"active", "view"}
        <3>1. PICK p \in Keys \cup {NoKey} : wtx.data = CreateRec(meta, wtx.op, wtx.key, p)
            BY <1>0, <2>1, <2>4 DEF AInv, CreatePending, RemovePending
        <3>2. RemKeys = {} /\ meta.seq + 1 \in devices
            BY <2>1, <2>4 DEF RemKeys, RInv, TxDevices
        <3>3. HaveDevs(meta', devices', {})
            BY <2>1, <2>3, <3>1, <3>2, HaveDevsCreate DEF RInv
        <3>4. QED
            BY <2>2, <3>3
    <2>5. CASE wtx.op = "remove"
        <3>1. wtx.data = RemoveRec(meta, wtx.key)
            BY <1>0, <2>1, <2>5 DEF AInv, CreatePending, RemovePending
        <3>2. HaveDevs(meta, devices, {wtx.key})
            BY <2>1, <2>5 DEF RemKeys, RInv
        <3>3. HaveDevs(meta', devices', {})
            BY <2>1, <2>3, <3>1, <3>2, HaveDevsRemove
        <3>4. QED
            BY <2>2, <3>3
    <2>6. QED
        BY <2>1, <2>4, <2>5 DEF Tx
<1>8. ASSUME NEW n \in Keys, NEW k \in Keys, Commit(n, k)
      PROVE  HaveDevs(meta', devices', RemKeys') /\ TxDevices'
    <2>1. /\ wtx = NoTx /\ wtx' = NoTx /\ CanCommitActive(meta, k, n)
          /\ meta' = CommitActiveRec(meta, k, n) /\ devices' = devices
        BY <1>8 DEF Commit
    <2>2. RemKeys = {} /\ RemKeys' = {} /\ meta \in Store
        BY <1>0, <2>1 DEF RemKeys, TypeOK
    <2>3. QED
        BY <2>1, <2>2, HaveDevsCommitActive DEF RInv, TxDevices
<1>9. CASE Close \/ UNCHANGED vars
    <2>1. meta' = meta /\ wtx' = wtx /\ devices' = devices
        BY <1>9 DEF Close, vars
    <2>2. QED
        BY <2>1 DEF RInv, RemKeys, TxDevices
<1>10. CASE CrashRestart
    BY <1>0, <1>10 DEF CrashRestart
<1>11. QED
    BY <1>2, <1>3, <1>4, <1>5, <1>6, <1>7, <1>8, <1>9, <1>10 DEF Next

(* Spec 3 and 4.2, for every key set and id bound: as long as the bolt     *)
(* commit does not fail and the process does not crash, every snapshot the *)
(* MetaStore records has its thin device, except the one a Remove is       *)
(* deleting -- even when mkfs fails and leaves an orphan device behind.   *)
THEOREM RecordsKeepDevices ==
    ASSUME DeviceFaults PROVE Spec => []RecordsHaveDevices
<1>1. RInv => RecordsHaveDevices
    BY DEF RInv, HaveDevs, RemKeys, RecordsHaveDevices, Removing
<1>2. RInv /\ [Next]_vars => RInv'
    BY RInvStep
<1>3. QED
    BY <1>1, <1>2, RInvInit, PTL DEF Spec

=============================================================================
