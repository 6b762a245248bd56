------------------------- MODULE SnapshotterAncestors -------------------------
(***************************************************************************)
(* Proof that the snapshotter keeps every recorded parent usable           *)
(* (AncestorsPresent) under every fault the model injects: device-mapper,  *)
(* mkfs and bolt-commit failures, Close errors and crashes.                *)
(*                                                                         *)
(* Only Remove deletes a device, and it works on a key with no children;   *)
(* ids are unique, so that device is no parent's.  A Prepare or View with  *)
(* a parent records the child only after CreateSnapshotDevice found the    *)
(* parent's device, and the committed store does not change while the     *)
(* transaction is open.                                                    *)
(***************************************************************************)
EXTENDS SnapshotterProofs

(* Every record's parent is recorded, committed and has its device in dev. *)
ParentsOK(s, dev) ==
    \A k \in Keys :
        HasRec(s, k) /\ s.recs[k].parent # NoKey =>
            /\ HasRec(s, s.recs[k].parent)
            /\ s.recs[s.recs[k].parent].kind = "committed"
            /\ s.recs[s.recs[k].parent].id \in dev

(* A Prepare/View in flight was admitted by CreateSnapshot on the          *)
(* committed store with some parent p, and once past its device step it    *)
(* has seen the parent's device.                                           *)
CreatePending ==
    /\ wtx.op \in {"active", "view"}
    /\ \E p \in Keys \cup {NoKey} :
           /\ CanCreate(meta, wtx.key, p)
           /\ wtx.data = CreateRec(meta, wtx.op, wtx.key, p)
           /\ wtx.pid = IF p = NoKey THEN 0 ELSE meta.recs[p].id
           /\ wtx.phase # "device" /\ p # NoKey => wtx.pid \in devices

(* A Remove in flight was admitted by storage.Remove on the committed     *)
(* store: the key has no children.                                         *)
RemovePending ==
    /\ wtx.op = "remove"
    /\ CanRemove(meta, wtx.key)
    /\ wtx.id = meta.recs[wtx.key].id
    /\ wtx.data = RemoveRec(meta, wtx.key)

(* The inductive strengthening of AncestorsPresent.                        *)
AInv ==
    /\ TypeOK
    /\ UniqueIDs(meta)
    /\ IDsBelowSeq(meta)
    /\ ParentsOK(meta, devices)
    /\ wtx # NoTx => CreatePending \/ RemovePending

-----------------------------------------------------------------------------
(* A record's id is a positive number, so pid = 0 means "no parent".       *)
LEMMA RecID ==
    ASSUME NEW s \in Store, NEW k \in Keys, HasRec(s, k)
    PROVE  s.recs[k] \in Rec /\ s.recs[k].id \in 1..MaxID
BY SentinelsDistinct DEF HasRec, Store, Rec, IDs

(* More devices never take a parent's device away.                         *)
LEMMA ParentsMoreDevices ==
    ASSUME NEW s, NEW dev, NEW dev2, ParentsOK(s, dev), dev \subseteq dev2
    PROVE  ParentsOK(s, dev2)
BY DEF ParentsOK

(* storage.CreateSnapshot: the new record's parent is recorded and         *)
(* committed (CanCreate) and, when the caller has checked it, has its      *)
(* device; no record names the new, previously free key as its parent.     *)
LEMMA ParentsCreate ==
    ASSUME NEW s \in Store, NEW kind \in Kinds, NEW key \in Keys,
           NEW p \in Keys \cup {NoKey}, NEW dev,
           CanCreate(s, key, p), ParentsOK(s, dev),
           p # NoKey => s.recs[p].id \in dev
    PROVE  ParentsOK(CreateRec(s, kind, key, p), dev)
<1> DEFINE t == CreateRec(s, kind, key, p)
<1>1. t.recs = [s.recs EXCEPT ![key] = [id |-> s.seq + 1, kind |-> kind,
                                        parent |-> p]]
    BY DEF CreateRec
<1>2. HasRec(t, key) /\ t.recs[key].parent = p
    BY <1>1 DEF HasRec, NoRec, Store
<1>3. \A k \in Keys \ {key} : t.recs[k] = s.recs[k]
    BY <1>1 DEF Store
<1>4. ~HasRec(s, key)
    BY DEF CanCreate
<1>5. ASSUME NEW k \in Keys, HasRec(t, k), t.recs[k].parent # NoKey
      PROVE  /\ HasRec(t, t.recs[k].parent)
             /\ t.recs[t.recs[k].parent].kind = "committed"
             /\ t.recs[t.recs[k].parent].id \in dev
    <2>1. CASE k = key
        <3>1. HasRec(s, p) /\ s.recs[p].kind = "committed" /\ p # key
            BY <1>2, <1>4, <1>5, <2>1 DEF CanCreate
        <3>2. QED
            BY <1>2, <1>3, <1>5, <2>1, <3>1 DEF HasRec
    <2>2. CASE k # key
        <3>1. HasRec(s, k) /\ t.recs[k] = s.recs[k]
            BY <1>3, <1>5, <2>2 DEF HasRec
        <3>2. HasRec(s, s.recs[k].parent) /\ s.recs[k].parent \in Keys
            BY <1>5, <3>1, RecID DEF ParentsOK, Rec
        <3>3. s.recs[k].parent # key
            BY <1>4, <3>2
        <3>4. QED
            BY <1>3, <1>5, <3>1, <3>2, <3>3 DEF ParentsOK, HasRec
    <2>3. QED
        BY <2>1, <2>2
<1>6. QED
    BY <1>5 DEF ParentsOK

(* storage.Remove of a key no record names as its parent.                  *)
LEMMA ParentsRemove ==
    ASSUME NEW s \in Store, NEW key \in Keys, NEW dev,
           ParentsOK(s, dev), ~HasChildren(s, key)
    PROVE  ParentsOK(RemoveRec(s, key), dev)
<1> DEFINE t == RemoveRec(s, key)
<1>1. t.recs = [s.recs EXCEPT ![key] = NoRec]
    BY DEF RemoveRec, Store
<1>2. ~HasRec(t, key)
    BY <1>1 DEF HasRec, Store
<1>3. \A k \in Keys \ {key} : t.recs[k] = s.recs[k]
    BY <1>1 DEF Store
<1>4. ASSUME NEW k \in Keys, HasRec(t, k), t.recs[k].parent # NoKey
      PROVE  /\ HasRec(t, t.recs[k].parent)
             /\ t.recs[t.recs[k].parent].kind = "committed"
             /\ t.recs[t.recs[k].parent].id \in dev
    <2>1. k # key /\ HasRec(s, k) /\ t.recs[k] = s.recs[k]
        BY <1>2, <1>3, <1>4 DEF HasRec
    <2>2. HasRec(s, s.recs[k].parent) /\ s.recs[k].parent \in Keys
        BY <1>4, <2>1, RecID DEF ParentsOK, Rec
    <2>3. s.recs[k].parent # key
        BY <2>1 DEF HasChildren
    <2>4. QED
        BY <1>3, <1>4, <2>1, <2>2, <2>3 DEF ParentsOK, HasRec
<1>5. QED
    BY <1>4 DEF ParentsOK

(* pool.RemoveDevice of a key with no children: ids are unique, so the     *)
(* device removed is no parent's.                                          *)
LEMMA ParentsRemoveDevice ==
    ASSUME NEW s \in Store, NEW key \in Keys, NEW dev,
           UniqueIDs(s), ParentsOK(s, dev), HasRec(s, key), ~HasChildren(s, key)
    PROVE  ParentsOK(s, dev \ {s.recs[key].id})
<1>1. ASSUME NEW k \in Keys, HasRec(s, k), s.recs[k].parent # NoKey
      PROVE  s.recs[s.recs[k].parent].id # s.recs[key].id
    <2>1. s.recs[k].parent \in Keys /\ HasRec(s, s.recs[k].parent)
        BY <1>1, RecID DEF ParentsOK, Rec
    <2>2. s.recs[k].parent # key
        BY <1>1 DEF HasChildren
    <2>3. QED
        BY <2>1, <2>2 DEF UniqueIDs
<1>2. QED
    BY <1>1 DEF ParentsOK

(* storage.CommitActive: an active snapshot is nobody's parent, so moving  *)
(* its record to a free name keeps every parent in place.                  *)
LEMMA ParentsCommitActive ==
    ASSUME NEW s \in Store, NEW key \in Keys, NEW name \in Keys, NEW dev,
           CanCommitActive(s, key, name), ParentsOK(s, dev)
    PROVE  ParentsOK(CommitActiveRec(s, key, name), dev)
<1> DEFINE t == CommitActiveRec(s, key, name)
<1>1. key # name /\ HasRec(s, key) /\ s.recs[key].kind = "active" /\ ~HasRec(s, name)
    BY DEF CanCommitActive
<1>2. s.recs[key] \in Rec
    BY <1>1, SentinelsDistinct DEF HasRec, Store
<1>3. t.recs = [s.recs EXCEPT ![name] = [s.recs[key] EXCEPT !.kind = "committed"],
                              ![key] = NoRec]
    BY DEF CommitActiveRec
<1>4. HasRec(t, name) /\ t.recs[name].parent = s.recs[key].parent
    BY <1>1, <1>2, <1>3 DEF HasRec, NoRec, Rec, Store
<1>5. ~HasRec(t, key)
    BY <1>1, <1>3 DEF HasRec, Store
<1>6. \A k \in Keys \ {key, name} : t.recs[k] = s.recs[k]
    BY <1>3 DEF Store
<1>7. ASSUME NEW q \in Keys, HasRec(s, q), s.recs[q].kind = "committed"
      PROVE  q \notin {key, name} /\ t.recs[q] = s.recs[q]
    BY <1>1, <1>6, <1>7
<1>8. ASSUME NEW k \in Keys, HasRec(t, k), t.recs[k].parent # NoKey
      PROVE  /\ HasRec(t, t.recs[k].parent)
             /\ t.recs[t.recs[k].parent].kind = "committed"
             /\ t.recs[t.recs[k].parent].id \in dev
    <2>1. \E j \in Keys : HasRec(s, j) /\ t.recs[k].parent = s.recs[j].parent
        <3>1. CASE k = name
            BY <1>1, <1>4, <3>1
        <3>2. CASE k # name
            BY <1>5, <1>6, <1>8, <3>2 DEF HasRec
        <3>3. QED
            BY <3>1, <3>2
    <2>2. PICK j \in Keys : HasRec(s, j) /\ t.recs[k].parent = s.recs[j].parent
        BY <2>1
    <2>3. /\ s.recs[j].parent \in Keys
          /\ HasRec(s, s.recs[j].parent)
          /\ s.recs[s.recs[j].parent].kind = "committed"
          /\ s.recs[s.recs[j].parent].id \in dev
        BY <1>8, <2>2, RecID DEF ParentsOK, Rec
    <2>4. QED
        BY <1>7, <2>2, <2>3 DEF HasRec
<1>9. QED
    BY <1>8 DEF ParentsOK

-----------------------------------------------------------------------------
(* A new phase changes nothing else of the transaction.                    *)
LEMMA PhaseKeep ==
    ASSUME NEW t \in Tx, NEW ph
    PROVE  LET u == [t EXCEPT !.phase = ph]
           IN  /\ u.op = t.op /\ u.key = t.key /\ u.data = t.data
               /\ u.pid = t.pid /\ u.id = t.id /\ u.phase = ph /\ u # NoTx
BY DEF Tx, NoTx

(* A step that ends the transaction and leaves the store and the pool      *)
(* alone -- a rollback or a crash -- keeps AInv.                           *)
LEMMA AInvDrop ==
    ASSUME AInv, TypeOK', meta' = meta, devices' = devices, wtx' = NoTx
    PROVE  AInv'
BY DEF AInv

LEMMA AInvInit == Init => AInv
<1> SUFFICES ASSUME Init PROVE AInv
    OBVIOUS
<1>1. \A k \in Keys : ~HasRec(meta, k)
    BY DEF Init, HasRec
<1>2. QED
    BY <1>1, TypeInit DEF Init, AInv, UniqueIDs, IDsBelowSeq, ParentsOK

(* Every step keeps AInv, whatever faults strike.                          *)
LEMMA AInvStep == AInv /\ [Next]_vars => AInv'
<1> SUFFICES ASSUME AInv, [Next]_vars PROVE AInv'
    OBVIOUS
<1>0. /\ TypeOK /\ TypeOK'
      /\ UniqueIDs(meta) /\ IDsBelowSeq(meta) /\ ParentsOK(meta, devices)
      /\ wtx # NoTx => CreatePending \/ RemovePending
    BY TypeStep DEF AInv
<1>1. ASSUME NEW k \in Keys, NEW p \in Keys \cup {NoKey},
             NEW kind \in {"active", "view"}, BeginCreate(kind, k, p)
      PROVE  AInv'
    <2>1. /\ CanCreate(meta, k, p)
          /\ meta' = meta /\ devices' = devices
          /\ wtx' = [op |-> kind, key |-> k, phase |-> "device",
                     data |-> CreateRec(meta, kind, k, p),
                     id |-> meta.seq + 1,
                     pid |-> IF p = NoKey THEN 0 ELSE meta.recs[p].id]
        BY <1>1 DEF BeginCreate, CreateRec
    <2>2. CreatePending'
        BY <2>1 DEF CreatePending
    <2>3. QED
        BY <1>0, <2>1, <2>2 DEF AInv
<1>2. CASE CreateThinDevice
    <2>1. wtx # NoTx /\ wtx.op \in {"active", "view"} /\ wtx.phase = "device"
          /\ wtx.pid = 0 /\ meta' = meta
        BY <1>2 DEF CreateThinDevice, Rollback
    <2>2. CASE wtx' = NoTx
        BY <1>0, <1>2, <2>1, <2>2, AInvDrop, PhaseUpdate
           DEF CreateThinDevice, Rollback, TypeOK
    <2>3. CASE wtx' # NoTx
        <3>1. devices' = devices \cup {wtx.id} /\ wtx' = [wtx EXCEPT !.phase = "mkfs"]
            BY <1>2, <2>3 DEF CreateThinDevice, Rollback
        <3>2. PICK p \in Keys \cup {NoKey} :
                  /\ CanCreate(meta, wtx.key, p)
                  /\ wtx.data = CreateRec(meta, wtx.op, wtx.key, p)
                  /\ wtx.pid = IF p = NoKey THEN 0 ELSE meta.recs[p].id
            BY <1>0, <2>1 DEF CreatePending, RemovePending
        <3>3. p = NoKey
            BY <1>0, <2>1, <3>2, RecID DEF CanCreate, TypeOK
        <3>4. CreatePending'
            BY <1>0, <2>1, <3>1, <3>2, <3>3, PhaseKeep DEF CreatePending, TypeOK
        <3>5. ParentsOK(meta', devices')
            BY <1>0, <2>1, <3>1, ParentsMoreDevices
        <3>6. QED
            BY <1>0, <2>1, <2>3, <3>4, <3>5 DEF AInv
    <2>4. QED
        BY <2>2, <2>3
<1>3. CASE CreateSnapshotDevice
    <2>1. wtx # NoTx /\ wtx.op \in {"active", "view"} /\ wtx.phase = "device"
          /\ meta' = meta
        BY <1>3 DEF CreateSnapshotDevice, Rollback
    <2>2. CASE wtx' = NoTx
        BY <1>0, <1>3, <2>1, <2>2, AInvDrop, PhaseUpdate
           DEF CreateSnapshotDevice, Rollback, TypeOK
    <2>3. CASE wtx' # NoTx
        <3>1. /\ wtx.pid \in devices
              /\ devices' = devices \cup {wtx.id}
              /\ wtx' = [wtx EXCEPT !.phase = "commit"]
            BY <1>3, <2>3 DEF CreateSnapshotDevice, Rollback
        <3>2. PICK p \in Keys \cup {NoKey} :
                  /\ CanCreate(meta, wtx.key, p)
                  /\ wtx.data = CreateRec(meta, wtx.op, wtx.key, p)
                  /\ wtx.pid = IF p = NoKey THEN 0 ELSE meta.recs[p].id
            BY <1>0, <2>1 DEF CreatePending, RemovePending
        <3>3. CreatePending'
            BY <1>0, <2>1, <3>1, <3>2, PhaseKeep DEF CreatePending, TypeOK
        <3>4. ParentsOK(meta', devices')
            BY <1>0, <2>1, <3>1, ParentsMoreDevices
        <3>5. QED
            BY <1>0, <2>1, <2>3, <3>3, <3>4 DEF AInv
    <2>4. QED
        BY <2>2, <2>3
<1>4. CASE Mkfs
    <2>1. wtx # NoTx /\ wtx.phase = "mkfs"
        BY <1>4 DEF Mkfs
    <2>2. CASE wtx' = NoTx
        BY <1>0, <1>4, <2>1, <2>2, AInvDrop, PhaseUpdate DEF Mkfs, Rollback, TypeOK
    <2>3. CASE wtx' # NoTx
        <3>1. wtx' = [wtx EXCEPT !.phase = "commit"] /\ meta' = meta /\ devices' = devices
            BY <1>4, <2>3 DEF Mkfs, Rollback
        <3>2. CreatePending \/ RemovePending
            BY <1>0, <2>1
        <3>3. CreatePending => CreatePending'
            BY <1>0, <2>1, <3>1, PhaseKeep DEF CreatePending, TypeOK
        <3>4. RemovePending => RemovePending'
            BY <1>0, <3>1, PhaseKeep DEF RemovePending, TypeOK
        <3>5. QED
            BY <1>0, <2>3, <3>1, <3>2, <3>3, <3>4 DEF AInv
    <2>4. QED
        BY <2>2, <2>3
<1>5. ASSUME NEW k \in Keys, BeginRemove(k)
      PROVE  AInv'
    <2>1. /\ CanRemove(meta, k)
          /\ meta' = meta /\ devices' = devices
          /\ wtx' = [op |-> "remove", key |-> k, phase |-> "device",
                     data |-> RemoveRec(meta, k), id |-> meta.recs[k].id, pid |-> 0]
        BY <1>5 DEF BeginRemove
    <2>2. RemovePending'
        BY <2>1 DEF RemovePending
    <2>3. QED
        BY <1>0, <2>1, <2>2 DEF AInv
<1>6. CASE RemoveDevice
    <2>1. wtx # NoTx /\ wtx.op = "remove" /\ meta' = meta
        BY <1>6 DEF RemoveDevice, Rollback
    <2>2. RemovePending
        BY <1>0, <2>1 DEF CreatePending
    <2>3. CASE wtx' = NoTx
        BY <1>0, <1>6, <2>1, <2>3, AInvDrop, PhaseUpdate DEF RemoveDevice, Rollback, TypeOK
    <2>4. CASE wtx' # NoTx
        <3>1. devices' = devices \ {wtx.id} /\ wtx' = [wtx EXCEPT !.phase = "commit"]
            BY <1>6, <2>4 DEF RemoveDevice, Rollback
        <3>2. wtx.key \in Keys /\ HasRec(meta, wtx.key) /\ ~HasChildren(meta, wtx.key)
            BY <1>0, <2>1, <2>2 DEF RemovePending, CanRemove, TypeOK, Tx
        <3>3. ParentsOK(meta', devices')
            BY <1>0, <2>1, <2>2, <3>1, <3>2, ParentsRemoveDevice DEF RemovePending, TypeOK
        <3>4. RemovePending'
            BY <1>0, <2>1, <2>2, <3>1, PhaseKeep DEF RemovePending, TypeOK
        <3>5. QED
            BY <1>0, <2>1, <2>4, <3>3, <3>4 DEF AInv
    <2>5. QED
        BY <2>3, <2>4
<1>7. CASE CommitTx
    <2>1. wtx # NoTx /\ wtx.phase = "commit"
        BY <1>7 DEF CommitTx
    <2>2. CASE wtx' = NoTx /\ meta' = meta
        BY <1>0, <1>7, <2>2, AInvDrop DEF CommitTx, Rollback
    <2>3. CASE meta' = wtx.data /\ wtx' = NoTx /\ devices' = devices
        <3>1. CASE CreatePending
            <4>1. PICK p \in Keys \cup {NoKey} :
                      /\ CanCreate(meta, wtx.key, p)
                      /\ wtx.data = CreateRec(meta, wtx.op, wtx.key, p)
                      /\ wtx.pid = IF p = NoKey THEN 0 ELSE meta.recs[p].id
                      /\ wtx.phase # "device" /\ p # NoKey => wtx.pid \in devices
                BY <3>1 DEF CreatePending
            <4>2. wtx.op \in Kinds
                BY <3>1 DEF CreatePending, Kinds
            <4>7. wtx.key \in Keys
                BY <1>0, <2>1 DEF TypeOK, Tx
            <4>8. ~HasRec(meta, wtx.key)
                BY <4>1 DEF CanCreate
            <4>3. p # NoKey => meta.recs[p].id \in devices
                BY <2>1, <4>1
            <4>4. ParentsOK(meta', devices')
                BY <1>0, <2>3, <4>1, <4>2, <4>3, <4>7, <4>8, ParentsCreate DEF TypeOK
            <4>5. UniqueIDs(meta') /\ IDsBelowSeq(meta')
                BY <1>0, <2>3, <4>1, <4>2, <4>7, <4>8, CreateRecIDs DEF TypeOK
            <4>6. QED
                BY <1>0, <2>3, <4>4, <4>5 DEF AInv
        <3>2. CASE RemovePending
            <4>1. /\ wtx.key \in Keys /\ ~HasChildren(meta, wtx.key)
                  /\ meta' = RemoveRec(meta, wtx.key)
                BY <1>0, <2>1, <2>3, <3>2 DEF RemovePending, CanRemove, TypeOK, Tx
            <4>2. ParentsOK(meta', devices')
                BY <1>0, <2>3, <4>1, ParentsRemove DEF TypeOK
            <4>3. UniqueIDs(meta') /\ IDsBelowSeq(meta')
                BY <1>0, <4>1, RemoveRecIDs DEF TypeOK
            <4>4. QED
                BY <1>0, <2>3, <4>2, <4>3 DEF AInv
        <3>3. QED
            BY <1>0, <2>1, <3>1, <3>2
    <2>4. QED
        BY <1>7, <2>2, <2>3 DEF CommitTx, Rollback
<1>8. ASSUME NEW n \in Keys, NEW k \in Keys, Commit(n, k)
      PROVE  AInv'
    <2>1. /\ wtx = NoTx /\ CanCommitActive(meta, k, n)
          /\ meta' = CommitActiveRec(meta, k, n)
          /\ wtx' = wtx /\ devices' = devices
        BY <1>8 DEF Commit
    <2>2. ParentsOK(meta', devices')
        BY <1>0, <2>1, ParentsCommitActive DEF TypeOK
    <2>3. UniqueIDs(meta') /\ IDsBelowSeq(meta')
        BY <1>0, <2>1, CommitActiveRecIDs DEF TypeOK, CanCommitActive
    <2>4. QED
        BY <1>0, <2>1, <2>2, <2>3 DEF AInv
<1>9. CASE Close \/ UNCHANGED vars
    <2>1. meta' = meta /\ wtx' = wtx /\ devices' = devices
        BY <1>9 DEF Close, vars
    <2>2. QED
        BY <1>0, <2>1 DEF AInv, CreatePending, RemovePending
<1>10. CASE CrashRestart
    BY <1>0, <1>10, AInvDrop DEF CrashRestart
<1>11. QED
    BY <1>1, <1>2, <1>3, <1>4, <1>5, <1>6, <1>7, <1>8, <1>9, <1>10 DEF Next

(* Spec 3 and storage.Remove's children check: under every fault the      *)
(* model injects -- device-mapper, mkfs and bolt-commit failures, Close    *)
(* errors and any number of crashes -- every recorded snapshot's parent    *)
(* stays recorded and committed and keeps its thin device, so              *)
(* CreateSnapshotDevice from it and the child's mount keep working.        *)
THEOREM AncestorsKept == Spec => []AncestorsPresent
<1>1. AInv => AncestorsPresent
    BY DEF AInv, ParentsOK, AncestorsPresent
<1>2. QED
    BY <1>1, AInvInit, AInvStep, PTL DEF Spec

=============================================================================
