------------------------- MODULE SnapshotterProofs -------------------------
(***************************************************************************)
(* Proofs about Snapshotter for every value of its constants.              *)
(***************************************************************************)
EXTENDS Snapshotter, TLAPS

USE ConstantsAssumption

(* The sentinels are not records: NoRec is no MetaStore record and NoTx no *)
(* transaction, so HasRec and wtx # NoTx tell the cases apart.             *)
LEMMA SentinelsDistinct == NoRec \notin Rec /\ NoTx \notin Tx
  BY DEF NoRec, Rec, NoTx, Tx

(* The store operations used by the actions stay inside Store.             *)
LEMMA CreateRecType ==
  ASSUME NEW s \in Store, NEW kind \in {"active", "view"}, NEW key \in Keys,
         NEW parent \in Keys \cup {NoKey}, s.seq < MaxID
  PROVE  CreateRec(s, kind, key, parent) \in Store
  BY DEF CreateRec, Store, Rec, IDs, Kinds

LEMMA RemoveRecType ==
  ASSUME NEW s \in Store, NEW key \in Keys
  PROVE  RemoveRec(s, key) \in Store
  BY DEF RemoveRec, Store

LEMMA CommitActiveRecType ==
  ASSUME NEW s \in Store, NEW key \in Keys, NEW name \in Keys,
         HasRec(s, key)
  PROVE  CommitActiveRec(s, key, name) \in Store
  <1>1. s.recs[key] \in Rec
    BY SentinelsDistinct DEF HasRec, Store
  <1>2. [s.recs[key] EXCEPT !.kind = "committed"] \in Rec
    BY <1>1 DEF Rec, Kinds
  <1>3. QED
    BY <1>2 DEF CommitActiveRec, Store

(* The empty sequence is a sequence over any set.                          *)
LEMMA EmptySeq == ASSUME NEW S PROVE << >> \in Seq(S)
  OBVIOUS

-----------------------------------------------------------------------------
(* Type correctness.                                                       *)

(* The initial state is well typed.                                       *)
LEMMA TypeInit == Init => TypeOK
<1> SUFFICES ASSUME Init PROVE TypeOK
  OBVIOUS
<1>1. meta \in Store
  BY DEF Init, Store, NoRec
<1>2. closeResults \in Seq({"ok", "err"})
  BY EmptySeq DEF Init
<1>3. wtx \in Tx \cup {NoTx}
  BY DEF Init
<1>4. devices \subseteq IDs
  BY DEF Init
<1>5. closed \in BOOLEAN
  BY DEF Init
<1>6. crashes \in 0..MaxCrashes
  BY DEF Init
<1>7. QED
  BY <1>1, <1>2, <1>3, <1>4, <1>5, <1>6 DEF TypeOK

(* Every step of Next keeps the state well typed.                         *)
LEMMA TypeStep == TypeOK /\ [Next]_vars => TypeOK'
<1> SUFFICES ASSUME TypeOK, [Next]_vars PROVE TypeOK'
  OBVIOUS
<1> USE DEF TypeOK
<1>1. ASSUME NEW k \in Keys, NEW p \in Keys \cup {NoKey},
             NEW kind \in {"active", "view"}, BeginCreate(kind, k, p)
      PROVE  TypeOK'
  <2>1. CreateRec(meta, kind, k, p) \in Store
    BY <1>1, CreateRecType DEF BeginCreate, CanCreate
  <2>2. p # NoKey => meta.recs[p] \in Rec
    BY <1>1, SentinelsDistinct DEF BeginCreate, CanCreate, HasRec, Store
  <2>3. p # NoKey => meta.recs[p].id \in 0..MaxID
    BY <2>2 DEF Rec, IDs
  <2>4. CreateRec(meta, kind, k, p).seq \in IDs
    BY <1>1 DEF BeginCreate, CanCreate, CreateRec, Store, IDs
  <2>5. wtx' \in Tx
    BY <1>1, <2>1, <2>3, <2>4 DEF BeginCreate, Tx, Phases
  <2>6. QED
    BY <1>1, <2>5 DEF BeginCreate
<1>2. CASE CreateThinDevice
  BY <1>2 DEF CreateThinDevice, Rollback, Tx, Phases
<1>3. CASE CreateSnapshotDevice
  BY <1>3 DEF CreateSnapshotDevice, Rollback, Tx, Phases
<1>4. CASE Mkfs
  BY <1>4 DEF Mkfs, Rollback, Tx, Phases
<1>5. ASSUME NEW k \in Keys, BeginRemove(k)
      PROVE  TypeOK'
  <2>1. meta.recs[k] \in Rec
    BY <1>5, SentinelsDistinct DEF BeginRemove, CanRemove, HasRec, Store
  <2>2. RemoveRec(meta, k) \in Store
    BY RemoveRecType
  <2>3. wtx' \in Tx
    BY <1>5, <2>1, <2>2 DEF BeginRemove, Tx, Rec, IDs, Phases
  <2>4. QED
    BY <1>5, <2>3 DEF BeginRemove
<1>6. CASE RemoveDevice
  BY <1>6 DEF RemoveDevice, Rollback, Tx, Phases
<1>7. CASE CommitTx
  BY <1>7, SentinelsDistinct DEF CommitTx, Rollback, Tx
<1>8. ASSUME NEW n \in Keys, NEW k \in Keys, Commit(n, k)
      PROVE  TypeOK'
  BY <1>8, CommitActiveRecType DEF Commit, CanCommitActive
<1>9. CASE Close
  BY <1>9 DEF Close
<1>10. CASE CrashRestart
  <2>1. closeResults' \in Seq({"ok", "err"})
    BY <1>10, EmptySeq DEF CrashRestart
  <2>2. crashes' \in 0..MaxCrashes
    BY <1>10 DEF CrashRestart
  <2>3. closed' \in BOOLEAN /\ wtx' \in Tx \cup {NoTx}
    BY <1>10 DEF CrashRestart
  <2>4. QED
    BY <1>10, <2>1, <2>2, <2>3 DEF CrashRestart
<1>11. CASE UNCHANGED vars
  BY <1>11 DEF vars
<1>12. QED
  BY <1>1, <1>2, <1>3, <1>4, <1>5, <1>6, <1>7, <1>8, <1>9, <1>10, <1>11
     DEF Next

(* TypeOK holds in every reachable state.                                 *)
THEOREM TypeCorrect == Spec => []TypeOK
  BY TypeInit, TypeStep, PTL DEF Spec

-----------------------------------------------------------------------------
(* Devices and records agree.  The pool matches the MetaStore between      *)
(* operations only while no failure strikes after a device step: the       *)
(* theorem assumes that the faults are at most device-mapper refusals and  *)
(* Close errors (the mkfs, commit and crash faults break it, see the runs). *)

DeviceSafeFaults == Faults \subseteq {"dm", "close"}

(* No two records share an id, and every id is at most the sequence.       *)
UniqueIDs(s) ==
    \A k1, k2 \in Keys :
        HasRec(s, k1) /\ HasRec(s, k2) /\ s.recs[k1].id = s.recs[k2].id
            => k1 = k2

IDsBelowSeq(s) == \A k \in Keys : HasRec(s, k) => s.recs[k].id <= s.seq

(* A Prepare/View in flight: its private store is the committed one plus   *)
(* the new record, and the pool holds the new device once it is created.   *)
CreateInFlight ==
    /\ wtx.op \in {"active", "view"}
    /\ ~HasRec(meta, wtx.key)
    /\ meta.seq < MaxID
    /\ wtx.id = meta.seq + 1
    /\ \E p \in Keys \cup {NoKey} : wtx.data = CreateRec(meta, wtx.op, wtx.key, p)
    /\ wtx.phase = "device" => devices = RecIDs(meta)
    /\ wtx.phase # "device" => devices = RecIDs(meta) \cup {wtx.id}

(* A Remove in flight: its private store lacks the record, and the pool    *)
(* lacks the device once RemoveDevice succeeded.                           *)
RemoveInFlight ==
    /\ wtx.op = "remove"
    /\ HasRec(meta, wtx.key)
    /\ wtx.id = meta.recs[wtx.key].id
    /\ wtx.data = RemoveRec(meta, wtx.key)
    /\ wtx.phase \in {"device", "commit"}
    /\ wtx.phase = "device" => devices = RecIDs(meta)
    /\ wtx.phase = "commit" => devices = RecIDs(meta) \ {wtx.id}

(* What CreateRec, RemoveRec and CommitActiveRec do to the set of ids.     *)
LEMMA RecIDsCreate ==
  ASSUME NEW s \in Store, NEW kind \in Kinds, NEW key \in Keys,
         NEW p \in Keys \cup {NoKey}, ~HasRec(s, key)
  PROVE  RecIDs(CreateRec(s, kind, key, p)) = RecIDs(s) \cup {s.seq + 1}
  <1> DEFINE t == CreateRec(s, kind, key, p)
  <1>1. t.recs = [s.recs EXCEPT ![key] = [id |-> s.seq + 1, kind |-> kind,
                                          parent |-> p]]
    BY DEF CreateRec
  <1>2. HasRec(t, key) /\ t.recs[key].id = s.seq + 1
    BY <1>1 DEF HasRec, NoRec, Store
  <1>3. \A k \in Keys \ {key} : t.recs[k] = s.recs[k]
    BY <1>1 DEF Store
  <1>4. \A k \in Keys : HasRec(t, k) <=> (k = key \/ HasRec(s, k))
    BY <1>2, <1>3 DEF HasRec
  <1>5. QED
    BY <1>2, <1>3, <1>4 DEF RecIDs

LEMMA RecIDsRemove ==
  ASSUME NEW s \in Store, NEW key \in Keys, HasRec(s, key), UniqueIDs(s)
  PROVE  RecIDs(RemoveRec(s, key)) = RecIDs(s) \ {s.recs[key].id}
  <1> DEFINE t == RemoveRec(s, key)
  <1>1. t.recs = [s.recs EXCEPT ![key] = NoRec]
    BY DEF RemoveRec, Store
  <1>2. ~HasRec(t, key)
    BY <1>1 DEF HasRec, Store
  <1>3. \A k \in Keys \ {key} : t.recs[k] = s.recs[k]
    BY <1>1 DEF Store
  <1>4. \A k \in Keys : HasRec(t, k) <=> (k # key /\ HasRec(s, k))
    BY <1>2, <1>3 DEF HasRec
  <1>5. \A k \in Keys : HasRec(s, k) /\ k # key => s.recs[k].id # s.recs[key].id
    BY DEF UniqueIDs
  <1>6. QED
    BY <1>3, <1>4, <1>5 DEF RecIDs

LEMMA RecIDsCommitActive ==
  ASSUME NEW s \in Store, NEW key \in Keys, NEW name \in Keys,
         HasRec(s, key), ~HasRec(s, name)
  PROVE  RecIDs(CommitActiveRec(s, key, name)) = RecIDs(s)
  <1> DEFINE t == CommitActiveRec(s, key, name)
  <1>1. key # name
    OBVIOUS
  <1>2. s.recs[key] \in Rec
    BY SentinelsDistinct DEF HasRec, Store
  <1>3. t.recs = [s.recs EXCEPT ![name] = [s.recs[key] EXCEPT !.kind = "committed"],
                                ![key] = NoRec]
    BY DEF CommitActiveRec
  <1>4. HasRec(t, name) /\ t.recs[name].id = s.recs[key].id
    BY <1>1, <1>2, <1>3 DEF HasRec, NoRec, Rec, Store
  <1>5. ~HasRec(t, key)
    BY <1>1, <1>3 DEF HasRec, Store
  <1>6. \A k \in Keys \ {key, name} : t.recs[k] = s.recs[k]
    BY <1>3 DEF Store
  <1>7. \A k \in Keys : HasRec(t, k) <=> (k = name \/ (k # key /\ HasRec(s, k)))
    BY <1>4, <1>5, <1>6 DEF HasRec
  <1>8. QED
    BY <1>4, <1>6, <1>7 DEF RecIDs

(* The store operations keep ids unique and below the sequence.            *)
LEMMA CreateRecIDs ==
  ASSUME NEW s \in Store, NEW kind \in Kinds, NEW key \in Keys,
         NEW p \in Keys \cup {NoKey}, ~HasRec(s, key),
         UniqueIDs(s), IDsBelowSeq(s)
  PROVE  UniqueIDs(CreateRec(s, kind, key, p)) /\ IDsBelowSeq(CreateRec(s, kind, key, p))
  <1> DEFINE t == CreateRec(s, kind, key, p)
  <1>1. t.recs = [s.recs EXCEPT ![key] = [id |-> s.seq + 1, kind |-> kind,
                                          parent |-> p]]
        /\ t.seq = s.seq + 1
    BY DEF CreateRec
  <1>2. HasRec(t, key) /\ t.recs[key].id = s.seq + 1
    BY <1>1 DEF HasRec, NoRec, Store
  <1>3. \A k \in Keys \ {key} : t.recs[k] = s.recs[k]
    BY <1>1 DEF Store
  <1>4. \A k \in Keys : HasRec(s, k) => s.recs[k].id \in Nat /\ s.recs[k].id <= s.seq
    BY SentinelsDistinct DEF IDsBelowSeq, HasRec, Store, Rec, IDs
  <1>5. s.seq \in Nat
    BY DEF Store
  <1>6. UniqueIDs(t)
    BY <1>2, <1>3, <1>4, <1>5 DEF UniqueIDs, HasRec
  <1>7. IDsBelowSeq(t)
    BY <1>1, <1>2, <1>3, <1>4, <1>5 DEF IDsBelowSeq, HasRec
  <1>8. QED
    BY <1>6, <1>7

LEMMA RemoveRecIDs ==
  ASSUME NEW s \in Store, NEW key \in Keys, UniqueIDs(s), IDsBelowSeq(s)
  PROVE  UniqueIDs(RemoveRec(s, key)) /\ IDsBelowSeq(RemoveRec(s, key))
  <1> DEFINE t == RemoveRec(s, key)
  <1>1. t.recs = [s.recs EXCEPT ![key] = NoRec] /\ t.seq = s.seq
    BY DEF RemoveRec, Store
  <1>2. ~HasRec(t, key)
    BY <1>1 DEF HasRec, Store
  <1>3. \A k \in Keys \ {key} : t.recs[k] = s.recs[k]
    BY <1>1 DEF Store
  <1>4. QED
    BY <1>1, <1>2, <1>3 DEF UniqueIDs, IDsBelowSeq, HasRec

LEMMA CommitActiveRecIDs ==
  ASSUME NEW s \in Store, NEW key \in Keys, NEW name \in Keys,
         HasRec(s, key), ~HasRec(s, name), UniqueIDs(s), IDsBelowSeq(s)
  PROVE  UniqueIDs(CommitActiveRec(s, key, name))
         /\ IDsBelowSeq(CommitActiveRec(s, key, name))
  <1> DEFINE t == CommitActiveRec(s, key, name)
  <1>1. key # name
    OBVIOUS
  <1>2. s.recs[key] \in Rec
    BY SentinelsDistinct DEF HasRec, Store
  <1>3. t.recs = [s.recs EXCEPT ![name] = [s.recs[key] EXCEPT !.kind = "committed"],
                                ![key] = NoRec]
        /\ t.seq = s.seq
    BY DEF CommitActiveRec
  <1>4. HasRec(t, name) /\ t.recs[name].id = s.recs[key].id
    BY <1>1, <1>2, <1>3 DEF HasRec, NoRec, Rec, Store
  <1>5. ~HasRec(t, key)
    BY <1>1, <1>3 DEF HasRec, Store
  <1>6. \A k \in Keys \ {key, name} : t.recs[k] = s.recs[k]
    BY <1>3 DEF Store
  <1>7. UniqueIDs(t)
    BY <1>4, <1>5, <1>6 DEF UniqueIDs, HasRec
  <1>8. IDsBelowSeq(t)
    BY <1>3, <1>4, <1>5, <1>6 DEF IDsBelowSeq, HasRec
  <1>9. QED
    BY <1>7, <1>8

(* The inductive strengthening of DevicesMatchRecords.                     *)
IInv ==
    /\ TypeOK
    /\ UniqueIDs(meta)
    /\ IDsBelowSeq(meta)
    /\ wtx = NoTx => devices = RecIDs(meta)
    /\ wtx # NoTx => CreateInFlight \/ RemoveInFlight

(* A transaction with a new phase is still no NoTx.                       *)
LEMMA PhaseUpdate ==
  ASSUME NEW t \in Tx, NEW ph
  PROVE  [t EXCEPT !.phase = ph] # NoTx
  BY DEF Tx, NoTx

(* The strengthening holds initially.                                      *)
LEMMA IInvInit == Init => IInv
<1> SUFFICES ASSUME Init PROVE IInv
  OBVIOUS
<1>1. TypeOK
  BY TypeInit
<1>2. \A k \in Keys : ~HasRec(meta, k)
  BY DEF Init, HasRec
<1>3. RecIDs(meta) = {}
  BY <1>2 DEF RecIDs
<1>4. QED
  BY <1>1, <1>2, <1>3 DEF Init, IInv, UniqueIDs, IDsBelowSeq

(* A step that leaves meta alone keeps the conditions on the ids.          *)
LEMMA IDsUnchanged ==
  ASSUME UniqueIDs(meta), IDsBelowSeq(meta), meta' = meta
  PROVE  UniqueIDs(meta') /\ IDsBelowSeq(meta')
  OBVIOUS

(* Every step keeps the strengthening, when the only faults are            *)
(* device-mapper refusals and Close errors.                                *)
LEMMA IInvStep ==
  ASSUME DeviceSafeFaults
  PROVE  IInv /\ [Next]_vars => IInv'
<1> SUFFICES ASSUME IInv, [Next]_vars PROVE IInv'
  OBVIOUS
<1>0. /\ TypeOK /\ TypeOK'
      /\ UniqueIDs(meta) /\ IDsBelowSeq(meta)
      /\ wtx = NoTx => devices = RecIDs(meta)
      /\ wtx # NoTx => CreateInFlight \/ RemoveInFlight
  BY TypeStep DEF IInv
<1>f. "mkfs" \notin Faults /\ "commit" \notin Faults /\ "crash" \notin Faults
  BY DEF DeviceSafeFaults
<1>1. ASSUME NEW k \in Keys, NEW p \in Keys \cup {NoKey},
             NEW kind \in {"active", "view"}, BeginCreate(kind, k, p)
      PROVE  IInv'
  <2>1. /\ wtx = NoTx /\ CanCreate(meta, k, p)
        /\ meta' = meta /\ devices' = devices
        /\ wtx' = [op |-> kind, key |-> k, phase |-> "device",
                   data |-> CreateRec(meta, kind, k, p),
                   id |-> meta.seq + 1,
                   pid |-> IF p = NoKey THEN 0 ELSE meta.recs[p].id]
    BY <1>1 DEF BeginCreate, CreateRec
  <2>2. devices' = RecIDs(meta')
    BY <2>1, <1>0
  <2>3. CreateInFlight'
    BY <2>1, <2>2 DEF CreateInFlight, CanCreate
  <2>4. wtx' # NoTx
    BY <2>1 DEF NoTx
  <2>5. QED
    BY <1>0, <2>1, <2>3, <2>4, IDsUnchanged DEF IInv
<1>2. CASE CreateThinDevice
  <2>1. wtx # NoTx /\ wtx.op \in {"active", "view"} /\ wtx.phase = "device"
    BY <1>2 DEF CreateThinDevice
  <2>2. CreateInFlight
    BY <1>0, <2>1 DEF RemoveInFlight
  <2>3. meta' = meta
    BY <1>2 DEF CreateThinDevice, Rollback
  <2>4. CASE wtx' = NoTx
    <3>1. devices' = devices
      BY <1>2, <2>1, <2>4, <1>0, PhaseUpdate DEF CreateThinDevice, Rollback, TypeOK
    <3>2. QED
      BY <1>0, <2>1, <2>2, <2>3, <2>4, <3>1, IDsUnchanged DEF IInv, CreateInFlight
  <2>5. CASE wtx' # NoTx
    <3>1. devices' = devices \cup {wtx.id} /\ wtx' = [wtx EXCEPT !.phase = "mkfs"]
      BY <1>2, <2>5 DEF CreateThinDevice, Rollback
    <3>2. CreateInFlight'
      BY <2>1, <2>2, <2>3, <3>1 DEF CreateInFlight
    <3>3. QED
      BY <1>0, <2>3, <2>5, <3>2, IDsUnchanged DEF IInv
  <2>6. QED
    BY <2>4, <2>5
<1>3. CASE CreateSnapshotDevice
  <2>1. wtx # NoTx /\ wtx.op \in {"active", "view"} /\ wtx.phase = "device"
    BY <1>3 DEF CreateSnapshotDevice
  <2>2. CreateInFlight
    BY <1>0, <2>1 DEF RemoveInFlight
  <2>3. meta' = meta
    BY <1>3 DEF CreateSnapshotDevice, Rollback
  <2>4. CASE wtx' = NoTx
    <3>1. devices' = devices
      BY <1>3, <2>1, <2>4, <1>0, PhaseUpdate DEF CreateSnapshotDevice, Rollback, TypeOK
    <3>2. QED
      BY <1>0, <2>1, <2>2, <2>3, <2>4, <3>1, IDsUnchanged DEF IInv, CreateInFlight
  <2>5. CASE wtx' # NoTx
    <3>1. devices' = devices \cup {wtx.id} /\ wtx' = [wtx EXCEPT !.phase = "commit"]
      BY <1>3, <2>5 DEF CreateSnapshotDevice, Rollback
    <3>2. CreateInFlight'
      BY <2>1, <2>2, <2>3, <3>1 DEF CreateInFlight
    <3>3. QED
      BY <1>0, <2>3, <2>5, <3>2, IDsUnchanged DEF IInv
  <2>6. QED
    BY <2>4, <2>5
<1>4. CASE Mkfs
  <2>1. wtx # NoTx /\ wtx.phase = "mkfs"
    BY <1>4 DEF Mkfs
  <2>2. CreateInFlight
    BY <1>0, <2>1 DEF RemoveInFlight
  <2>3. wtx' = [wtx EXCEPT !.phase = "commit"] /\ meta' = meta /\ devices' = devices
    BY <1>4, <1>f DEF Mkfs
  <2>4. CreateInFlight'
    BY <2>1, <2>2, <2>3 DEF CreateInFlight
  <2>5. wtx' # NoTx
    BY <1>0, <2>1, <2>3, PhaseUpdate DEF TypeOK
  <2>6. QED
    BY <1>0, <2>3, <2>4, <2>5, IDsUnchanged DEF IInv
<1>5. ASSUME NEW k \in Keys, BeginRemove(k)
      PROVE  IInv'
  <2>1. /\ wtx = NoTx /\ CanRemove(meta, k)
        /\ meta' = meta /\ devices' = devices
        /\ wtx' = [op |-> "remove", key |-> k, phase |-> "device",
                   data |-> RemoveRec(meta, k), id |-> meta.recs[k].id, pid |-> 0]
    BY <1>5 DEF BeginRemove
  <2>2. devices' = RecIDs(meta')
    BY <2>1, <1>0
  <2>3. RemoveInFlight'
    BY <2>1, <2>2 DEF RemoveInFlight, CanRemove
  <2>4. wtx' # NoTx
    BY <2>1 DEF NoTx
  <2>5. QED
    BY <1>0, <2>1, <2>3, <2>4, IDsUnchanged DEF IInv
<1>6. CASE RemoveDevice
  <2>1. wtx # NoTx /\ wtx.op = "remove" /\ wtx.phase = "device"
    BY <1>6 DEF RemoveDevice
  <2>2. RemoveInFlight
    BY <1>0, <2>1 DEF CreateInFlight
  <2>3. meta' = meta
    BY <1>6 DEF RemoveDevice, Rollback
  <2>4. CASE wtx' = NoTx
    <3>1. devices' = devices
      BY <1>6, <2>1, <2>4, <1>0, PhaseUpdate DEF RemoveDevice, Rollback, TypeOK
    <3>2. QED
      BY <1>0, <2>1, <2>2, <2>3, <2>4, <3>1, IDsUnchanged DEF IInv, RemoveInFlight
  <2>5. CASE wtx' # NoTx
    <3>1. devices' = devices \ {wtx.id} /\ wtx' = [wtx EXCEPT !.phase = "commit"]
      BY <1>6, <2>5 DEF RemoveDevice, Rollback
    <3>2. RemoveInFlight'
      BY <2>1, <2>2, <2>3, <3>1 DEF RemoveInFlight
    <3>3. QED
      BY <1>0, <2>3, <2>5, <3>2, IDsUnchanged DEF IInv
  <2>6. QED
    BY <2>4, <2>5
<1>7. CASE CommitTx
  <2>1. wtx # NoTx /\ wtx.phase = "commit"
        /\ meta' = wtx.data /\ wtx' = NoTx /\ devices' = devices
    BY <1>7, <1>f DEF CommitTx
  <2>2. CASE CreateInFlight
    <3>1. PICK q \in Keys \cup {NoKey} : wtx.data = CreateRec(meta, wtx.op, wtx.key, q)
      BY <2>2 DEF CreateInFlight
    <3>2. devices = RecIDs(meta) \cup {meta.seq + 1}
      BY <2>1, <2>2 DEF CreateInFlight
    <3>3. wtx.op \in Kinds /\ wtx.key \in Keys /\ ~HasRec(meta, wtx.key)
      BY <1>0, <2>1, <2>2 DEF CreateInFlight, Kinds, TypeOK, Tx
    <3>4. RecIDs(meta') = RecIDs(meta) \cup {meta.seq + 1}
      BY <1>0, <2>1, <3>1, <3>3, RecIDsCreate DEF TypeOK
    <3>5. UniqueIDs(meta') /\ IDsBelowSeq(meta')
      BY <1>0, <2>1, <3>1, <3>3, CreateRecIDs DEF TypeOK
    <3>6. QED
      BY <1>0, <2>1, <3>2, <3>4, <3>5 DEF IInv
  <2>3. CASE RemoveInFlight
    <3>1. devices = RecIDs(meta) \ {meta.recs[wtx.key].id}
      BY <2>1, <2>3 DEF RemoveInFlight
    <3>2. wtx.key \in Keys /\ HasRec(meta, wtx.key) /\ meta' = RemoveRec(meta, wtx.key)
      BY <1>0, <2>1, <2>3 DEF RemoveInFlight, TypeOK, Tx
    <3>3. RecIDs(meta') = RecIDs(meta) \ {meta.recs[wtx.key].id}
      BY <1>0, <3>2, RecIDsRemove DEF TypeOK
    <3>4. UniqueIDs(meta') /\ IDsBelowSeq(meta')
      BY <1>0, <3>2, RemoveRecIDs DEF TypeOK
    <3>5. QED
      BY <1>0, <2>1, <3>1, <3>3, <3>4 DEF IInv
  <2>4. QED
    BY <1>0, <2>1, <2>2, <2>3
<1>8. ASSUME NEW n \in Keys, NEW k \in Keys, Commit(n, k)
      PROVE  IInv'
  <2>1. /\ wtx = NoTx /\ CanCommitActive(meta, k, n)
        /\ meta' = CommitActiveRec(meta, k, n)
        /\ wtx' = wtx /\ devices' = devices
    BY <1>8 DEF Commit
  <2>2. RecIDs(meta') = RecIDs(meta)
    BY <1>0, <2>1, RecIDsCommitActive DEF TypeOK, CanCommitActive
  <2>3. UniqueIDs(meta') /\ IDsBelowSeq(meta')
    BY <1>0, <2>1, CommitActiveRecIDs DEF TypeOK, CanCommitActive
  <2>4. QED
    BY <1>0, <2>1, <2>2, <2>3 DEF IInv
<1>9. CASE Close
  <2>1. meta' = meta /\ wtx' = wtx /\ devices' = devices
    BY <1>9 DEF Close
  <2>2. QED
    BY <1>0, <2>1, IDsUnchanged DEF IInv, CreateInFlight, RemoveInFlight
<1>10. CASE CrashRestart
  BY <1>10, <1>f DEF CrashRestart
<1>11. CASE UNCHANGED vars
  <2>1. meta' = meta /\ wtx' = wtx /\ devices' = devices
    BY <1>11 DEF vars
  <2>2. QED
    BY <1>0, <2>1, IDsUnchanged DEF IInv, CreateInFlight, RemoveInFlight
<1>12. QED
  BY <1>1, <1>2, <1>3, <1>4, <1>5, <1>6, <1>7, <1>8, <1>9, <1>10, <1>11
     DEF Next

(* Section 3 of the spec, for the snapshotter: when no operation is in     *)
(* flight the pool holds exactly the devices of the recorded snapshots,    *)
(* for every key set and id bound, provided no mkfs, bolt-commit or crash  *)
(* failure strikes after a device step (withTransaction, createSnapshot,   *)
(* removeDevice).                                                          *)
THEOREM DevicesMatch ==
  ASSUME DeviceSafeFaults
  PROVE  Spec => []DevicesMatchRecords
<1>1. IInv => DevicesMatchRecords
  BY DEF IInv, DevicesMatchRecords
<1>2. QED
  BY <1>1, IInvInit, IInvStep, PTL DEF Spec

=============================================================================
