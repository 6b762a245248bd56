------------------------- MODULE DevmapperV1Proofs -------------------------
(***************************************************************************)
(* Proofs about DevmapperV1 for every value of its constants: it is well   *)
(* typed, and when the bolt commit does not fail it implements the         *)
(* SnapshotStore contract under the refinement mapping StoreView and every *)
(* successful Prepare or View leaves its thin device in the pool.          *)
(***************************************************************************)
EXTENDS DevmapperV1, TLAPS

USE V1Assumption

(* The sentinels are not records: NoRec is no MetaStore record and NoTx no *)
(* transaction.                                                            *)
LEMMA V1SentinelsDistinct == S!NoRec \notin S!Rec /\ NoTx \notin S!Tx
  BY DEF S!NoRec, S!Rec, NoTx, S!NoTx, S!Tx

(* The store operations stay inside Store.                                 *)
LEMMA V1CreateRecType ==
  ASSUME NEW s \in S!Store, NEW kind \in {"active", "view"}, NEW key \in Keys,
         NEW parent \in Keys \cup {NoKey}, s.seq < MaxID
  PROVE  S!CreateRec(s, kind, key, parent) \in S!Store
  BY DEF S!CreateRec, S!Store, S!Rec, S!IDs, S!Kinds

LEMMA V1RemoveRecType ==
  ASSUME NEW s \in S!Store, NEW key \in Keys
  PROVE  S!RemoveRec(s, key) \in S!Store
  BY DEF S!RemoveRec, S!Store

LEMMA V1CommitActiveRecType ==
  ASSUME NEW s \in S!Store, NEW key \in Keys, NEW name \in Keys,
         S!HasRec(s, key)
  PROVE  S!CommitActiveRec(s, key, name) \in S!Store
  <1>1. s.recs[key] \in S!Rec
    BY V1SentinelsDistinct DEF S!HasRec, S!Store
  <1>2. [s.recs[key] EXCEPT !.kind = "committed"] \in S!Rec
    BY <1>1 DEF S!Rec, S!Kinds
  <1>3. QED
    BY <1>2 DEF S!CommitActiveRec, S!Store

-----------------------------------------------------------------------------
(* How each store operation changes what a caller sees (ViewOf).           *)

(* A key has a snapshot in the view exactly when the store records it.     *)
LEMMA ViewHas ==
  ASSUME NEW s \in S!Store, NEW k \in Keys
  PROVE  /\ ViewOf(s)[k] # [none |-> TRUE] <=> S!HasRec(s, k)
         /\ S!HasRec(s, k) =>
              ViewOf(s)[k] = [kind |-> s.recs[k].kind,
                              parent |-> s.recs[k].parent]
  BY DEF ViewOf

(* The view shows the kind and parent of a recorded snapshot.            *)
LEMMA ViewFields ==
  ASSUME NEW s \in S!Store, NEW k \in Keys, S!HasRec(s, k)
  PROVE  /\ ViewOf(s)[k].kind = s.recs[k].kind
         /\ ViewOf(s)[k].parent = s.recs[k].parent
  BY DEF ViewOf

(* storage.CreateSnapshot adds the new key with its kind and parent.       *)
LEMMA ViewCreate ==
  ASSUME NEW s \in S!Store, NEW kind \in {"active", "view"}, NEW key \in Keys,
         NEW parent \in Keys \cup {NoKey}
  PROVE  ViewOf(S!CreateRec(s, kind, key, parent))
           = [ViewOf(s) EXCEPT ![key] = [kind |-> kind, parent |-> parent]]
  BY DEF ViewOf, S!CreateRec, S!HasRec, S!NoRec, S!Store

(* storage.Remove drops the key.                                           *)
LEMMA ViewRemove ==
  ASSUME NEW s \in S!Store, NEW key \in Keys
  PROVE  ViewOf(S!RemoveRec(s, key)) = [ViewOf(s) EXCEPT ![key] = [none |-> TRUE]]
  BY DEF ViewOf, S!RemoveRec, S!HasRec, S!Store

(* storage.CommitActive moves the active key to name, now committed.       *)
LEMMA ViewCommit ==
  ASSUME NEW s \in S!Store, NEW key \in Keys, NEW name \in Keys,
         S!HasRec(s, key), ~S!HasRec(s, name)
  PROVE  ViewOf(S!CommitActiveRec(s, key, name))
           = [ViewOf(s) EXCEPT ![name] = [ViewOf(s)[key] EXCEPT !.kind = "committed"],
                               ![key] = [none |-> TRUE]]
  <1>1. key # name
    OBVIOUS
  <1>2. s.recs[key] \in S!Rec
    BY V1SentinelsDistinct DEF S!HasRec, S!Store
  <1>3. [s.recs[key] EXCEPT !.kind = "committed"] # S!NoRec
    BY <1>2 DEF S!Rec, S!NoRec
  <1>4. QED
    BY <1>1, <1>2, <1>3 DEF ViewOf, S!CommitActiveRec, S!HasRec, S!Store, S!Rec

(* A transaction whose phase advances is still a transaction.              *)
LEMMA V1PhaseUpdate ==
  ASSUME NEW t \in S!Tx, NEW ph \in S!Phases
  PROVE  [t EXCEPT !.phase = ph] \in S!Tx
  BY DEF S!Tx

(* complete(err) leaves a well-typed state: no transaction, and an answer  *)
(* naming the transaction's operation and key.                             *)
LEMMA V1AbortType ==
  ASSUME TypeOK, wtx # NoTx, Abort
  PROVE  TypeOK'
  <1>1. wtx \in S!Tx
    BY DEF TypeOK
  <1>2. reply' \in [op : {"active", "view", "commit", "remove"}, key : Keys,
                    ok : BOOLEAN]
    BY <1>1 DEF Abort, Answer, S!Tx
  <1>3. QED
    BY <1>2 DEF Abort, TypeOK

-----------------------------------------------------------------------------
(* Type correctness.                                                       *)

(* The initial state is well typed.                                       *)
LEMMA V1TypeInit == Init => TypeOK
<1> SUFFICES ASSUME Init PROVE TypeOK
  OBVIOUS
<1>1. meta \in S!Store
  BY DEF Init, S!Store, S!NoRec
<1>2. wtx \in S!Tx \cup {NoTx} /\ devices \subseteq S!IDs /\ closed \in BOOLEAN
  BY DEF Init
<1>3. reply \in [op : {"active", "view", "commit", "remove"}, key : Keys,
                 ok : BOOLEAN] \cup {[none |-> TRUE]}
  BY DEF Init
<1>4. QED
  BY <1>1, <1>2, <1>3 DEF TypeOK

(* Every step of Next keeps the state well typed.                         *)
LEMMA V1TypeStep == TypeOK /\ [Next]_vars => TypeOK'
<1> SUFFICES ASSUME TypeOK, [Next]_vars PROVE TypeOK'
  OBVIOUS
<1> USE DEF TypeOK
<1>1. ASSUME NEW k \in Keys, NEW p \in Keys \cup {NoKey},
             NEW kind \in {"active", "view"}, createSnapshot(kind, k, p)
      PROVE  TypeOK'
  <2>1. CASE ~closed /\ S!CanCreate(meta, k, p)
    <3>1. S!CreateRec(meta, kind, k, p) \in S!Store
      BY <2>1, V1CreateRecType DEF S!CanCreate
    <3>2. p # NoKey => meta.recs[p] \in S!Rec
      BY <2>1, V1SentinelsDistinct DEF S!CanCreate, S!HasRec, S!Store
    <3>3. p # NoKey => meta.recs[p].id \in 0..MaxID
      BY <3>2 DEF S!Rec, S!IDs
    <3>4. meta.seq + 1 \in S!IDs
      BY <2>1 DEF S!CanCreate, S!Store, S!IDs
    <3>5. wtx' \in S!Tx
      BY <1>1, <2>1, <3>1, <3>3, <3>4 DEF createSnapshot, S!Tx, S!Phases
    <3>6. QED
      BY <1>1, <2>1, <3>5 DEF createSnapshot
  <2>2. CASE ~(~closed /\ S!CanCreate(meta, k, p))
    <3>1. reply' = [op |-> kind, key |-> k, ok |-> FALSE]
      BY <1>1, <2>2 DEF createSnapshot, Answer
    <3>2. UNCHANGED <<meta, wtx, devices, closed>>
      BY <1>1, <2>2 DEF createSnapshot
    <3>3. QED
      BY <3>1, <3>2
  <2>3. QED
    BY <2>1, <2>2
<1>0. wtx # NoTx => wtx \in S!Tx
  OBVIOUS
<1>2. CASE CreateThinDevice
  <2>1. wtx \in S!Tx
    BY <1>0, <1>2 DEF CreateThinDevice
  <2>2. [wtx EXCEPT !.phase = "mkfs"] \in S!Tx /\ wtx.id \in S!IDs
    BY <2>1, V1PhaseUpdate DEF S!Phases, S!Tx
  <2>3. QED
    BY <1>2, <2>2, V1AbortType DEF CreateThinDevice
<1>3. CASE Mkfs
  <2>1. [wtx EXCEPT !.phase = "commit"] \in S!Tx
    BY <1>0, <1>3, V1PhaseUpdate DEF Mkfs, S!Phases
  <2>2. QED
    BY <1>3, <2>1, V1AbortType DEF Mkfs
<1>4. CASE CreateSnapshotDevice
  <2>1. wtx \in S!Tx
    BY <1>0, <1>4 DEF CreateSnapshotDevice
  <2>2. [wtx EXCEPT !.phase = "commit"] \in S!Tx /\ wtx.id \in S!IDs
    BY <2>1, V1PhaseUpdate DEF S!Phases, S!Tx
  <2>3. QED
    BY <1>4, <2>2, V1AbortType DEF CreateSnapshotDevice
<1>5. CASE Finish
  <2>1. wtx \in S!Tx
    BY <1>0, <1>5 DEF Finish
  <2>2. wtx.data \in S!Store
    BY <2>1 DEF S!Tx
  <2>3. reply' \in [op : {"active", "view", "commit", "remove"}, key : Keys,
                    ok : BOOLEAN]
    BY <1>5, <2>1 DEF Finish, Complete, Answer, S!Tx
  <2>4. QED
    BY <1>5, <2>2, <2>3 DEF Finish, Complete
<1>6. ASSUME NEW n \in Keys, NEW k \in Keys, Commit(n, k)
      PROVE  TypeOK'
  <2>1. meta' \in S!Store
    BY <1>6, V1CommitActiveRecType DEF Commit, S!CanCommitActive
  <2>2. QED
    BY <1>6, <2>1 DEF Commit, Answer
<1>7. ASSUME NEW k \in Keys, Remove(k)
      PROVE  TypeOK'
  <2>1. CASE ~closed /\ S!CanRemove(meta, k)
    <3>1. meta.recs[k] \in S!Rec
      BY <2>1, V1SentinelsDistinct DEF S!CanRemove, S!HasRec, S!Store
    <3>2. S!RemoveRec(meta, k) \in S!Store
      BY V1RemoveRecType
    <3>3. wtx' \in S!Tx
      BY <1>7, <2>1, <3>1, <3>2 DEF Remove, S!Tx, S!Rec, S!IDs, S!Phases
    <3>4. QED
      BY <1>7, <2>1, <3>3 DEF Remove
  <2>2. CASE ~(~closed /\ S!CanRemove(meta, k))
    <3>1. reply' = [op |-> "remove", key |-> k, ok |-> FALSE]
      BY <1>7, <2>2 DEF Remove, Answer
    <3>2. UNCHANGED <<meta, wtx, devices, closed>>
      BY <1>7, <2>2 DEF Remove
    <3>3. QED
      BY <3>1, <3>2
  <2>3. QED
    BY <2>1, <2>2
<1>8. CASE RemoveDevice
  <2>1. [wtx EXCEPT !.phase = "commit"] \in S!Tx
    BY <1>0, <1>8, V1PhaseUpdate DEF RemoveDevice, S!Phases
  <2>2. QED
    BY <1>8, <2>1, V1AbortType DEF RemoveDevice
<1>9. CASE Close
  BY <1>9 DEF Close
<1>10. CASE UNCHANGED vars
  BY <1>10 DEF vars
<1>11. QED
  BY <1>1, <1>2, <1>3, <1>4, <1>5, <1>6, <1>7, <1>8, <1>9, <1>10
     DEF Next, Prepare, View

(* TypeOK holds in every reachable state of the legacy snapshotter.        *)
THEOREM V1TypeCorrect == Spec => []TypeOK
  BY V1TypeInit, V1TypeStep, PTL DEF Spec

-----------------------------------------------------------------------------
(* Refinement of SnapshotStore.  A Prepare or Remove answers success at    *)
(* Finish, long after storage.CreateSnapshot or storage.Remove checked its *)
(* preconditions; the step maps to the abstract Create or Remove only      *)
(* because the store those checks read is still the committed one.  That  *)
(* is the invariant TxMatchesStore: the open transaction's private store   *)
(* is the committed store changed by its one operation, whose              *)
(* precondition holds of the committed store (bolt's single writer keeps  *)
(* every other mutation out until the transaction ends).                  *)

TxMatches(t, m) ==
    t # NoTx =>
        /\ t.op \in {"active", "view"} =>
             \E p \in Keys \cup {NoKey} :
                /\ S!CanCreate(m, t.key, p)
                /\ t.data = S!CreateRec(m, t.op, t.key, p)
        /\ t.op = "remove" =>
             S!CanRemove(m, t.key) /\ t.data = S!RemoveRec(m, t.key)

TxMatchesStore == TxMatches(wtx, meta)

IInv == TypeOK /\ TxMatchesStore

(* The device and mkfs steps only advance the phase of the transaction.    *)
LEMMA TxMatchesPhase ==
  ASSUME NEW t \in S!Tx, NEW m, NEW ph, TxMatches(t, m)
  PROVE  TxMatches([t EXCEPT !.phase = ph], m)
  <1>1. /\ [t EXCEPT !.phase = ph].op = t.op
        /\ [t EXCEPT !.phase = ph].key = t.key
        /\ [t EXCEPT !.phase = ph].data = t.data
        /\ [t EXCEPT !.phase = ph] # NoTx
    BY DEF S!Tx, NoTx, S!NoTx
  <1>2. t # NoTx
    BY V1SentinelsDistinct
  <1>3. QED
    BY <1>1, <1>2 DEF TxMatches

LEMMA TxMatchesNone == ASSUME NEW m PROVE TxMatches(NoTx, m)
  BY DEF TxMatches

LEMMA IInvInit == Init => IInv
  BY V1TypeInit, TxMatchesNone DEF IInv, TxMatchesStore, Init

LEMMA IInvStep == IInv /\ [Next]_vars => IInv'
<1> SUFFICES ASSUME IInv, [Next]_vars PROVE IInv'
  OBVIOUS
<1>0. TypeOK' /\ TypeOK
  BY V1TypeStep DEF IInv
<1>1. wtx # NoTx => wtx \in S!Tx /\ TxMatches(wtx, meta)
  BY DEF IInv, TypeOK, TxMatchesStore
<1> SUFFICES TxMatches(wtx', meta')
  BY <1>0 DEF IInv, TxMatchesStore
<1>2. ASSUME NEW k \in Keys, NEW p \in Keys \cup {NoKey},
             NEW kind \in {"active", "view"}, createSnapshot(kind, k, p)
      PROVE  TxMatches(wtx', meta')
  <2>1. CASE ~closed /\ S!CanCreate(meta, k, p)
    <3>1. wtx' # NoTx /\ wtx'.op = kind /\ wtx'.key = k
          /\ wtx'.data = S!CreateRec(meta, kind, k, p) /\ meta' = meta
      BY <1>2, <2>1 DEF createSnapshot, NoTx, S!NoTx
    <3>2. QED
      BY <2>1, <3>1 DEF TxMatches
  <2>2. CASE ~(~closed /\ S!CanCreate(meta, k, p))
    BY <1>2, <2>2, TxMatchesNone DEF createSnapshot
  <2>3. QED
    BY <2>1, <2>2
<1>3. ASSUME NEW k \in Keys, Remove(k)
      PROVE  TxMatches(wtx', meta')
  <2>1. CASE ~closed /\ S!CanRemove(meta, k)
    <3>1. wtx' # NoTx /\ wtx'.op = "remove" /\ wtx'.key = k
          /\ wtx'.data = S!RemoveRec(meta, k) /\ meta' = meta
      BY <1>3, <2>1 DEF Remove, NoTx, S!NoTx
    <3>2. QED
      BY <2>1, <3>1 DEF TxMatches
  <2>2. CASE ~(~closed /\ S!CanRemove(meta, k))
    BY <1>3, <2>2, TxMatchesNone DEF Remove
  <2>3. QED
    BY <2>1, <2>2
<1>4. CASE CreateThinDevice
  <2>1. wtx \in S!Tx /\ TxMatches(wtx, meta)
    BY <1>1, <1>4 DEF CreateThinDevice
  <2>2. TxMatches([wtx EXCEPT !.phase = "mkfs"], meta)
    BY <2>1, TxMatchesPhase
  <2>3. QED
    BY <1>4, <2>2, TxMatchesNone DEF CreateThinDevice, Abort
<1>5. CASE Mkfs
  <2>1. wtx \in S!Tx /\ TxMatches(wtx, meta)
    BY <1>1, <1>5 DEF Mkfs
  <2>2. TxMatches([wtx EXCEPT !.phase = "commit"], meta)
    BY <2>1, TxMatchesPhase
  <2>3. QED
    BY <1>5, <2>2, TxMatchesNone DEF Mkfs, Abort
<1>6. CASE CreateSnapshotDevice
  <2>1. wtx \in S!Tx /\ TxMatches(wtx, meta)
    BY <1>1, <1>6 DEF CreateSnapshotDevice
  <2>2. TxMatches([wtx EXCEPT !.phase = "commit"], meta)
    BY <2>1, TxMatchesPhase
  <2>3. QED
    BY <1>6, <2>2, TxMatchesNone DEF CreateSnapshotDevice, Abort
<1>7. CASE RemoveDevice
  <2>1. wtx \in S!Tx /\ TxMatches(wtx, meta)
    BY <1>1, <1>7 DEF RemoveDevice
  <2>2. TxMatches([wtx EXCEPT !.phase = "commit"], meta)
    BY <2>1, TxMatchesPhase
  <2>3. QED
    BY <1>7, <2>2, TxMatchesNone DEF RemoveDevice, Abort
<1>8. CASE Finish
  BY <1>8, TxMatchesNone DEF Finish, Complete
<1>9. ASSUME NEW n \in Keys, NEW k \in Keys, Commit(n, k)
      PROVE  TxMatches(wtx', meta')
  BY <1>9, TxMatchesNone DEF Commit
<1>10. CASE Close
  BY <1>1, <1>10, TxMatchesNone DEF Close
<1>11. CASE UNCHANGED vars
  BY <1>1, <1>11, TxMatchesNone DEF vars
<1>12. QED
  BY <1>2, <1>3, <1>4, <1>5, <1>6, <1>7, <1>8, <1>9, <1>10, <1>11
     DEF Next, Prepare, View

(* The refinement holds when trans.Commit does not fail; with the commit   *)
(* fault it does not (run v1_commit).                                      *)
CommitSafe == "commit" \notin Faults

(* A step that changes neither the committed store nor the answer is an    *)
(* abstract stutter.                                                       *)
LEMMA Stutter ==
  ASSUME meta' = meta, reply' = reply
  PROVE  UNCHANGED <<StoreView, reply>>
  BY DEF StoreView

(* An error answer that leaves the committed store alone is Abs!Fail.      *)
LEMMA FailStep ==
  ASSUME NEW op \in Abs!Ops, NEW key \in Keys, meta' = meta,
         reply' = [op |-> op, key |-> key, ok |-> FALSE]
  PROVE  Abs!Next
  <1>1. Abs!Fail(op, key)
    BY DEF Abs!Fail, Abs!Answer, StoreView
  <1>2. QED
    BY <1>1 DEF Abs!Next

(* Finish of a Prepare or View whose commit succeeds is Abs!Create.        *)
LEMMA FinishCreate ==
  ASSUME TypeOK, NEW kind \in {"active", "view"}, NEW key \in Keys,
         NEW p \in Keys \cup {NoKey}, S!CanCreate(meta, key, p),
         meta' = S!CreateRec(meta, kind, key, p),
         reply' = [op |-> kind, key |-> key, ok |-> TRUE]
  PROVE  Abs!Next
  <1>1. meta \in S!Store
    BY DEF TypeOK
  <1>2. StoreView' = [StoreView EXCEPT ![key] = [kind |-> kind, parent |-> p]]
    BY <1>1, ViewCreate DEF StoreView
  <1>3. ~Abs!HasSnap(key)
    BY <1>1, ViewHas DEF S!CanCreate, Abs!HasSnap, Abs!NoSnap, StoreView
  <1>4. p # NoKey => Abs!HasSnap(p) /\ StoreView[p].kind = "committed"
    BY <1>1, ViewHas, ViewFields DEF S!CanCreate, Abs!HasSnap, Abs!NoSnap, StoreView
  <1>5. Abs!Create(kind, key, p)
    BY <1>2, <1>3, <1>4 DEF Abs!Create, Abs!Answer
  <1>6. QED
    BY <1>5 DEF Abs!Next

(* Finish of a Remove whose commit succeeds is Abs!Remove.                 *)
LEMMA FinishRemove ==
  ASSUME TypeOK, NEW key \in Keys, S!CanRemove(meta, key),
         meta' = S!RemoveRec(meta, key),
         reply' = [op |-> "remove", key |-> key, ok |-> TRUE]
  PROVE  Abs!Next
  <1>1. meta \in S!Store
    BY DEF TypeOK
  <1>2. StoreView' = [StoreView EXCEPT ![key] = [none |-> TRUE]]
    BY <1>1, ViewRemove DEF StoreView
  <1>3. Abs!HasSnap(key)
    BY <1>1, ViewHas DEF S!CanRemove, Abs!HasSnap, Abs!NoSnap, StoreView
  <1>4. \A c \in Keys : Abs!HasSnap(c) => StoreView[c].parent # key
    BY <1>1, ViewHas, ViewFields DEF S!CanRemove, S!HasChildren, Abs!HasSnap, Abs!NoSnap, StoreView
  <1>5. Abs!Remove(key)
    BY <1>2, <1>3, <1>4 DEF Abs!Remove, Abs!Answer, Abs!NoSnap
  <1>6. QED
    BY <1>5 DEF Abs!Next

(* A Commit whose store commit succeeds is Abs!Commit.                     *)
LEMMA CommitStep ==
  ASSUME TypeOK, NEW name \in Keys, NEW key \in Keys,
         S!CanCommitActive(meta, key, name),
         meta' = S!CommitActiveRec(meta, key, name),
         reply' = [op |-> "commit", key |-> key, ok |-> TRUE]
  PROVE  Abs!Next
  <1>1. meta \in S!Store
    BY DEF TypeOK
  <1>2. StoreView' = [StoreView EXCEPT
                        ![name] = [StoreView[key] EXCEPT !.kind = "committed"],
                        ![key] = [none |-> TRUE]]
    BY <1>1, ViewCommit DEF S!CanCommitActive, StoreView
  <1>3. Abs!HasSnap(key) /\ StoreView[key].kind = "active" /\ ~Abs!HasSnap(name)
    BY <1>1, ViewHas, ViewFields DEF S!CanCommitActive, Abs!HasSnap, Abs!NoSnap, StoreView
  <1>4. Abs!Commit(name, key)
    BY <1>2, <1>3 DEF Abs!Commit, Abs!Answer, Abs!NoSnap
  <1>5. QED
    BY <1>4 DEF Abs!Next

(* complete(err) after an open transaction is Abs!Fail.                    *)
LEMMA AbortStep ==
  ASSUME TypeOK, wtx # NoTx, Abort
  PROVE  Abs!Next
  <1>1. wtx.op \in Abs!Ops /\ wtx.key \in Keys
    BY DEF TypeOK, S!Tx, Abs!Ops
  <1>2. meta' = meta /\ reply' = [op |-> wtx.op, key |-> wtx.key, ok |-> FALSE]
    BY DEF Abort, Answer
  <1>3. QED
    BY <1>1, <1>2, FailStep

(* Every step of the legacy snapshotter is a step of SnapshotStore or      *)
(* leaves the caller's view and the last answer alone.                     *)
LEMMA RefineStep ==
  ASSUME CommitSafe, IInv, [Next]_vars
  PROVE  [Abs!Next]_<<StoreView, reply>>
<1>0. TypeOK /\ TxMatches(wtx, meta)
  BY DEF IInv, TxMatchesStore
<1>1. ASSUME NEW k \in Keys, NEW p \in Keys \cup {NoKey},
             NEW kind \in {"active", "view"}, createSnapshot(kind, k, p)
      PROVE  [Abs!Next]_<<StoreView, reply>>
  <2>1. CASE ~closed /\ S!CanCreate(meta, k, p)
    BY <1>1, <2>1, Stutter DEF createSnapshot
  <2>2. CASE ~(~closed /\ S!CanCreate(meta, k, p))
    <3>1. kind \in Abs!Ops
      BY DEF Abs!Ops
    <3>2. meta' = meta /\ reply' = [op |-> kind, key |-> k, ok |-> FALSE]
      BY <1>1, <2>2 DEF createSnapshot, Answer
    <3>3. QED
      BY <3>1, <3>2, FailStep
  <2>3. QED
    BY <2>1, <2>2
<1>2. CASE CreateThinDevice
  BY <1>0, <1>2, Stutter, AbortStep DEF CreateThinDevice
<1>3. CASE Mkfs
  BY <1>0, <1>3, Stutter, AbortStep DEF Mkfs
<1>4. CASE CreateSnapshotDevice
  BY <1>0, <1>4, Stutter, AbortStep DEF CreateSnapshotDevice
<1>5. CASE RemoveDevice
  BY <1>0, <1>5, Stutter, AbortStep DEF RemoveDevice
<1>6. CASE Finish
  <2>1. wtx # NoTx /\ meta' = wtx.data
        /\ reply' = [op |-> wtx.op, key |-> wtx.key, ok |-> TRUE]
    BY <1>6 DEF Finish, Complete, Answer, CommitSafe
  <2>2. wtx \in S!Tx
    BY <1>0, <2>1 DEF TypeOK
  <2>3. CASE wtx.op \in {"active", "view"}
    <3>1. PICK p \in Keys \cup {NoKey} :
              /\ S!CanCreate(meta, wtx.key, p)
              /\ wtx.data = S!CreateRec(meta, wtx.op, wtx.key, p)
      BY <1>0, <2>1, <2>3 DEF TxMatches
    <3>2. wtx.key \in Keys
      BY <2>2 DEF S!Tx
    <3>3. QED
      BY <1>0, <2>1, <2>3, <3>1, <3>2, FinishCreate
  <2>4. CASE wtx.op = "remove"
    <3>1. S!CanRemove(meta, wtx.key) /\ wtx.data = S!RemoveRec(meta, wtx.key)
      BY <1>0, <2>1, <2>4 DEF TxMatches
    <3>2. wtx.key \in Keys
      BY <2>2 DEF S!Tx
    <3>3. QED
      BY <1>0, <2>1, <2>4, <3>1, <3>2, FinishRemove
  <2>5. QED
    BY <2>2, <2>3, <2>4 DEF S!Tx
<1>7. ASSUME NEW n \in Keys, NEW k \in Keys, Commit(n, k)
      PROVE  [Abs!Next]_<<StoreView, reply>>
  <2>1. CASE ~closed /\ S!CanCommitActive(meta, k, n)
    <3>1. meta' = S!CommitActiveRec(meta, k, n)
      BY <1>7, <2>1 DEF Commit, CommitSafe
    <3>2. reply' = [op |-> "commit", key |-> k, ok |-> TRUE]
      BY <1>7, <2>1 DEF Commit, Answer
    <3>3. QED
      BY <1>0, <2>1, <3>1, <3>2, CommitStep
  <2>2. CASE ~(~closed /\ S!CanCommitActive(meta, k, n))
    <3>1. meta' = meta /\ reply' = [op |-> "commit", key |-> k, ok |-> FALSE]
      BY <1>7, <2>2 DEF Commit, Answer
    <3>2. "commit" \in Abs!Ops
      BY DEF Abs!Ops
    <3>3. QED
      BY <3>1, <3>2, FailStep
  <2>3. QED
    BY <2>1, <2>2
<1>8. ASSUME NEW k \in Keys, Remove(k)
      PROVE  [Abs!Next]_<<StoreView, reply>>
  <2>1. CASE ~closed /\ S!CanRemove(meta, k)
    BY <1>8, <2>1, Stutter DEF Remove
  <2>2. CASE ~(~closed /\ S!CanRemove(meta, k))
    <3>1. meta' = meta /\ reply' = [op |-> "remove", key |-> k, ok |-> FALSE]
      BY <1>8, <2>2 DEF Remove, Answer
    <3>2. "remove" \in Abs!Ops
      BY DEF Abs!Ops
    <3>3. QED
      BY <3>1, <3>2, FailStep
  <2>3. QED
    BY <2>1, <2>2
<1>9. CASE Close
  BY <1>9, Stutter DEF Close
<1>10. CASE UNCHANGED vars
  BY <1>10, Stutter DEF vars
<1>11. QED
  BY <1>1, <1>2, <1>3, <1>4, <1>5, <1>6, <1>7, <1>8, <1>9, <1>10
     DEF Next, Prepare, View

(* The caller's view starts empty, with no answer yet.                     *)
LEMMA RefineInit == Init => Abs!Init
  BY DEF Init, Abs!Init, StoreView, ViewOf, S!HasRec, S!NoRec, Abs!NoSnap,
         Abs!NoReply

(* Spec 4.2 and 7, for every set of keys and id bound: as long as          *)
(* trans.Commit does not fail, every Prepare, View, Commit and Remove of   *)
(* devmapper.go answers success exactly when it has taken effect in the    *)
(* store, atomically -- the legacy snapshotter implements SnapshotStore.   *)
THEOREM V1Refinement == ASSUME CommitSafe PROVE Spec => SnapshotStoreSpec
<1>1. Spec => []IInv
  BY IInvInit, IInvStep, PTL DEF Spec
<1>2. IInv /\ [Next]_vars => [Abs!Next]_<<StoreView, reply>>
  BY RefineStep
<1>3. QED
  BY <1>1, <1>2, RefineInit, PTL DEF Spec, SnapshotStoreSpec, Abs!Spec

-----------------------------------------------------------------------------
(* A Prepare or View answers with the mounts of a device it created: the  *)
(* id the create will record is the sequence's next one, and once past its *)
(* device step that id's device is in the pool (mkfs, the only step       *)
(* between, neither removes it nor ends the transaction successfully).    *)

DevReady ==
    wtx # NoTx /\ wtx.op \in {"active", "view"} =>
        /\ wtx.id = meta.seq + 1
        /\ wtx.phase # "device" => wtx.id \in devices

DInv == IInv /\ DevReady

(* The step of CreatedHasDevice.                                           *)
CreatedAct ==
    /\ reply' # reply
    /\ reply'.ok
    /\ reply'.op \in {"active", "view"}
    => /\ S!HasRec(meta', reply'.key)
       /\ meta'.recs[reply'.key].id \in devices'

(* A new phase keeps the operation, key, data and id.                      *)
LEMMA V1PhaseKeep ==
  ASSUME NEW t \in S!Tx, NEW ph
  PROVE  LET u == [t EXCEPT !.phase = ph]
         IN  /\ u.op = t.op /\ u.key = t.key /\ u.data = t.data
             /\ u.id = t.id /\ u.phase = ph /\ u # NoTx
  BY DEF S!Tx, NoTx, S!NoTx

LEMMA DInvInit == Init => DInv
  BY IInvInit DEF DInv, DevReady, Init

LEMMA DevReadyStep == DInv /\ [Next]_vars => DevReady'
<1> SUFFICES ASSUME DInv, [Next]_vars PROVE DevReady'
  OBVIOUS
<1>0. /\ wtx # NoTx => wtx \in S!Tx
      /\ DevReady
  BY DEF DInv, IInv, TypeOK
<1>1. ASSUME NEW k \in Keys, NEW p \in Keys \cup {NoKey},
             NEW kind \in {"active", "view"}, createSnapshot(kind, k, p)
      PROVE  DevReady'
  <2>1. CASE ~closed /\ S!CanCreate(meta, k, p)
    <3>1. /\ wtx'.op = kind /\ wtx'.id = meta.seq + 1 /\ wtx'.phase = "device"
          /\ meta' = meta
      BY <1>1, <2>1 DEF createSnapshot
    <3>2. QED
      BY <3>1 DEF DevReady
  <2>2. CASE ~(~closed /\ S!CanCreate(meta, k, p))
    BY <1>1, <2>2 DEF createSnapshot, DevReady
  <2>3. QED
    BY <2>1, <2>2
<1>2. ASSUME NEW k \in Keys, Remove(k)
      PROVE  DevReady'
  <2>1. CASE ~closed /\ S!CanRemove(meta, k)
    <3>1. wtx'.op = "remove"
      BY <1>2, <2>1 DEF Remove
    <3>2. QED
      BY <3>1 DEF DevReady
  <2>2. CASE ~(~closed /\ S!CanRemove(meta, k))
    BY <1>2, <2>2 DEF Remove, DevReady
  <2>3. QED
    BY <2>1, <2>2
<1>3. CASE CreateThinDevice
  <2>1. wtx # NoTx /\ wtx \in S!Tx /\ wtx.op \in {"active", "view"}
        /\ wtx.id = meta.seq + 1
    BY <1>0, <1>3 DEF CreateThinDevice, DevReady
  <2>2. CASE wtx' = NoTx
    BY <2>2 DEF DevReady
  <2>3. CASE wtx' # NoTx
    <3>1. devices' = devices \cup {wtx.id} /\ wtx' = [wtx EXCEPT !.phase = "mkfs"]
          /\ meta' = meta
      BY <1>3, <2>3 DEF CreateThinDevice, Abort
    <3>2. QED
      BY <2>1, <3>1, V1PhaseKeep DEF DevReady
  <2>4. QED
    BY <2>2, <2>3
<1>4. CASE CreateSnapshotDevice
  <2>1. wtx # NoTx /\ wtx \in S!Tx /\ wtx.op \in {"active", "view"}
        /\ wtx.id = meta.seq + 1
    BY <1>0, <1>4 DEF CreateSnapshotDevice, DevReady
  <2>2. CASE wtx' = NoTx
    BY <2>2 DEF DevReady
  <2>3. CASE wtx' # NoTx
    <3>1. devices' = devices \cup {wtx.id} /\ wtx' = [wtx EXCEPT !.phase = "commit"]
          /\ meta' = meta
      BY <1>4, <2>3 DEF CreateSnapshotDevice, Abort
    <3>2. QED
      BY <2>1, <3>1, V1PhaseKeep DEF DevReady
  <2>4. QED
    BY <2>2, <2>3
<1>5. CASE Mkfs
  <2>1. wtx # NoTx /\ wtx \in S!Tx /\ wtx.phase = "mkfs"
    BY <1>0, <1>5 DEF Mkfs
  <2>2. CASE wtx' = NoTx
    BY <2>2 DEF DevReady
  <2>3. CASE wtx' # NoTx
    <3>1. wtx' = [wtx EXCEPT !.phase = "commit"] /\ meta' = meta /\ devices' = devices
      BY <1>5, <2>3 DEF Mkfs, Abort
    <3>2. QED
      BY <1>0, <2>1, <3>1, V1PhaseKeep DEF DevReady
  <2>4. QED
    BY <2>2, <2>3
<1>6. CASE RemoveDevice
  <2>1. wtx \in S!Tx /\ wtx.op = "remove"
    BY <1>0, <1>6 DEF RemoveDevice
  <2>2. wtx' = NoTx \/ wtx' = [wtx EXCEPT !.phase = "commit"]
    BY <1>6 DEF RemoveDevice, Abort
  <2>3. [wtx EXCEPT !.phase = "commit"].op = "remove"
    BY <2>1, V1PhaseKeep
  <2>4. QED
    BY <2>2, <2>3 DEF DevReady
<1>7. CASE Finish
  BY <1>7 DEF Finish, Complete, DevReady
<1>8. ASSUME NEW n \in Keys, NEW k \in Keys, Commit(n, k)
      PROVE  DevReady'
  BY <1>8 DEF Commit, DevReady
<1>9. CASE Close \/ UNCHANGED vars
  BY <1>0, <1>9 DEF Close, vars, DevReady
<1>10. QED
  BY <1>1, <1>2, <1>3, <1>4, <1>5, <1>6, <1>7, <1>8, <1>9 DEF Next, Prepare, View

LEMMA DInvStep == DInv /\ [Next]_vars => DInv'
  BY IInvStep, DevReadyStep DEF DInv

(* Every step of the model satisfies CreatedAct: only Finish of a create   *)
(* answers a Prepare or View with success, and it commits the record whose *)
(* id's device DevReady puts in the pool.                                  *)
LEMMA CreatedStep ==
  ASSUME CommitSafe, DInv, [Next]_vars
  PROVE  CreatedAct
<1>0. wtx # NoTx => wtx \in S!Tx /\ TxMatches(wtx, meta)
  BY DEF DInv, IInv, TypeOK, TxMatchesStore
<1>1. CASE Finish /\ wtx.op \in {"active", "view"}
  <2>1. /\ wtx # NoTx /\ wtx \in S!Tx /\ wtx.phase = "commit"
        /\ meta' = wtx.data /\ devices' = devices
        /\ reply' = [op |-> wtx.op, key |-> wtx.key, ok |-> TRUE]
    BY <1>0, <1>1 DEF Finish, Complete, Answer, CommitSafe
  <2>2. PICK p \in Keys \cup {NoKey} : wtx.data = S!CreateRec(meta, wtx.op, wtx.key, p)
    BY <1>0, <1>1, <2>1 DEF TxMatches
  <2>3. wtx.key \in Keys /\ wtx.id = meta.seq + 1 /\ wtx.id \in devices
    BY <1>1, <2>1 DEF DInv, DevReady, S!Tx
  <2>4. meta'.recs[wtx.key] = [id |-> meta.seq + 1, kind |-> wtx.op, parent |-> p]
    BY <2>1, <2>2, <2>3 DEF S!CreateRec, DInv, IInv, TypeOK, S!Store
  <2>5. S!HasRec(meta', wtx.key)
    BY <2>4 DEF S!HasRec, S!NoRec
  <2>6. QED
    BY <2>1, <2>3, <2>4, <2>5 DEF CreatedAct
<1>2. CASE ~(Finish /\ wtx.op \in {"active", "view"})
  <2> SUFFICES ~(reply' # reply /\ reply'.ok /\ reply'.op \in {"active", "view"})
    BY DEF CreatedAct
  <2>1. CASE Finish
    BY <1>2, <2>1 DEF Finish, Complete, Answer
  <2>2. CASE \E k \in Keys, p \in Keys \cup {NoKey} : Prepare(k, p) \/ View(k, p)
    BY <2>2 DEF Prepare, View, createSnapshot, Answer
  <2>3. CASE CreateThinDevice \/ Mkfs \/ CreateSnapshotDevice \/ RemoveDevice
    BY <2>3 DEF CreateThinDevice, Mkfs, CreateSnapshotDevice, RemoveDevice,
              Abort, Answer
  <2>4. CASE \E n, k \in Keys : Commit(n, k)
    BY <2>4 DEF Commit, Answer
  <2>5. CASE \E k \in Keys : Remove(k)
    BY <2>5 DEF Remove, Answer
  <2>6. CASE Close \/ UNCHANGED vars
    BY <2>6 DEF Close, vars
  <2>7. QED
    BY <2>1, <2>2, <2>3, <2>4, <2>5, <2>6 DEF Next
<1>3. QED
  BY <1>1, <1>2

(* Spec 4.2, for every set of keys and id bound: as long as trans.Commit  *)
(* does not fail, a Prepare or View that devmapper.go answers without     *)
(* error has recorded the snapshot, and the thin device its mounts name   *)
(* exists in the pool.                                                     *)
THEOREM CreatedDevice == ASSUME CommitSafe PROVE Spec => CreatedHasDevice
<1>1. Spec => []DInv
  BY DInvInit, DInvStep, PTL DEF Spec
<1>2. DInv /\ [Next]_vars => CreatedAct
  BY CreatedStep
<1>3. QED
  BY <1>1, <1>2, PTL DEF Spec, CreatedHasDevice, CreatedAct

=============================================================================
