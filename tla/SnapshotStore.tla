---------------------------- MODULE SnapshotStore ----------------------------
(***************************************************************************)
(* What the snapshotter RPC surface promises a caller (spec 4.2), with no *)
(* transactions, devices or ids: each Prepare, View, Commit and Remove     *)
(* takes effect atomically when it answers success, and has no effect     *)
(* when it answers an error.  Any call may fail (a device-mapper, mkfs or  *)
(* store error), so an error answer is always allowed.                     *)
(*                                                                         *)
(* snaps is the set of snapshots a Stat or Walk would show, with the kind  *)
(* and parent of each; reply is the answer of the last mutating call.      *)
(***************************************************************************)
CONSTANTS
    Keys,  \* snapshot keys and commit names
    NoKey  \* the empty parent ""

NoSnap == [none |-> TRUE]

Snap == [kind : {"active", "view", "committed"}, parent : Keys \cup {NoKey}]

Ops == {"active", "view", "commit", "remove"}

NoReply == [none |-> TRUE]

Reply == [op : Ops, key : Keys, ok : BOOLEAN]

VARIABLES snaps, reply

Answer(op, key, ok) == reply' = [op |-> op, key |-> key, ok |-> ok]

HasSnap(k) == snaps[k] # NoSnap

Init ==
    /\ snaps = [k \in Keys |-> NoSnap]
    /\ reply = NoReply

(* Prepare (kind active) or View (kind view): the key is new and the       *)
(* parent, if any, is committed.                                           *)
Create(kind, key, parent) ==
    /\ ~HasSnap(key)
    /\ parent # NoKey => HasSnap(parent) /\ snaps[parent].kind = "committed"
    /\ snaps' = [snaps EXCEPT ![key] = [kind |-> kind, parent |-> parent]]
    /\ Answer(kind, key, TRUE)

(* Commit(name, key): the active snapshot key becomes the committed name.  *)
Commit(name, key) ==
    /\ HasSnap(key) /\ snaps[key].kind = "active"
    /\ ~HasSnap(name)
    /\ snaps' = [snaps EXCEPT ![name] = [snaps[key] EXCEPT !.kind = "committed"],
                              ![key] = NoSnap]
    /\ Answer("commit", key, TRUE)

(* Remove(key): a snapshot no other snapshot names as its parent.         *)
Remove(key) ==
    /\ HasSnap(key)
    /\ \A c \in Keys : HasSnap(c) => snaps[c].parent # key
    /\ snaps' = [snaps EXCEPT ![key] = NoSnap]
    /\ Answer("remove", key, TRUE)

(* Any call may answer an error, and then changes nothing.                 *)
Fail(op, key) ==
    /\ Answer(op, key, FALSE)
    /\ UNCHANGED snaps

Next ==
    \/ \E k \in Keys, p \in Keys \cup {NoKey} :
           Create("active", k, p) \/ Create("view", k, p)
    \/ \E n, k \in Keys : Commit(n, k)
    \/ \E k \in Keys : Remove(k)
    \/ \E op \in Ops, k \in Keys : Fail(op, k)

Spec == Init /\ [][Next]_<<snaps, reply>>

=============================================================================
