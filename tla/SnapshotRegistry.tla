-------------------------- MODULE SnapshotRegistry --------------------------
(***************************************************************************)
(* What the metadata store promises to readers of one repository: a set of *)
(* committed snapshots and at most one published snapshot among them.      *)
(* Publishing is atomic, a checkpoint is never published, and a snapshot   *)
(* that is already committed is never committed over: it is withdrawn      *)
(* first.                                                                  *)
(***************************************************************************)
CONSTANTS Trees, NoSnap

VARIABLES
  committed,  \* snapshots whose records are complete
  published   \* the snapshot served to readers, or NoSnap

registry == <<committed, published>>

Full == Trees \X {"full"}
Checkpoints == Trees \X {"checkpoint"}

Init == committed = {} /\ published = NoSnap

\* A full index commits its records and the pointer in one transaction.
Publish(s) ==
  /\ s \in Full \ committed
  /\ committed' = committed \cup {s}
  /\ published' = s

\* A checkpoint is committed without moving the pointer.
Record(s) ==
  /\ s \in Checkpoints \ committed
  /\ committed' = committed \cup {s}
  /\ UNCHANGED published

\* A snapshot committed before is served again.
Reactivate(s) ==
  /\ s \in committed \cap Full
  /\ published' = s
  /\ UNCHANGED committed

\* Retention deletes a snapshot, or a second build of it starts by removing
\* it; if it was the published one, nothing is served until the next Publish.
Withdraw(s) ==
  /\ s \in committed
  /\ committed' = committed \ {s}
  /\ published' = IF published = s THEN NoSnap ELSE published

Next == \E s \in Full \cup Checkpoints :
          Publish(s) \/ Record(s) \/ Reactivate(s) \/ Withdraw(s)

Spec == Init /\ [][Next]_registry
=============================================================================
