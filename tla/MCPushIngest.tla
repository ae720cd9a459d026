---------------------------- MODULE MCPushIngest ----------------------------
(***************************************************************************)
(* Instances of PushIngest for model checking.                             *)
(***************************************************************************)
EXTENDS PushIngest, TLC

CONSTANTS p1, p2, n1, s1

\* Two clients of one repository, or one client alone.
SameName == p1 :> n1 @@ p2 :> n1
Alone == p1 :> n1
OnlySlug == n1 :> s1

\* Threads and blobs are interchangeable.
Alike == Permutations(Threads) \cup Permutations(Blobs)
=============================================================================
