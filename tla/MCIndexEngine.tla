--------------------------- MODULE MCIndexEngine ---------------------------
(***************************************************************************)
(* Instances of IndexEngine for model checking.                            *)
(***************************************************************************)
EXTENDS IndexEngine, TLC

CONSTANTS t1, t2, e1, e2

\* A CLI and a daemon on one data directory, or one process alone.
TwoProcesses == t1 :> e1 @@ t2 :> e2
SingleTask == t1 :> e1

\* Trees are interchangeable, and so are the processes with their tasks.
TreeSymmetry == Permutations(Trees)
Swap == t1 :> t2 @@ t2 :> t1 @@ e1 :> e2 @@ e2 :> e1
ProcessSymmetry == TreeSymmetry \cup {p @@ Swap : p \in TreeSymmetry}
=============================================================================
