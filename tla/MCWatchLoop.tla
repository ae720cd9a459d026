---------------------------- MODULE MCWatchLoop ----------------------------
(***************************************************************************)
(* Instances of WatchLoop for model checking.                              *)
(***************************************************************************)
EXTENDS WatchLoop, TLC

CONSTANTS t1, t2, e1, e2

\* A daemon that watches and a CLI on one data directory, or the daemon alone.
DaemonAndCli == t1 :> e1 @@ t2 :> e2
DaemonAlone == t1 :> e1
=============================================================================
