----------------------------- MODULE WatchLoop -----------------------------
(***************************************************************************)
(* The poll loop of a daemon started with --watch                          *)
(* (apps/daemon/src/watch.rs) over the calls of IndexEngine, next to other *)
(* callers of the same data directory (`cce index`, POST /v1/index).       *)
(*                                                                         *)
(* A tick scans the worktree and compares the snapshot with the one the    *)
(* loop's own last successful call reported.  Only when they differ does   *)
(* it call index(), which scans again.  The loop never looks at `current`. *)
(***************************************************************************)
EXTENDS IndexEngine

CONSTANT Watchers  \* the tasks that are poll loops, at most one per process

ASSUME WatchersAssumption == Watchers \subseteq Tasks

VARIABLES
  committed,  \* WatchState.committed_snapshot of each loop
  due,        \* loops whose tick found the tree stale and is about to call
  publisher   \* history: whose call moved `current` (or deleted it) last,
              \* NoTask when it then failed and nobody got its report

loop == <<committed, due, publisher>>
watchVars == <<vars, loop>>

WatchInit ==
  /\ Init
  /\ committed = [w \in Watchers |-> NoSnap]
  /\ due = {}
  /\ publisher = NoTask

\* WatchState::is_stale of a scan made now.
IsStale(w) == committed[w] # <<worktree, "full">>

\* tick: the scan finds the committed snapshot, and the loop sleeps again.
Unchanged(w) ==
  /\ pc[w] = "idle" /\ w \notin due
  /\ ~IsStale(w)
  /\ UNCHANGED watchVars

\* tick: the scan differs from the committed snapshot.
Notice(w) ==
  /\ pc[w] = "idle" /\ w \notin due
  /\ IsStale(w)
  /\ due' = due \cup {w}
  /\ UNCHANGED <<vars, committed, publisher>>

\* tick: index_with_origin, whatever happened to the tree since the scan.
Reindex(w) ==
  /\ w \in due
  /\ Call(w, "full")
  /\ due' = due \ {w}
  /\ UNCHANGED <<committed, publisher>>

Tick(w) == Notice(w) \/ Reindex(w)

\* The call of t moves `current`, or ends without a report after it did.
Publish(t, reports) ==
  publisher' = IF current' # current THEN t
               ELSE IF /\ publisher = t /\ pc'[t] = "idle" /\ ~reports
                       /\ t \in Watchers => committed[t] # current THEN NoTask
               ELSE publisher

\* A step of a call in flight.
Run(t) == Step(t) /\ Publish(t, pc[t] = "report") /\ UNCHANGED due

\* Seeded bug: every call that ends is taken for a success.
CommitAnyEnd(t) ==
  /\ Run(t)
  /\ committed' = IF t \in Watchers /\ pc'[t] = "idle"
                  THEN [committed EXCEPT ![t] = scanned[t]] ELSE committed

\* The loop records the snapshot of the report; a call that ended in IndexBusy
\* or another error leaves the record untouched.
Report(t) ==
  /\ Run(t)
  /\ committed' = IF t \in Watchers /\ pc[t] = "report"
                  THEN [committed EXCEPT ![t] = scanned[t]] ELSE committed

\* The call fails, and its loop retries at the next tick if the tree is not
\* the one it has recorded.
Fail(t) == Error(t) /\ Publish(t, FALSE) /\ UNCHANGED <<committed, due>>

\* The loop dies with its process and starts with an empty record.
Restart(e) ==
  LET dead == {w \in Watchers : EngineOf[w] = e} IN
  /\ Crash(e)
  /\ committed' = [w \in Watchers |-> IF w \in dead THEN NoSnap ELSE committed[w]]
  /\ due' = due \ dead
  /\ UNCHANGED publisher

\* Somebody else indexes, when they like.  (`cce gc` and checkpoints are left
\* out: one at every tick could keep the lease from the loop for ever.)
OtherCall(t) ==
  /\ t \notin Watchers
  /\ Call(t, "full")
  /\ UNCHANGED loop

WatchNext ==
  \/ EditWorktree /\ UNCHANGED loop
  \/ \E e \in Engines : Restart(e)
  \/ \E w \in Watchers : Tick(w) \/ Unchanged(w)
  \/ \E t \in Tasks : Report(t) \/ Fail(t) \/ OtherCall(t)

\* A call that was started runs on, and a loop wakes up after its interval.
\* Nobody else is obliged to call, and a tick that finds the tree unchanged
\* calls nobody.
WatchSpec ==
  /\ WatchInit /\ [][WatchNext]_watchVars
  /\ \A t \in Tasks : WF_watchVars(Report(t))
  /\ \A w \in Watchers : WF_watchVars(Tick(w))

-----------------------------------------------------------------------------
(* Properties.                                                             *)

\* All a loop can miss: every loop has recorded the tree of now, but `current`
\* was since moved by somebody else's call, or by one that failed after it.
Overtaken ==
  /\ \A w \in Watchers : ~IsStale(w)
  /\ publisher \notin Watchers

\* Again and again `current` is the tree on disk, whatever was edited, raced,
\* turned away with IndexBusy, failed or crashed before, although a loop calls
\* index() only when the tree differs from the snapshot it recorded: a loop
\* stops with `current` behind the worktree only when it was Overtaken.
CurrentCatchesUp == []<>(current = <<worktree, "full">> \/ Overtaken)

\* The views an interrupted index left Building on the current snapshot are
\* finished by the calls the loops make, with the same exception.  (One crash
\* or error: a second one may hit the repair, which a process tries once.)
InterruptedViewsAreRepaired ==
  <>[](current # NoSnap /\ ~Overtaken => \A v \in Views : views[current][v] # "Building")

\* What the daemon says of itself, without exception: under --watch "the poller
\* owns freshness" (main.rs), a concurrent index is "not a failure; the next
\* tick reconciles" (watch.rs).
PollerKeepsFresh == []<>(current = <<worktree, "full">>)

=============================================================================
