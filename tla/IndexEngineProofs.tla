-------------------------- MODULE IndexEngineProofs --------------------------
(***************************************************************************)
(* Theorems about IndexEngine, for every number of tasks, processes and    *)
(* trees and every bound.                                                  *)
(***************************************************************************)
EXTENDS IndexEngine, FiniteSetTheorems, TLAPS

-----------------------------------------------------------------------------
(* Facts about the helpers the steps are built from.                       *)

\* The states and views the steps name belong to their types.
LEMMA Names ==
  /\ "early" \in Views /\ "dense" \in Views /\ "late" \in Views /\ "zoekt" \in Views
  /\ "Building" \in States /\ "Ready" \in States /\ "Failed" \in States
  /\ "Unavailable" \in States
  /\ NoViews \in [Views -> States]
  BY DEF Views, States, NoViews

\* Where the dense steps lead.
LEMMA DenseTargets ==
  /\ LateOf["postDense"] = "postLate" /\ LateOf["repairDense"] = "repairLate"
  /\ LateOf["postVectors"] = "postLate" /\ LateOf["repairVectors"] = "repairLate"
  /\ LateOf["postPublish"] = "postLate" /\ LateOf["repairPublish"] = "repairLate"
  /\ BuildOf["postDense"] = "postVectors" /\ BuildOf["repairDense"] = "repairVectors"
  /\ LateOf["postRegister"] = "postLate" /\ LateOf["repairRegister"] = "repairLate"
  /\ RegisterOf["postVectors"] = "postRegister"
  /\ RegisterOf["repairVectors"] = "repairRegister"
  /\ PublishOf["postRegister"] = "postPublish" /\ PublishOf["repairRegister"] = "repairPublish"
  BY DEF LateOf, BuildOf, RegisterOf, PublishOf

\* The artifacts of a snapshot are artifacts.
LEMMA ArtifactsOf ==
  ASSUME NEW s \in Snaps PROVE Source(s) \in Artifacts /\ Vectors(s) \in Artifacts
  BY DEF Artifacts

\* Writing a view status keeps the manifest well-typed.
LEMMA SetViewType ==
  ASSUME views \in [Snaps -> [Views -> States]],
         NEW s \in Snaps, NEW v \in Views, NEW state \in States, SetView(s, v, state)
  PROVE  views' \in [Snaps -> [Views -> States]]
  BY DEF SetView

\* Remembering a view state keeps a task's locals well-typed.
LEMMA HeldType ==
  ASSUME held \in [Tasks -> [Views -> States]],
         NEW t \in Tasks, NEW v \in Views, NEW state \in States,
         held' = [held EXCEPT ![t][v] = state]
  PROVE  held' \in [Tasks -> [Views -> States]]
  OBVIOUS

\* Returning leaves well-typed locals and no lease behind.
LEMMA FinishType ==
  ASSUME TypeOK, NEW t \in Tasks, Finish(t)
  PROVE  /\ pc' \in [Tasks -> LeasedSteps \cup UnleasedSteps]
         /\ lease' \in Tasks \cup {NoTask}
         /\ scanned' \in [Tasks -> Snaps \cup {NoSnap}]
         /\ scannedAt' \in [Tasks -> Nat]
         /\ held' \in [Tasks -> [Views -> States]]
         /\ doomed' \in [Tasks -> SUBSET (Snaps \X {"fts", "row"})]
         /\ \A u \in Tasks : pc'[u] \notin {"idle", "prune", "pruneRows", "gcRows", "gcObjects"}
                              => scanned'[u] \in Snaps
<1>1. pc' \in [Tasks -> LeasedSteps \cup UnleasedSteps]
  BY DEF TypeOK, Finish, UnleasedSteps
<1>2. lease' \in Tasks \cup {NoTask}
  BY DEF TypeOK, Finish
<1>3. scanned' \in [Tasks -> Snaps \cup {NoSnap}] /\ scannedAt' \in [Tasks -> Nat]
  BY DEF TypeOK, Finish
<1>4. held' \in [Tasks -> [Views -> States]]
  BY Names DEF TypeOK, Finish
<1>5. doomed' \in [Tasks -> SUBSET (Snaps \X {"fts", "row"})]
  BY DEF TypeOK, Finish
<1>6. ASSUME NEW u \in Tasks,
             pc'[u] \notin {"idle", "prune", "pruneRows", "gcRows", "gcObjects"}
      PROVE  scanned'[u] \in Snaps
  <2>1. u # t /\ pc'[u] = pc[u] /\ scanned'[u] = scanned[u]
    BY <1>6 DEF TypeOK, Finish
  <2> QED BY <1>6, <2>1 DEF TypeOK
<1> QED BY <1>1, <1>2, <1>3, <1>4, <1>5, <1>6

\* A step that only returns keeps the types.
LEMMA FinishKeepsType ==
  ASSUME TypeOK, NEW t \in Tasks, Finish(t), objects' \subseteq Artifacts, faults' \in Nat,
         UNCHANGED <<tree, store, artifacts, marker, process, publishedAt>>
  PROVE  TypeOK'
<1>1. /\ worktree' \in Trees /\ edits' \in Nat /\ publishedAt' \in Nat
      /\ artifacts' \subseteq Artifacts /\ marker' \in Snaps \cup {NoSnap}
      /\ attempts' \in [Engines -> SUBSET Snaps]
      /\ embedder' \in [Engines -> {"unset", "ready", "broken"}]
  BY DEF TypeOK, tree, process
<1>2. /\ rows' \in [Snaps -> {"absent", "incomplete", "complete"}]
      /\ docs' \in [Snaps -> SUBSET {"fts", "commits"}]
      /\ current' \in Snaps \cup {NoSnap}
      /\ views' \in [Snaps -> [Views -> States]]
  BY DEF TypeOK, store
<1> QED BY ONLY <1>1, <1>2, FinishType, TypeOK, Finish(t), objects' \subseteq Artifacts,
                faults' \in Nat DEF TypeOK

-----------------------------------------------------------------------------
(* Type correctness.                                                       *)

\* The data directory of a fresh engine is well-typed.
LEMMA TypeInit == Init => TypeOK
  BY BoundsAssumption, Names DEF Init, TypeOK, LeasedSteps, UnleasedSteps

\* Type correctness of the scan and activation gate.
LEMMA TypeGate ==
  ASSUME TypeOK, NEW t \in Tasks, GateStep(t) PROVE TypeOK'
<1> USE DEF TypeOK, LeasedSteps, UnleasedSteps, Goto, tree, store, files, process, locals
<1>1. CASE GateComplete(t)
  BY <1>1 DEF GateComplete
<1>2. CASE GateCurrent(t)
  BY <1>2 DEF GateCurrent
<1>3. CASE GateLease(t)
  BY <1>3 DEF GateLease, Acquire
<1>4. CASE Rescan(t)
  BY <1>4 DEF Rescan, Scan, Snaps, Variants
<1>5. CASE Activate(t)
  BY <1>5 DEF Activate
<1>6. CASE IndexBusy(t)
  <2>1. /\ Finish(t) /\ objects' \subseteq Artifacts /\ faults' \in Nat
        /\ UNCHANGED <<tree, store, artifacts, marker, process, publishedAt>>
    BY <1>6 DEF IndexBusy
  <2> QED BY ONLY <2>1, TypeOK, FinishKeepsType, t \in Tasks
<1> QED
  BY <1>1, <1>2, <1>3, <1>4, <1>5, <1>6 DEF GateStep

\* Type correctness of the reuse and repair steps.
LEMMA TypeReuse ==
  ASSUME TypeOK, NEW t \in Tasks, ReuseStep(t) PROVE TypeOK'
<1> USE DEF TypeOK, LeasedSteps, UnleasedSteps, Goto, tree, store, files, process, locals
<1>1. CASE ReuseCheck(t)
  BY <1>1 DEF ReuseCheck
<1>2. CASE ReadManifest(t)
  BY <1>2 DEF ReadManifest
<1>3. CASE RepairDecide(t)
  BY ZenonT(60), <1>3, TasksAssumption DEF RepairDecide
<1>4. CASE RepairLease(t)
  BY <1>4 DEF RepairLease, Acquire
<1>5. CASE RepairEarly(t)
  BY <1>5, Names, SetViewType DEF RepairEarly
<1>6. CASE RepairSkipsDense(t)
  BY <1>6 DEF RepairSkipsDense
<1>7. CASE RepairLate(t)
  BY <1>7, Names, SetViewType DEF RepairLate
<1>8. CASE Remanifest(t)
  BY <1>8 DEF Remanifest
<1>9. CASE ForeignKeyError(t)
  <2>1. /\ Finish(t) /\ objects' \subseteq Artifacts /\ faults' \in Nat
        /\ UNCHANGED <<tree, store, artifacts, marker, process, publishedAt>>
    BY <1>9 DEF ForeignKeyError
  <2> QED BY ONLY <2>1, TypeOK, FinishKeepsType, t \in Tasks
<1> QED
  BY <1>1, <1>2, <1>3, <1>4, <1>5, <1>6, <1>7, <1>8, <1>9 DEF ReuseStep

\* Type correctness of the zoekt steps.
LEMMA TypeZoekt ==
  ASSUME TypeOK, NEW t \in Tasks, ZoektStep(t) PROVE TypeOK'
<1> USE DEF TypeOK, LeasedSteps, UnleasedSteps, Goto, tree, store, files, process, locals
<1>1. CASE ZoektSkip(t)
  BY <1>1 DEF ZoektSkip
<1>2. CASE ZoektRebuild(t)
  BY <1>2 DEF ZoektRebuild
<1>3. CASE EnsureReport(t)
  <2>1. scanned[t] \in Snaps
    BY <1>3 DEF EnsureReport
  <2>2. \E state \in States : held' = [held EXCEPT ![t]["zoekt"] = state]
    BY <1>3, Names DEF EnsureReport
  <2>3. held' \in [Tasks -> [Views -> States]]
    BY <2>2, Names, HeldType
  <2>4. faults' \in Nat /\ marker' \in Snaps \cup {NoSnap}
    BY <1>3, <2>1 DEF EnsureReport, UseFault
  <2> QED
    BY ZenonT(60), <1>3, <2>1, <2>3, <2>4 DEF EnsureReport
<1>4. CASE ZoektStatus(t)
  BY ZenonT(60), <1>4, Names, SetViewType DEF ZoektStatus
<1> QED
  BY <1>1, <1>2, <1>3, <1>4 DEF ZoektStep

\* Type correctness of build_dense_view.
LEMMA TypeDense ==
  ASSUME TypeOK, NEW t \in Tasks, DenseStep(t) PROVE TypeOK'
<1> USE DEF TypeOK, LeasedSteps, UnleasedSteps, Goto, tree, store, files, process, locals
<1>1. CASE DenseUnavailable(t)
  BY <1>1, Names, SetViewType DEF DenseUnavailable, DenseCalled, LateOf
<1>2. CASE DenseInitFails(t)
  <2>1. scanned[t] \in Snaps /\ pc'[t] \in {"postLate", "repairLate"}
    BY ZenonT(60), <1>2, DenseTargets DEF DenseInitFails, DenseCalled
  <2>2. views' \in [Snaps -> [Views -> States]]
    BY <1>2, <2>1, Names, SetViewType DEF DenseInitFails
  <2>3. faults' \in Nat /\ embedder' \in [Engines -> {"unset", "ready", "broken"}]
    BY <1>2, TasksAssumption DEF DenseInitFails, UseFault
  <2> QED
    BY <1>2, <2>1, <2>2, <2>3 DEF DenseInitFails
<1>3. CASE DenseBuilding(t)
  <2>1. scanned[t] \in Snaps /\ pc'[t] \in {"postVectors", "repairVectors"}
    BY ZenonT(60), <1>3, DenseTargets DEF DenseBuilding, DenseCalled
  <2>2. views' \in [Snaps -> [Views -> States]]
    BY <1>3, <2>1, Names, SetViewType DEF DenseBuilding
  <2>3. embedder' \in [Engines -> {"unset", "ready", "broken"}]
    BY <1>3, TasksAssumption DEF DenseBuilding
  <2> QED
    BY <1>3, <2>1, <2>2, <2>3 DEF DenseBuilding
<1>4. CASE DensePut(t)
  <2>1. scanned[t] \in Snaps /\ pc'[t] \in {"postRegister", "repairRegister"}
    BY <1>4, DenseTargets DEF DensePut
  <2> QED
    BY <1>4, <2>1, ArtifactsOf DEF DensePut
<1>5. CASE DenseBuildFails(t)
  <2>1. scanned[t] \in Snaps /\ pc'[t] \in {"postLate", "repairLate"}
    BY ZenonT(60), <1>5, DenseTargets DEF DenseBuildFails
  <2>2. views' \in [Snaps -> [Views -> States]]
    BY <1>5, <2>1, Names, SetViewType DEF DenseBuildFails
  <2>3. faults' \in Nat
    BY <1>5 DEF DenseBuildFails, UseFault
  <2> QED
    BY <1>5, <2>1, <2>2, <2>3 DEF DenseBuildFails
<1>6. CASE DensePublish(t)
  <2>1. scanned[t] \in Snaps /\ pc'[t] \in {"postLate", "repairLate"}
    BY ZenonT(60), <1>6, DenseTargets DEF DensePublish
  <2>2. views' \in [Snaps -> [Views -> States]]
    BY <1>6, <2>1, Names, SetViewType DEF DensePublish
  <2> QED
    BY <1>6, <2>1, <2>2 DEF DensePublish
<1>7. CASE DenseRegister(t)
  <2>1. scanned[t] \in Snaps /\ pc'[t] \in {"postPublish", "repairPublish"}
    BY <1>7, DenseTargets DEF DenseRegister
  <2> QED
    BY <1>7, <2>1, ArtifactsOf DEF DenseRegister
<1> QED
  BY <1>1, <1>2, <1>3, <1>4, <1>5, <1>6, <1>7 DEF DenseStep

\* Type correctness of the write path.
LEMMA TypeWrite ==
  ASSUME TypeOK, NEW t \in Tasks, WriteStep(t) PROVE TypeOK'
<1> USE DEF TypeOK, LeasedSteps, UnleasedSteps, Goto, tree, store, files, process, locals
<1>1. CASE WriteLease(t)
  BY <1>1 DEF WriteLease, Acquire
<1>2. CASE BeginSnapshot(t)
  BY <1>2, Names DEF BeginSnapshot
<1>3. CASE MarkBuilding(t)
  BY ZenonT(60), <1>3, Names DEF MarkBuilding
<1>4. CASE PutArtifacts(t)
  <2>1. scanned[t] \in Snaps
    BY <1>4 DEF PutArtifacts
  <2>2. \E state \in States : held' = [held EXCEPT ![t]["late"] = state]
    BY <1>4, Names DEF PutArtifacts
  <2>3. held' \in [Tasks -> [Views -> States]]
    BY <2>2, Names, HeldType
  <2>4. faults' \in Nat /\ objects' \subseteq Artifacts
    BY <1>4, <2>1, ArtifactsOf DEF PutArtifacts, UseFault
  <2> QED
    BY <1>4, <2>1, <2>3, <2>4 DEF PutArtifacts
<1>5. CASE BytesChanged(t)
  <2>1. /\ Finish(t) /\ objects' \subseteq Artifacts /\ faults' \in Nat
        /\ UNCHANGED <<tree, store, artifacts, marker, process, publishedAt>>
    BY <1>5 DEF BytesChanged
  <2> QED BY ONLY <2>1, TypeOK, FinishKeepsType, t \in Tasks
<1>6. CASE Commit(t)
  BY <1>6, ArtifactsOf DEF Commit
<1>7. CASE PostEarly(t)
  BY <1>7, Names, SetViewType DEF PostEarly
<1>8. CASE PostDenseCheckpoint(t)
  BY <1>8, Names, SetViewType DEF PostDenseCheckpoint
<1>9. CASE PostLate(t)
  BY ZenonT(60), <1>9, Names, SetViewType DEF PostLate
<1>10. CASE PostZoekt(t)
  BY ZenonT(60), <1>10, Names, SetViewType DEF PostZoekt
<1> QED
  BY <1>1, <1>2, <1>3, <1>4, <1>5, <1>6, <1>7, <1>8, <1>9, <1>10 DEF WriteStep

\* Type correctness of retention and artifact collection.
LEMMA TypeSweep ==
  ASSUME TypeOK, NEW t \in Tasks, SweepStep(t) PROVE TypeOK'
<1> USE DEF TypeOK, LeasedSteps, UnleasedSteps, Goto, tree, store, files, process, locals
<1>1. CASE PruneSelect(t)
  BY <1>1 DEF PruneSelect
<1>2. CASE PruneNoCurrent(t)
  <2>1. CASE Finish(t)
    <3>1. /\ objects' \subseteq Artifacts /\ faults' \in Nat
          /\ UNCHANGED <<tree, store, artifacts, marker, process, publishedAt>>
      BY <1>2 DEF PruneNoCurrent
    <3> QED BY ONLY <2>1, <3>1, TypeOK, FinishKeepsType, t \in Tasks
  <2>2. CASE ~Finish(t)
    BY ZenonT(60), <1>2, <2>2 DEF PruneNoCurrent
  <2> QED BY <2>1, <2>2
<1>3. CASE PruneFts(t)
  BY <1>3 DEF PruneFts
<1>4. CASE PruneRow(t)
  BY <1>4, Names DEF PruneRow
<1>5. CASE PruneDone(t)
  BY <1>5 DEF PruneDone
<1>6. CASE GcRows(t)
  BY <1>6 DEF GcRows
<1>7. CASE GcObjects(t)
  <2>1. CASE Finish(t)
    <3>1. /\ objects' \subseteq Artifacts /\ faults' \in Nat
          /\ UNCHANGED <<tree, store, artifacts, marker, process, publishedAt>>
      BY <1>7 DEF GcObjects
    <3> QED BY ONLY <2>1, <3>1, TypeOK, FinishKeepsType, t \in Tasks
  <2>2. CASE ~Finish(t)
    BY ZenonT(60), <1>7, <2>2 DEF GcObjects
  <2> QED BY <2>1, <2>2
<1> QED
  BY <1>1, <1>2, <1>3, <1>4, <1>5, <1>6, <1>7 DEF SweepStep

\* The steps of the environment and the calls.
LEMMA TypeOutside ==
  ASSUME TypeOK,
         \/ EditWorktree
         \/ \E e \in Engines : Crash(e)
         \/ \E t \in Tasks : Error(t) \/ GcCall(t) \/ \E k \in Variants : Call(t, k)
  PROVE  TypeOK'
<1> USE DEF TypeOK, LeasedSteps, UnleasedSteps, Goto, tree, store, files, process, locals
<1>1. CASE EditWorktree
  BY <1>1 DEF EditWorktree
<1>2. ASSUME NEW e \in Engines, Crash(e) PROVE TypeOK'
  BY <1>2, Names DEF Crash, UseFault
<1>3. ASSUME NEW t \in Tasks, Error(t) PROVE TypeOK'
  <2>1. faults' \in Nat
    BY <1>3 DEF Error, UseFault
  <2>2. CASE scanned[t] # NoSnap /\ pc[t] \in {"prune", "pruneRows"} /\ ~Finish(t)
    BY ZenonT(60), <1>3, <2>1, <2>2 DEF Error
  <2>3. CASE scanned[t] # NoSnap /\ pc[t] \in {"gcRows", "gcObjects"} /\ ~Finish(t)
    BY ZenonT(60), <1>3, <2>1, <2>3 DEF Error
  <2>4. CASE Finish(t)
    <3>1. /\ objects' \subseteq Artifacts
          /\ UNCHANGED <<tree, store, artifacts, marker, process, publishedAt>>
      BY <1>3 DEF Error
    <3> QED BY ONLY <2>1, <2>4, <3>1, TypeOK, FinishKeepsType, t \in Tasks
  <2> QED
    BY <1>3, <2>2, <2>3, <2>4 DEF Error
<1>4. ASSUME NEW t \in Tasks, GcCall(t) PROVE TypeOK'
  BY <1>4 DEF GcCall, Acquire
<1>5. ASSUME NEW t \in Tasks, NEW k \in Variants, Call(t, k) PROVE TypeOK'
  <2>1. <<worktree, k>> \in Snaps
    BY DEF Snaps
  <2> QED
    BY <1>5, <2>1 DEF Call, Scan
<1> QED
  BY <1>1, <1>2, <1>3, <1>4, <1>5

\* The report steps read the manifest or return.
LEMMA TypeReport ==
  ASSUME TypeOK, NEW t \in Tasks, FinalManifest(t) \/ Return(t) PROVE TypeOK'
<1> USE DEF TypeOK, LeasedSteps, UnleasedSteps, Goto, tree, store, files, process, locals
<1>1. CASE FinalManifest(t)
  BY <1>1 DEF FinalManifest
<1>2. CASE Return(t)
  <2>1. /\ Finish(t) /\ objects' \subseteq Artifacts /\ faults' \in Nat
        /\ UNCHANGED <<tree, store, artifacts, marker, process, publishedAt>>
    BY <1>2 DEF Return
  <2> QED BY ONLY <2>1, TypeOK, FinishKeepsType, t \in Tasks
<1> QED
  BY <1>1, <1>2

\* Every step, of a task, the environment or a crash, keeps the types.
LEMMA TypeNext == TypeOK /\ [Next]_vars => TypeOK'
<1> SUFFICES ASSUME TypeOK, [Next]_vars PROVE TypeOK'
  OBVIOUS
<1>1. CASE UNCHANGED vars
  BY <1>1 DEF TypeOK, vars, tree, store, files, process, locals
<1>2. ASSUME NEW t \in Tasks, Step(t) PROVE TypeOK'
  BY <1>2, TypeGate, TypeReuse, TypeZoekt, TypeDense, TypeWrite, TypeSweep, TypeReport DEF Step
<1> QED
  BY <1>1, <1>2, TypeOutside DEF Next

\* Every reachable state is well-typed, and a task inside index() or
\* checkpoint() always works on a snapshot.
THEOREM TypeCorrect == Spec => []TypeOK
<1>1. Init => TypeOK
  BY TypeInit
<1>2. TypeOK /\ [Next]_vars => TypeOK'
  BY TypeNext
<1> QED
  BY <1>1, <1>2, PTL DEF Spec

-----------------------------------------------------------------------------
(* The lease.  Frame(t) is what any step of task t may do to the others:   *)
(* their locals stay, the lease is handed over only through NoTask, and a  *)
(* task that does not hold it leaves the store and the objects alone.      *)

Frame(t) ==
  /\ \A u \in Tasks \ {t} :
       pc'[u] = pc[u] /\ scanned'[u] = scanned[u] /\ scannedAt'[u] = scannedAt[u]
  /\ lease' = lease \/ (lease = NoTask /\ lease' = t) \/ (lease = t /\ lease' = NoTask)
  /\ pc'[t] \in LeasedSteps => lease' = t
  /\ pc[t] \notin LeasedSteps =>
       UNCHANGED <<rows, current, publishedAt, views, artifacts, objects>>

\* Returning hands the lease back.
LEMMA FinishFrame ==
  ASSUME TypeOK, NEW t \in Tasks, Finish(t)
  PROVE  /\ \A u \in Tasks \ {t} :
              pc'[u] = pc[u] /\ scanned'[u] = scanned[u] /\ scannedAt'[u] = scannedAt[u]
         /\ lease' = lease \/ (lease = t /\ lease' = NoTask)
         /\ pc'[t] = "idle" /\ scanned'[t] = NoSnap /\ scannedAt'[t] = 0
  BY DEF TypeOK, Finish

\* The frame of the scan and activation gate: writes only under the lease, own locals only.
LEMMA FrameGate ==
  ASSUME TypeOK, WritersHoldLease, NEW t \in Tasks, GateStep(t) PROVE Frame(t)
<1> USE DEF TypeOK, WritersHoldLease, Frame, LeasedSteps, Goto, store, files, locals
<1>1. CASE GateComplete(t)
  BY <1>1 DEF GateComplete
<1>2. CASE GateCurrent(t)
  BY <1>2 DEF GateCurrent
<1>3. CASE GateLease(t)
  BY <1>3 DEF GateLease, Acquire
<1>4. CASE Rescan(t)
  BY <1>4 DEF Rescan, Scan
<1>5. CASE Activate(t)
  BY <1>5 DEF Activate
<1>6. CASE IndexBusy(t)
  BY <1>6, FinishFrame DEF IndexBusy
<1> QED
  BY <1>1, <1>2, <1>3, <1>4, <1>5, <1>6 DEF GateStep

\* The frame of the reuse and repair steps: writes only under the lease, own locals only.
LEMMA FrameReuse ==
  ASSUME TypeOK, WritersHoldLease, NEW t \in Tasks, ReuseStep(t) PROVE Frame(t)
<1> USE DEF TypeOK, WritersHoldLease, Frame, LeasedSteps, Goto, store, files, locals
<1>1. CASE ReuseCheck(t)
  BY <1>1 DEF ReuseCheck
<1>2. CASE ReadManifest(t)
  BY <1>2 DEF ReadManifest
<1>3. CASE RepairDecide(t)
  BY <1>3 DEF RepairDecide
<1>4. CASE RepairLease(t)
  BY <1>4 DEF RepairLease, Acquire
<1>5. CASE RepairEarly(t)
  BY <1>5 DEF RepairEarly
<1>6. CASE RepairSkipsDense(t)
  BY <1>6 DEF RepairSkipsDense
<1>7. CASE RepairLate(t)
  BY <1>7 DEF RepairLate
<1>8. CASE Remanifest(t)
  BY <1>8 DEF Remanifest
<1>9. CASE ForeignKeyError(t)
  BY <1>9, FinishFrame DEF ForeignKeyError, WritesStatus
<1> QED
  BY <1>1, <1>2, <1>3, <1>4, <1>5, <1>6, <1>7, <1>8, <1>9 DEF ReuseStep

\* The frame of the zoekt steps: writes only under the lease, own locals only.
LEMMA FrameZoekt ==
  ASSUME TypeOK, WritersHoldLease, NEW t \in Tasks, ZoektStep(t) PROVE Frame(t)
<1> USE DEF TypeOK, WritersHoldLease, Frame, LeasedSteps, Goto, store, files, locals
<1>1. CASE ZoektSkip(t)
  BY <1>1 DEF ZoektSkip
<1>2. CASE ZoektRebuild(t)
  BY <1>2 DEF ZoektRebuild
<1>3. CASE EnsureReport(t)
  BY <1>3 DEF EnsureReport
<1>4. CASE ZoektStatus(t)
  BY <1>4 DEF ZoektStatus
<1> QED
  BY <1>1, <1>2, <1>3, <1>4 DEF ZoektStep

\* The frame of build_dense_view: writes only under the lease, own locals only.
LEMMA FrameDense ==
  ASSUME TypeOK, WritersHoldLease, NEW t \in Tasks, DenseStep(t) PROVE Frame(t)
<1> USE DEF TypeOK, WritersHoldLease, Frame, LeasedSteps, Goto, store, files, locals
<1>1. CASE DenseUnavailable(t)
  BY <1>1, DenseTargets DEF DenseUnavailable, DenseCalled
<1>2. CASE DenseInitFails(t)
  BY <1>2, DenseTargets DEF DenseInitFails, DenseCalled
<1>3. CASE DenseBuilding(t)
  BY <1>3, DenseTargets DEF DenseBuilding, DenseCalled
<1>4. CASE DensePut(t)
  BY <1>4, DenseTargets DEF DensePut
<1>5. CASE DenseBuildFails(t)
  BY <1>5, DenseTargets DEF DenseBuildFails
<1>6. CASE DensePublish(t)
  BY <1>6, DenseTargets DEF DensePublish
<1>7. CASE DenseRegister(t)
  BY <1>7, DenseTargets DEF DenseRegister
<1> QED
  BY <1>1, <1>2, <1>3, <1>4, <1>5, <1>6, <1>7 DEF DenseStep

\* The frame of the write path: writes only under the lease, own locals only.
LEMMA FrameWrite ==
  ASSUME TypeOK, WritersHoldLease, NEW t \in Tasks, WriteStep(t) PROVE Frame(t)
<1> USE DEF TypeOK, WritersHoldLease, Frame, LeasedSteps, Goto, store, files, locals
<1>1. CASE WriteLease(t)
  BY <1>1 DEF WriteLease, Acquire
<1>2. CASE BeginSnapshot(t)
  BY <1>2 DEF BeginSnapshot
<1>3. CASE MarkBuilding(t)
  BY <1>3 DEF MarkBuilding
<1>4. CASE PutArtifacts(t)
  BY <1>4 DEF PutArtifacts
<1>5. CASE BytesChanged(t)
  BY <1>5, FinishFrame DEF BytesChanged
<1>6. CASE Commit(t)
  BY <1>6 DEF Commit
<1>7. CASE PostEarly(t)
  BY <1>7 DEF PostEarly
<1>8. CASE PostDenseCheckpoint(t)
  BY <1>8 DEF PostDenseCheckpoint
<1>9. CASE PostLate(t)
  BY <1>9 DEF PostLate
<1>10. CASE PostZoekt(t)
  BY <1>10 DEF PostZoekt
<1> QED
  BY <1>1, <1>2, <1>3, <1>4, <1>5, <1>6, <1>7, <1>8, <1>9, <1>10 DEF WriteStep

\* The frame of retention and artifact collection: writes only under the lease, own locals only.
LEMMA FrameSweep ==
  ASSUME TypeOK, WritersHoldLease, NEW t \in Tasks, SweepStep(t) PROVE Frame(t)
<1> USE DEF TypeOK, WritersHoldLease, Frame, LeasedSteps, Goto, store, files, locals
<1>1. CASE PruneSelect(t)
  BY <1>1 DEF PruneSelect
<1>2. CASE PruneNoCurrent(t)
  BY <1>2, FinishFrame DEF PruneNoCurrent
<1>3. CASE PruneFts(t)
  BY <1>3 DEF PruneFts
<1>4. CASE PruneRow(t)
  BY <1>4 DEF PruneRow
<1>5. CASE PruneDone(t)
  BY <1>5 DEF PruneDone
<1>6. CASE GcRows(t)
  BY <1>6 DEF GcRows
<1>7. CASE GcObjects(t)
  BY <1>7, FinishFrame DEF GcObjects
<1> QED
  BY <1>1, <1>2, <1>3, <1>4, <1>5, <1>6, <1>7 DEF SweepStep

\* The report steps keep to the task's own frame.
LEMMA FrameReport ==
  ASSUME TypeOK, WritersHoldLease, NEW t \in Tasks, FinalManifest(t) \/ Return(t)
  PROVE  Frame(t)
<1> USE DEF TypeOK, WritersHoldLease, Frame, LeasedSteps, Goto, store, files, locals
<1>1. CASE FinalManifest(t)
  BY <1>1 DEF FinalManifest
<1>2. CASE Return(t)
  BY <1>2, FinishFrame DEF Return
<1> QED
  BY <1>1, <1>2

\* So do the calls and the errors that end them.
LEMMA FrameCall ==
  ASSUME TypeOK, WritersHoldLease, NEW t \in Tasks,
         Error(t) \/ GcCall(t) \/ \E k \in Variants : Call(t, k)
  PROVE  Frame(t)
<1> USE DEF TypeOK, WritersHoldLease, Frame, LeasedSteps, Goto, store, files, locals
<1>1. CASE Error(t)
  BY <1>1, FinishFrame DEF Error
<1>2. CASE GcCall(t)
  BY <1>2 DEF GcCall, Acquire
<1>3. ASSUME NEW k \in Variants, Call(t, k) PROVE Frame(t)
  BY <1>3 DEF Call, Scan
<1> QED
  BY <1>1, <1>2, <1>3

\* Whatever a task does, it disturbs the others and the store only as far as
\* its frame allows: without the lease, not at all.
LEMMA FrameTask ==
  ASSUME TypeOK, WritersHoldLease, NEW t \in Tasks,
         Step(t) \/ Error(t) \/ GcCall(t) \/ \E k \in Variants : Call(t, k)
  PROVE  Frame(t)
  BY FrameGate, FrameReuse, FrameZoekt, FrameDense, FrameWrite, FrameSweep, FrameReport, FrameCall
     DEF Step

\* Writers keep excluding each other in every step.
LEMMA LeaseNext == TypeOK /\ WritersHoldLease /\ [Next]_vars => WritersHoldLease'
<1> SUFFICES ASSUME TypeOK, WritersHoldLease, [Next]_vars PROVE WritersHoldLease'
  OBVIOUS
<1>1. CASE UNCHANGED vars
  BY <1>1 DEF WritersHoldLease, vars
<1>2. CASE EditWorktree
  BY <1>2 DEF EditWorktree, WritersHoldLease
<1>3. ASSUME NEW e \in Engines, Crash(e) PROVE WritersHoldLease'
  BY <1>3 DEF Crash, WritersHoldLease, TypeOK, LeasedSteps
<1>4. ASSUME NEW t \in Tasks, Frame(t) PROVE WritersHoldLease'
  BY <1>4, TasksAssumption DEF Frame, WritersHoldLease
<1> QED
  BY <1>1, <1>2, <1>3, <1>4, FrameTask DEF Next

\* Mutual exclusion of writers, across tasks and processes.
THEOREM WritersExclude == Spec => []WritersHoldLease
<1>1. Init => WritersHoldLease
  BY DEF Init, WritersHoldLease, LeasedSteps
<1> QED
  BY <1>1, TypeCorrect, LeaseNext, PTL DEF Spec

-----------------------------------------------------------------------------
(* The store.  The properties are not inductive: an object survives        *)
(* because its row exists (RowsBacked), a row because something references *)
(* it or because its writer holds the lease (PendingArtifactsKept), and a  *)
(* commit or an activation is right because of what the lease has kept     *)
(* true since the scan (BuildInFlight, ActivationPending).                 *)

RowsBacked ==
  /\ artifacts \subseteq objects
  /\ \A s \in Snaps :
       /\ rows[s] = "complete" => Source(s) \in artifacts
       /\ views[s]["dense"] = "Ready" => Vectors(s) \in artifacts

BuildInFlight ==
  \A t \in Tasks : pc[t] \in {"mark", "put", "providers", "commit"}
                     => rows[scanned[t]] = "incomplete"

ActivationPending ==
  /\ publishedAt <= edits
  /\ \A t \in Tasks :
       /\ scannedAt[t] <= edits
       /\ pc[t] = "activate" => scannedAt[t] >= publishedAt /\ IsFull(scanned[t])

IndexInv ==
  /\ TypeOK /\ WritersHoldLease
  /\ CurrentIsServable /\ RowsBacked /\ PendingArtifactsKept
  /\ BuildInFlight /\ ActivationPending

\* What a step of t makes true of the shared state and of t itself.
Effect(t) ==
  /\ CurrentIsServable' /\ RowsBacked'
  /\ pc'[t] \in {"providers", "commit"} => Source(scanned'[t]) \in objects'
  /\ pc'[t] \in {"postRegister", "repairRegister"} => Vectors(scanned'[t]) \in objects'
  /\ pc'[t] \in {"postPublish", "repairPublish"} =>
       Vectors(scanned'[t]) \in artifacts' \cap objects'
  /\ pc'[t] \in {"mark", "put", "providers", "commit"} => rows'[scanned'[t]] = "incomplete"
  /\ publishedAt' <= edits' /\ scannedAt'[t] <= edits' /\ edits' = edits
  /\ pc'[t] = "activate" => scannedAt'[t] >= publishedAt' /\ IsFull(scanned'[t])

\* The effect of the scan and activation gate keeps the store consistent.
LEMMA EffectGate ==
  ASSUME IndexInv, NEW t \in Tasks, GateStep(t) PROVE Effect(t)
<1> USE DEF IndexInv, TypeOK, CurrentIsServable, RowsBacked, PendingArtifactsKept, BuildInFlight,
            ActivationPending, Effect, Goto, Views, tree, store, files, locals
<1>1. CASE GateComplete(t)
  BY <1>1 DEF GateComplete
<1>2. CASE GateCurrent(t)
  BY <1>2 DEF GateCurrent
<1>3. CASE GateLease(t)
  BY <1>3 DEF GateLease, Acquire
<1>4. CASE Rescan(t)
  BY <1>4 DEF Rescan, Scan, IsFull
<1>5. CASE Activate(t)
  BY <1>5, SnapsAssumption DEF Activate
<1>6. CASE IndexBusy(t)
  BY <1>6, FinishFrame DEF IndexBusy
<1> QED
  BY <1>1, <1>2, <1>3, <1>4, <1>5, <1>6 DEF GateStep

\* The effect of the reuse and repair steps keeps the store consistent.
LEMMA EffectReuse ==
  ASSUME IndexInv, NEW t \in Tasks, ReuseStep(t) PROVE Effect(t)
<1> USE DEF IndexInv, TypeOK, CurrentIsServable, RowsBacked, PendingArtifactsKept, BuildInFlight,
            ActivationPending, Effect, Goto, Views, tree, store, files, locals
<1>1. CASE ReuseCheck(t)
  BY <1>1 DEF ReuseCheck
<1>2. CASE ReadManifest(t)
  BY <1>2 DEF ReadManifest
<1>3. CASE RepairDecide(t)
  BY <1>3 DEF RepairDecide
<1>4. CASE RepairLease(t)
  BY <1>4 DEF RepairLease, Acquire
<1>5. CASE RepairEarly(t)
  <2>1. \A s \in Snaps : views'[s]["dense"] = views[s]["dense"]
    <3>1. CASE SetView(scanned[t], "early", "Ready")
      BY <3>1 DEF SetView
    <3> QED
      BY <1>5, <3>1 DEF RepairEarly
  <2> QED
    BY <1>5, <2>1 DEF RepairEarly
<1>6. CASE RepairSkipsDense(t)
  BY <1>6 DEF RepairSkipsDense
<1>7. CASE RepairLate(t)
  BY SMTT(30), <1>7 DEF RepairLate, SetView
<1>8. CASE Remanifest(t)
  BY <1>8 DEF Remanifest
<1>9. CASE ForeignKeyError(t)
  BY <1>9, FinishFrame DEF ForeignKeyError, WritesStatus
<1> QED
  BY <1>1, <1>2, <1>3, <1>4, <1>5, <1>6, <1>7, <1>8, <1>9 DEF ReuseStep

\* The effect of the zoekt steps keeps the store consistent.
LEMMA EffectZoekt ==
  ASSUME IndexInv, NEW t \in Tasks, ZoektStep(t) PROVE Effect(t)
<1> USE DEF IndexInv, TypeOK, CurrentIsServable, RowsBacked, PendingArtifactsKept, BuildInFlight,
            ActivationPending, Effect, Goto, Views, tree, store, files, locals
<1>1. CASE ZoektSkip(t)
  BY <1>1 DEF ZoektSkip
<1>2. CASE ZoektRebuild(t)
  BY <1>2 DEF ZoektRebuild
<1>3. CASE EnsureReport(t)
  BY <1>3 DEF EnsureReport
<1>4. CASE ZoektStatus(t)
  BY <1>4 DEF ZoektStatus, SetView
<1> QED
  BY <1>1, <1>2, <1>3, <1>4 DEF ZoektStep

\* The effect of build_dense_view keeps the store consistent.
LEMMA EffectDense ==
  ASSUME IndexInv, NEW t \in Tasks, DenseStep(t) PROVE Effect(t)
<1> USE DEF IndexInv, TypeOK, CurrentIsServable, RowsBacked, PendingArtifactsKept, BuildInFlight,
            ActivationPending, Effect, Goto, Views, tree, store, files, locals
<1>1. CASE DenseUnavailable(t)
  BY <1>1, DenseTargets DEF DenseUnavailable, DenseCalled, SetView
<1>2. CASE DenseInitFails(t)
  BY <1>2, DenseTargets DEF DenseInitFails, DenseCalled, SetView
<1>3. CASE DenseBuilding(t)
  BY <1>3, DenseTargets DEF DenseBuilding, DenseCalled, SetView
<1>4. CASE DensePut(t)
  BY <1>4, DenseTargets DEF DensePut
<1>5. CASE DenseBuildFails(t)
  BY <1>5, DenseTargets DEF DenseBuildFails, SetView
<1>6. CASE DensePublish(t)
  BY <1>6, DenseTargets DEF DensePublish, SetView
<1>7. CASE DenseRegister(t)
  BY <1>7, DenseTargets DEF DenseRegister
<1> QED
  BY <1>1, <1>2, <1>3, <1>4, <1>5, <1>6, <1>7 DEF DenseStep

\* The effect of the write path keeps the store consistent.
LEMMA EffectWrite ==
  ASSUME IndexInv, NEW t \in Tasks, WriteStep(t) PROVE Effect(t)
<1> USE DEF IndexInv, TypeOK, CurrentIsServable, RowsBacked, PendingArtifactsKept, BuildInFlight,
            ActivationPending, Effect, Goto, Views, tree, store, files, locals
<1>1. CASE WriteLease(t)
  BY <1>1 DEF WriteLease, Acquire
<1>2. CASE BeginSnapshot(t)
  <2>1. scanned[t] \in Snaps
    BY <1>2 DEF BeginSnapshot
  <2>2. \A s \in Snaps : rows'[s] = "complete" => s # scanned[t] /\ rows[s] = "complete"
    BY <1>2, <2>1 DEF BeginSnapshot
  <2>3. \A s \in Snaps : views'[s]["dense"] = "Ready" => views[s]["dense"] = "Ready"
    BY <1>2, <2>1 DEF BeginSnapshot, NoViews
  <2>4. RowsBacked'
    BY <1>2, <2>2, <2>3 DEF BeginSnapshot
  <2>5. CurrentIsServable'
    BY <1>2, <2>1 DEF BeginSnapshot
  <2> QED
    BY <1>2, <2>1, <2>4, <2>5 DEF BeginSnapshot
<1>3. CASE MarkBuilding(t)
  BY <1>3 DEF MarkBuilding
<1>4. CASE PutArtifacts(t)
  BY <1>4 DEF PutArtifacts
<1>5. CASE BytesChanged(t)
  BY <1>5, FinishFrame DEF BytesChanged
<1>6. CASE Commit(t)
  BY <1>6, SnapsAssumption DEF Commit
<1>7. CASE PostEarly(t)
  BY <1>7 DEF PostEarly, SetView
<1>8. CASE PostDenseCheckpoint(t)
  BY <1>8 DEF PostDenseCheckpoint, SetView
<1>9. CASE PostLate(t)
  BY <1>9 DEF PostLate, SetView
<1>10. CASE PostZoekt(t)
  BY <1>10 DEF PostZoekt, SetView
<1> QED
  BY <1>1, <1>2, <1>3, <1>4, <1>5, <1>6, <1>7, <1>8, <1>9, <1>10 DEF WriteStep

\* The effect of retention and artifact collection keeps the store consistent.
LEMMA EffectSweep ==
  ASSUME IndexInv, NEW t \in Tasks, SweepStep(t) PROVE Effect(t)
<1> USE DEF IndexInv, TypeOK, CurrentIsServable, RowsBacked, PendingArtifactsKept, BuildInFlight,
            ActivationPending, Effect, Goto, Views, tree, store, files, locals
<1>1. CASE PruneSelect(t)
  BY <1>1 DEF PruneSelect
<1>2. CASE PruneNoCurrent(t)
  BY <1>2, FinishFrame DEF PruneNoCurrent
<1>3. CASE PruneFts(t)
  BY <1>3 DEF PruneFts
<1>4. CASE PruneRow(t)
  BY <1>4, SnapsAssumption DEF PruneRow, NoViews
<1>5. CASE PruneDone(t)
  BY <1>5 DEF PruneDone
<1>6. CASE GcRows(t)
  BY <1>6 DEF GcRows, Referenced
<1>7. CASE GcObjects(t)
  BY <1>7, FinishFrame DEF GcObjects
<1> QED
  BY <1>1, <1>2, <1>3, <1>4, <1>5, <1>6, <1>7 DEF SweepStep

\* The report steps keep the store consistent: they only read it.
LEMMA EffectReport ==
  ASSUME IndexInv, NEW t \in Tasks, FinalManifest(t) \/ Return(t) PROVE Effect(t)
<1> USE DEF IndexInv, TypeOK, CurrentIsServable, RowsBacked, PendingArtifactsKept, BuildInFlight,
            ActivationPending, Effect, Goto, Views, tree, store, files, locals
<1>1. CASE FinalManifest(t)
  BY <1>1 DEF FinalManifest
<1>2. CASE Return(t)
  BY <1>2, FinishFrame DEF Return
<1> QED
  BY <1>1, <1>2

\* So do new calls and errors.
LEMMA EffectCall ==
  ASSUME IndexInv, NEW t \in Tasks,
         Error(t) \/ GcCall(t) \/ \E k \in Variants : Call(t, k)
  PROVE  Effect(t)
<1> USE DEF IndexInv, TypeOK, CurrentIsServable, RowsBacked, PendingArtifactsKept, BuildInFlight,
            ActivationPending, Effect, Goto, Views, tree, store, files, locals
<1>1. CASE Error(t)
  BY <1>1, FinishFrame DEF Error
<1>2. CASE GcCall(t)
  BY <1>2 DEF GcCall, Acquire
<1>3. ASSUME NEW k \in Variants, Call(t, k) PROVE Effect(t)
  BY <1>3 DEF Call, Scan
<1> QED
  BY <1>1, <1>2, <1>3

\* Every step of a task keeps the store consistent.
LEMMA EffectTask ==
  ASSUME IndexInv, NEW t \in Tasks,
         Step(t) \/ Error(t) \/ GcCall(t) \/ \E k \in Variants : Call(t, k)
  PROVE  Effect(t)
  BY EffectGate, EffectReuse, EffectZoekt, EffectDense, EffectWrite, EffectSweep, EffectReport,
     EffectCall DEF Step

\* What t's step leaves of the other tasks' invariants: a task at a step that
\* needs the store as it is holds the lease, so t does not and cannot write.
LEMMA OthersUndisturbed ==
  ASSUME IndexInv, NEW t \in Tasks, Frame(t), Effect(t), NEW u \in Tasks \ {t}
  PROVE  /\ pc'[u] \in {"providers", "commit"} => Source(scanned'[u]) \in objects'
         /\ pc'[u] \in {"postRegister", "repairRegister"} => Vectors(scanned'[u]) \in objects'
         /\ pc'[u] \in {"postPublish", "repairPublish"} =>
              Vectors(scanned'[u]) \in artifacts' \cap objects'
         /\ pc'[u] \in {"mark", "put", "providers", "commit"} =>
              rows'[scanned'[u]] = "incomplete"
         /\ scannedAt'[u] <= edits'
         /\ pc'[u] = "activate" => scannedAt'[u] >= publishedAt' /\ IsFull(scanned'[u])
<1>1. pc[u] \in LeasedSteps => UNCHANGED <<rows, publishedAt, artifacts, objects>>
  BY DEF IndexInv, WritersHoldLease, Frame
<1>2. /\ pc'[u] = pc[u] /\ scanned'[u] = scanned[u] /\ scannedAt'[u] = scannedAt[u]
      /\ edits' = edits
  BY DEF Frame, Effect
<1> QED
  BY <1>1, <1>2 DEF IndexInv, PendingArtifactsKept, BuildInFlight, ActivationPending, LeasedSteps

\* The inductive invariant survives every step.
LEMMA IndexNext == IndexInv /\ [Next]_vars => IndexInv'
<1> SUFFICES ASSUME IndexInv, [Next]_vars PROVE IndexInv'
  OBVIOUS
<1>1. TypeOK' /\ WritersHoldLease'
  BY TypeNext, LeaseNext DEF IndexInv
<1>2. CASE UNCHANGED vars
  BY <1>1, <1>2 DEF IndexInv, CurrentIsServable, RowsBacked, PendingArtifactsKept, BuildInFlight,
                    ActivationPending, vars, tree, store, files, locals
<1>3. CASE EditWorktree
  BY <1>1, <1>3 DEF EditWorktree, IndexInv, TypeOK, CurrentIsServable, RowsBacked,
                    PendingArtifactsKept, BuildInFlight, ActivationPending, store, files, locals
<1>4. ASSUME NEW e \in Engines, Crash(e) PROVE IndexInv'
  BY <1>1, <1>4 DEF Crash, IndexInv, TypeOK, CurrentIsServable, RowsBacked,
                    PendingArtifactsKept, BuildInFlight, ActivationPending, tree, store, files
<1>5. ASSUME NEW t \in Tasks, Frame(t), Effect(t) PROVE IndexInv'
  <2>1. PendingArtifactsKept'
    BY <1>5, OthersUndisturbed DEF PendingArtifactsKept, Effect
  <2>2. BuildInFlight'
    BY <1>5, OthersUndisturbed DEF BuildInFlight, Effect
  <2>3. ActivationPending'
    BY <1>5, OthersUndisturbed DEF ActivationPending, Effect
  <2> QED
    BY <1>1, <1>5, <2>1, <2>2, <2>3 DEF IndexInv, Effect
<1> QED
  BY <1>2, <1>3, <1>4, <1>5, FrameTask, EffectTask DEF Next, IndexInv

\* An empty data directory satisfies the inductive invariant.
LEMMA IndexInit == Init => IndexInv
  BY TypeInit DEF Init, IndexInv, WritersHoldLease, LeasedSteps, CurrentIsServable, RowsBacked,
                  PendingArtifactsKept, BuildInFlight, ActivationPending, NoViews, Views

\* The inductive invariant of the index pipeline.
THEOREM IndexInvariant == Spec => []IndexInv
<1> QED
  BY IndexInit, IndexNext, PTL DEF Spec

\* The snapshot readers are served is always a complete, full one.
THEOREM CurrentServable == Spec => []CurrentIsServable
<1>1. IndexInv => CurrentIsServable
  BY DEF IndexInv
<1> QED
  BY <1>1, IndexInvariant, PTL

\* Garbage collection never removes what committed metadata points to.
THEOREM ArtifactsExist == Spec => []CommittedArtifactsExist
<1>1. IndexInv => CommittedArtifactsExist
  BY DEF IndexInv, RowsBacked, CommittedArtifactsExist
<1> QED
  BY <1>1, IndexInvariant, PTL

\* Nor what a build in flight has stored and not yet committed.
THEOREM PendingArtifactsSafe == Spec => []PendingArtifactsKept
<1>1. IndexInv => PendingArtifactsKept
  BY DEF IndexInv
<1> QED
  BY <1>1, IndexInvariant, PTL

-----------------------------------------------------------------------------
(* Steps.                                                                  *)

\* The pointer moves to a snapshot without a commit only in Activate.
LEMMA MovesPointer ==
  ASSUME IndexInv, NEW t \in Tasks, Step(t), current' # current, current' # NoSnap, rows' = rows
  PROVE  Activate(t)
<1> USE DEF IndexInv, TypeOK, store
<1>1. ~GateStep(t) \/ Activate(t)
  BY DEF GateStep, GateComplete, GateCurrent, GateLease, Rescan, IndexBusy
<1>2. ~ReuseStep(t)
  BY DEF ReuseStep, ReuseCheck, ReadManifest, RepairDecide, RepairLease, RepairEarly,
         RepairSkipsDense, RepairLate, Remanifest, ForeignKeyError
<1>3. ~ZoektStep(t)
  BY DEF ZoektStep, ZoektSkip, ZoektRebuild, EnsureReport, ZoektStatus
<1>4. ~DenseStep(t)
  BY DEF DenseStep, DenseUnavailable, DenseInitFails, DenseBuilding, DensePut, DenseRegister,
         DenseBuildFails, DensePublish
<1>5. ~BeginSnapshot(t)
  BY DEF BeginSnapshot
<1>6. ~Commit(t)
  BY DEF Commit, BuildInFlight, Goto
<1>7. ~WriteStep(t)
  BY <1>5, <1>6 DEF WriteStep, WriteLease, MarkBuilding, PutArtifacts, BytesChanged, PostEarly,
         PostDenseCheckpoint, PostLate, PostZoekt
<1>8. ~SweepStep(t)
  BY DEF SweepStep, PruneSelect, PruneNoCurrent, PruneFts, PruneRow, PruneDone, GcRows, GcObjects
<1>9. ~FinalManifest(t) /\ ~Return(t)
  BY DEF FinalManifest, Return
<1> QED
  BY <1>1, <1>2, <1>3, <1>4, <1>7, <1>8, <1>9 DEF Step

\* An activation publishes a scan at least as recent as the published one.
THEOREM ActivationsAreFresh == Spec => ActivationIsFresh
<1>1. ASSUME IndexInv, [Next]_vars
      PROVE  [current' # current /\ current' # NoSnap /\ rows' = rows
                => publishedAt' >= publishedAt]_vars
  <2> SUFFICES ASSUME Next, current' # current, current' # NoSnap, rows' = rows
               PROVE  publishedAt' >= publishedAt
    BY <1>1 DEF vars
  <2>1. PICK t \in Tasks : Step(t)
    BY DEF Next, EditWorktree, Crash, Error, GcCall, Call, store
  <2>2. Activate(t)
    BY <1>1, <2>1, MovesPointer
  <2> QED
    BY <1>1, <2>2 DEF Activate, Goto, IndexInv, ActivationPending
<1> QED
  BY <1>1, IndexInvariant, PTL DEF Spec, ActivationIsFresh

-----------------------------------------------------------------------------
(* The pipeline implements SnapshotRegistry.                               *)

\* The snapshots readers may be served or diff against.
Committed == {s \in Snaps : rows[s] = "complete"}

\* A snapshot is a full one or a checkpoint, by its profile.
LEMMA Profiles ==
  ASSUME NEW s \in Snaps
  PROVE  s \in (IF IsFull(s) THEN Registry!Full ELSE Registry!Checkpoints)
  BY DEF Snaps, Variants, IsFull, Registry!Full, Registry!Checkpoints

\* Most steps change neither the complete flags nor the pointer.
LEMMA HiddenSteps ==
  ASSUME NEW t \in Tasks, Step(t)
  PROVE  \/ UNCHANGED <<rows, current>>
         \/ BeginSnapshot(t) \/ Commit(t) \/ Activate(t) \/ PruneRow(t)
<1> USE DEF store
<1>1. CASE GateStep(t)
  BY <1>1 DEF GateStep, GateComplete, GateCurrent, GateLease, Rescan, IndexBusy
<1>2. CASE ReuseStep(t)
  BY <1>2 DEF ReuseStep, ReuseCheck, ReadManifest, RepairDecide, RepairLease, RepairEarly,
         RepairSkipsDense, RepairLate, Remanifest, ForeignKeyError
<1>3. CASE ZoektStep(t)
  BY <1>3 DEF ZoektStep, ZoektSkip, ZoektRebuild, EnsureReport, ZoektStatus
<1>4. CASE DenseStep(t)
  BY <1>4 DEF DenseStep, DenseUnavailable, DenseInitFails, DenseBuilding, DensePut, DenseRegister,
         DenseBuildFails, DensePublish
<1>5. CASE WriteStep(t)
  BY <1>5 DEF WriteStep, WriteLease, MarkBuilding, PutArtifacts, BytesChanged, PostEarly,
         PostDenseCheckpoint, PostLate, PostZoekt
<1>6. CASE SweepStep(t)
  BY <1>6 DEF SweepStep, PruneSelect, PruneNoCurrent, PruneFts, PruneDone, GcRows, GcObjects
<1>7. CASE FinalManifest(t) \/ Return(t)
  BY <1>7 DEF FinalManifest, Return
<1> QED
  BY <1>1, <1>2, <1>3, <1>4, <1>5, <1>6, <1>7 DEF Step

\* A row replaced or deleted is withdrawn if it was complete, and invisible
\* otherwise: the pointer never leads to an incomplete snapshot.
LEMMA RowRemoved ==
  ASSUME IndexInv, NEW s \in Snaps, NEW state \in {"absent", "incomplete"},
         rows' = [rows EXCEPT ![s] = state],
         current' = IF current = s THEN NoSnap ELSE current
  PROVE  [Registry!Next]_(Registry!registry)
<1>1. Committed' = Committed \ {s}
  BY DEF IndexInv, TypeOK, Committed
<1>2. CASE rows[s] = "complete"
  <2>1. Registry!Withdraw(s)
    BY <1>1, <1>2 DEF Registry!Withdraw, Committed
  <2> QED
    BY <2>1, Profiles DEF Registry!Next
<1>3. CASE rows[s] # "complete"
  BY <1>1, <1>3 DEF Registry!registry, Committed, IndexInv, CurrentIsServable
<1> QED
  BY <1>2, <1>3

\* Every step of the pipeline is a step of the registry or invisible.
LEMMA RegistryStep ==
  ASSUME IndexInv, [Next]_vars
  PROVE  [Registry!Next]_(Registry!registry)
<1>1. CASE UNCHANGED <<rows, current>>
  BY <1>1 DEF Registry!registry
<1>2. CASE \A t \in Tasks : ~Step(t)
  <2>1. UNCHANGED <<rows, current>>
    BY <1>2 DEF Next, vars, EditWorktree, Crash, Error, GcCall, Call, store
  <2> QED
    BY <1>1, <2>1
<1>3. ASSUME NEW t \in Tasks, BeginSnapshot(t) PROVE [Registry!Next]_(Registry!registry)
  <2>1. scanned[t] \in Snaps
    BY <1>3 DEF IndexInv, TypeOK, BeginSnapshot, Goto
  <2> QED
    BY <1>3, <2>1, RowRemoved DEF BeginSnapshot
<1>4. ASSUME NEW t \in Tasks, PruneRow(t) PROVE [Registry!Next]_(Registry!registry)
  <2>1. PICK d \in Snaps : /\ rows' = [rows EXCEPT ![d] = "absent"]
                           /\ current' = IF current = d THEN NoSnap ELSE current
    BY <1>4 DEF IndexInv, TypeOK, PruneRow
  <2> QED
    BY <2>1, RowRemoved
<1>5. ASSUME NEW t \in Tasks, Commit(t) PROVE [Registry!Next]_(Registry!registry)
  <2> DEFINE s == scanned[t]
  <2>1. s \in Snaps /\ rows[s] = "incomplete"
    BY <1>5 DEF IndexInv, TypeOK, BuildInFlight, Commit, Goto
  <2>2. Committed' = Committed \cup {s} /\ s \notin Committed
    BY <1>5, <2>1 DEF IndexInv, TypeOK, Commit, Committed
  <2>3. CASE IsFull(s)
    BY <1>5, <2>1, <2>2, <2>3, Profiles DEF Commit, Registry!Next, Registry!Publish, Committed
  <2>4. CASE ~IsFull(s)
    BY <1>5, <2>1, <2>2, <2>4, Profiles DEF Commit, Registry!Next, Registry!Record, Committed
  <2> QED
    BY <2>3, <2>4
<1>6. ASSUME NEW t \in Tasks, Activate(t) PROVE [Registry!Next]_(Registry!registry)
  <2> DEFINE s == scanned[t]
  <2>1. s \in Snaps /\ IsFull(s) /\ rows' = rows
    BY <1>6 DEF IndexInv, TypeOK, ActivationPending, Activate, Goto
  <2>2. CASE rows[s] = "complete" /\ current' = s
    <3>1. Registry!Reactivate(s)
      BY <2>1, <2>2, Profiles DEF Registry!Reactivate
    <3> QED
      BY <2>1, <3>1, Profiles DEF Registry!Next
  <2> QED
    BY <1>1, <1>6, <2>1, <2>2 DEF Activate
<1> QED
  BY <1>1, <1>2, <1>3, <1>4, <1>5, <1>6, HiddenSteps

\* Readers of the store see the atomic registry, whatever the number of
\* calls, processes, crashes and sweeps: the index pipeline refines it.
THEOREM PipelineImplementsRegistry == Spec => ImplementsRegistry
<1>1. Init => Registry!Init
  BY DEF Init, Registry!Init
<1> QED
  BY <1>1, RegistryStep, IndexInvariant, PTL DEF Spec, ImplementsRegistry, Registry!Spec

-----------------------------------------------------------------------------
(* Retention.  A prune decides what to delete before its first deletion,   *)
(* so the window must be kept by what it has not decided to delete.        *)

\* A prune still has a statement to run for a snapshot.
Targeted(t, s) == \E x \in {"fts", "row"} : <<s, x>> \in doomed[t]

\* The complete snapshots besides current that a prune leaves.
Kept(t) == {x \in Snaps : rows[x] = "complete" /\ x # current /\ ~Targeted(t, x)}

\* The holder of the lease works through its list: current is not on it, and
\* as long as a complete snapshot is, enough others are not.
WindowOf(t) ==
  /\ ~Targeted(t, current)
  /\ \A s \in Snaps : Targeted(t, s) /\ rows[s] = "complete" =>
       \E keep \in GcKeeps \cup {Retention} : Cardinality(Kept(t)) >= keep
WindowInv == \A t \in Tasks : pc[t] = "pruneRows" => WindowOf(t)

\* There are finitely many snapshots.
LEMMA SnapsFinite == IsFiniteSet(Snaps)
<1>1. IsFiniteSet({"full"}) /\ IsFiniteSet({"full"} \cup {"checkpoint"})
  BY FS_Singleton, FS_AddElement
<1>2. Variants = {"full"} \cup {"checkpoint"}
  BY DEF Variants
<1> QED
  BY <1>1, <1>2, TreesAssumption, FS_Product DEF Snaps

\* More snapshots kept are enough where fewer were.
LEMMA KeptEnough ==
  ASSUME NEW S, NEW T, S \subseteq T, T \subseteq Snaps,
         \E keep \in GcKeeps \cup {Retention} : Cardinality(S) >= keep
  PROVE  \E keep \in GcKeeps \cup {Retention} : Cardinality(T) >= keep
<1>1. IsFiniteSet(T)
  BY SnapsFinite, FS_Subset
<1>2. Cardinality(S) <= Cardinality(T)
  BY <1>1, FS_Subset
<1>3. Cardinality(S) \in Nat /\ Cardinality(T) \in Nat
  BY <1>1, FS_Subset, FS_CardinalityType
<1>4. GcKeeps \cup {Retention} \subseteq Nat
  BY BoundsAssumption
<1> QED
  BY <1>2, <1>3, <1>4

\* The decision: what is retained is not targeted.
LEMMA SelectOpensWindow ==
  ASSUME TypeOK, NEW t \in Tasks, PruneSelect(t) PROVE WindowOf(t)'
<1>1. PICK keep \in Keeps(t) : \E retained \in Retainable(keep) :
         doomed' = [doomed EXCEPT ![t] =
                      ({s \in Snaps : rows[s] # "absent"} \ (retained \cup {current}))
                        \X {"fts", "row"}]
  BY DEF PruneSelect
<1>2. PICK retained \in Retainable(keep) :
         doomed' = [doomed EXCEPT ![t] =
                      ({s \in Snaps : rows[s] # "absent"} \ (retained \cup {current}))
                        \X {"fts", "row"}]
  BY <1>1
<1>3. rows' = rows /\ current' = current
  BY DEF PruneSelect, store
<1>4. \A s : Targeted(t, s)' <=> s \in {q \in Snaps : rows[q] # "absent"} \ (retained \cup {current})
  BY <1>2 DEF TypeOK, Targeted
<1>5. keep \in GcKeeps \cup {Retention}
  BY DEF Keeps
<1>6. ASSUME NEW s \in Snaps, Targeted(t, s)', rows[s] = "complete"
      PROVE  Cardinality(Kept(t)') >= keep
  <2> DEFINE done == {q \in Snaps : rows[q] = "complete" /\ q # current}
  <2>1. s \in done /\ s \notin retained
    BY <1>4, <1>6
  <2>2. retained \subseteq done /\ Cardinality(retained) = keep
    BY <2>1 DEF Retainable
  <2>3. Kept(t)' = retained
    BY <1>3, <1>4, <2>2 DEF Kept
  <2>4. keep \in Nat
    BY <1>5, BoundsAssumption
  <2> QED
    BY <2>2, <2>3, <2>4
<1> QED
  BY <1>3, <1>4, <1>5, <1>6 DEF WindowOf, Targeted

\* A deletion of the list leaves the rest of the decision as it is.
LEMMA PruneKeepsWindow ==
  ASSUME TypeOK, NEW t \in Tasks, WindowOf(t), PruneFts(t) \/ PruneRow(t) PROVE WindowOf(t)'
<1>1. \A s : Targeted(t, s)' => Targeted(t, s)
  <2>1. doomed'[t] \subseteq doomed[t]
    <3>1. PICK entry : doomed' = [doomed EXCEPT ![t] = doomed[t] \ {entry}]
      BY Zenon DEF PruneFts, PruneRow
    <3> QED
      BY <3>1 DEF TypeOK
  <2> QED
    BY <2>1, Zenon DEF Targeted
<1>2. current' = current
  <2>1. CASE PruneFts(t)
    BY <2>1 DEF PruneFts
  <2>2. CASE PruneRow(t)
    BY <2>2 DEF PruneRow, WindowOf, Targeted
  <2> QED
    BY <2>1, <2>2
<1>3. \A s \in Snaps : rows'[s] = "complete" <=> rows[s] = "complete" /\ (rows'[s] = rows[s])
  BY DEF TypeOK, PruneFts, PruneRow
<1>4. \A s \in Snaps : rows'[s] = rows[s] \/ Targeted(t, s)
  <2>1. CASE PruneFts(t)
    BY <2>1 DEF PruneFts
  <2>2. CASE PruneRow(t)
    <3>1. PICK d \in Snaps : <<d, "row">> \in doomed[t] /\ rows' = [rows EXCEPT ![d] = "absent"]
      BY <2>2, Zenon DEF PruneRow
    <3> QED
      BY <3>1 DEF TypeOK, Targeted
  <2> QED
    BY <2>1, <2>2
<1>5. Kept(t) \subseteq Kept(t)' /\ Kept(t)' \subseteq Snaps
  BY <1>1, <1>2, <1>3, <1>4 DEF Kept
<1>6. ASSUME NEW s \in Snaps, Targeted(t, s)', rows'[s] = "complete"
      PROVE  \E keep \in GcKeeps \cup {Retention} : Cardinality(Kept(t)') >= keep
  <2>1. \E keep \in GcKeeps \cup {Retention} : Cardinality(Kept(t)) >= keep
    BY <1>1, <1>3, <1>6 DEF WindowOf
  <2> QED
    BY <1>5, <2>1, KeptEnough
<1> QED
  BY <1>1, <1>2, <1>6 DEF WindowOf, Targeted

\* What a step of t does to the lists of the prunes: it leaves those of the
\* others alone, and only the prune's own steps lead to its deletions.
ListsFrame(t) ==
  /\ \A u \in Tasks \ {t} : doomed'[u] = doomed[u]
  /\ pc'[t] = "pruneRows" => PruneSelect(t) \/ PruneFts(t) \/ PruneRow(t)

\* A call that ends leaves the lists of the others alone.
LEMMA FinishLists == ASSUME TypeOK, NEW t \in Tasks, Finish(t) PROVE ListsFrame(t)
  BY DEF TypeOK, Finish, ListsFrame

\* So does every step of a call, and only the three steps of a prune reach
\* or stay in its loop.
LEMMA ListsOfStep == ASSUME TypeOK, NEW t \in Tasks, Step(t) PROVE ListsFrame(t)
<1>1. CASE GateStep(t)
  <2>1. CASE IndexBusy(t)
    BY <2>1, FinishLists DEF IndexBusy
  <2> QED
    BY <1>1, <2>1 DEF TypeOK, ListsFrame, Goto, locals, Scan, GateStep, GateComplete, GateCurrent,
       GateLease, Rescan, Activate
<1>2. CASE ReuseStep(t)
  <2>1. CASE ForeignKeyError(t)
    BY <2>1, FinishLists DEF ForeignKeyError
  <2> QED
    BY <1>2, <2>1 DEF TypeOK, ListsFrame, Goto, locals, ReuseStep, ReuseCheck, ReadManifest,
       RepairDecide, RepairLease, RepairEarly, RepairSkipsDense, RepairLate, Remanifest
<1>3. CASE ZoektStep(t)
  BY <1>3 DEF TypeOK, ListsFrame, Goto, locals, ZoektStep, ZoektSkip, ZoektRebuild, EnsureReport,
     ZoektStatus
<1>4. CASE DenseStep(t)
  <2>1. doomed' = doomed
    BY <1>4 DEF locals, DenseStep, DenseUnavailable, DenseInitFails, DenseBuilding, DensePut,
       DenseRegister, DenseBuildFails, DensePublish
  <2>2. pc'[t] # "pruneRows"
    BY <1>4, DenseTargets DEF TypeOK, DenseStep, DenseUnavailable, DenseInitFails, DenseBuilding,
       DensePut, DenseRegister, DenseBuildFails, DensePublish, DenseCalled
  <2> QED
    BY <2>1, <2>2 DEF ListsFrame
<1>5. CASE WriteStep(t)
  <2>1. CASE BytesChanged(t)
    BY <2>1, FinishLists DEF BytesChanged
  <2>2. CASE ~BytesChanged(t)
    <3>1. doomed' = doomed
      BY <1>5, <2>2 DEF locals, WriteStep, WriteLease, BeginSnapshot, MarkBuilding, PutArtifacts,
         Commit, PostEarly, PostDenseCheckpoint, PostLate, PostZoekt
    <3>2. pc'[t] # "pruneRows"
      BY <1>5, <2>2 DEF TypeOK, Goto, WriteStep, WriteLease, BeginSnapshot, MarkBuilding,
         PutArtifacts, Commit, PostEarly, PostDenseCheckpoint, PostLate, PostZoekt
    <3> QED
      BY <3>1, <3>2 DEF ListsFrame
  <2> QED
    BY <2>1, <2>2
<1>6. CASE SweepStep(t)
  <2>1. CASE PruneSelect(t) \/ PruneFts(t) \/ PruneRow(t)
    <3>1. \E list : doomed' = [doomed EXCEPT ![t] = list]
      BY <2>1, Zenon DEF PruneSelect, PruneFts, PruneRow
    <3> QED
      BY <2>1, <3>1 DEF TypeOK, ListsFrame
  <2>2. CASE PruneDone(t) \/ GcRows(t)
    BY <2>2 DEF TypeOK, ListsFrame, Goto, locals, PruneDone, GcRows
  <2>3. CASE PruneNoCurrent(t)
    BY <2>3, FinishLists DEF TypeOK, ListsFrame, Goto, locals, PruneNoCurrent
  <2>4. CASE GcObjects(t)
    BY <2>4, FinishLists DEF TypeOK, ListsFrame, Goto, locals, GcObjects
  <2> QED
    BY <1>6, <2>1, <2>2, <2>3, <2>4 DEF SweepStep
<1>7. CASE FinalManifest(t) \/ Return(t)
  <2>1. CASE Return(t)
    BY <2>1, FinishLists DEF Return
  <2> QED
    BY <1>7, <2>1 DEF TypeOK, ListsFrame, Goto, FinalManifest
<1> QED
  BY <1>1, <1>2, <1>3, <1>4, <1>5, <1>6, <1>7 DEF Step

\* So does a call that fails or starts.
LEMMA ListsOfCall ==
  ASSUME TypeOK, NEW t \in Tasks, Error(t) \/ GcCall(t) \/ \E k \in Variants : Call(t, k)
  PROVE  ListsFrame(t)
<1>1. CASE Error(t)
  BY <1>1, FinishLists DEF TypeOK, ListsFrame, locals, Error
<1>2. CASE GcCall(t)
  BY <1>2 DEF TypeOK, ListsFrame, Goto, locals, GcCall
<1>3. ASSUME NEW k \in Variants, Call(t, k) PROVE ListsFrame(t)
  BY <1>3 DEF TypeOK, ListsFrame, Goto, Call
<1> QED
  BY <1>1, <1>2, <1>3

\* The window stays open through every step.
LEMMA WindowNext == ASSUME IndexInv, WindowInv, [Next]_vars PROVE WindowInv'
<1> SUFFICES ASSUME NEW u \in Tasks, pc'[u] = "pruneRows" PROVE WindowOf(u)'
  BY DEF WindowInv
<1>1. TypeOK /\ WritersHoldLease
  BY DEF IndexInv
<1>2. ASSUME pc[u] = "pruneRows", UNCHANGED <<rows, current>>, doomed'[u] = doomed[u]
      PROVE  WindowOf(u)'
  <2>1. WindowOf(u)
    BY <1>2 DEF WindowInv
  <2> QED
    BY <1>2, <2>1 DEF WindowOf, Kept, Targeted
<1>3. ASSUME NEW t \in Tasks, Frame(t), ListsFrame(t) PROVE WindowOf(u)'
  <2>1. CASE u = t
    <3>1. CASE PruneSelect(t)
      BY <1>1, <2>1, <3>1, SelectOpensWindow
    <3>2. CASE PruneFts(t) \/ PruneRow(t)
      <4>1. pc[t] = "pruneRows"
        BY <3>2 DEF PruneFts, PruneRow
      <4>2. WindowOf(t)
        BY <4>1 DEF WindowInv
      <4> QED
        BY <1>1, <2>1, <3>2, <4>2, PruneKeepsWindow
    <3> QED
      BY <1>3, <2>1, <3>1, <3>2 DEF ListsFrame
  <2>2. CASE u # t
    <3>1. pc[u] = "pruneRows" /\ doomed'[u] = doomed[u]
      BY <1>3, <2>2 DEF Frame, ListsFrame
    <3>2. pc[t] \notin LeasedSteps
      BY <1>1, <2>2, <3>1 DEF WritersHoldLease, LeasedSteps
    <3> QED
      BY <1>2, <1>3, <3>1, <3>2 DEF Frame
  <2> QED
    BY <2>1, <2>2
<1>4. CASE UNCHANGED vars
  BY <1>2, <1>4 DEF vars, store, locals
<1>5. CASE EditWorktree
  BY <1>2, <1>5 DEF EditWorktree, store, locals
<1>6. ASSUME NEW e \in Engines, Crash(e) PROVE WindowOf(u)'
  <2>1. pc[u] = "pruneRows" /\ doomed'[u] = doomed[u]
    BY <1>1, <1>6 DEF TypeOK, Crash
  <2> QED
    BY <1>2, <1>6, <2>1 DEF Crash, store
<1> QED
  BY <1>1, <1>3, <1>4, <1>5, <1>6, FrameTask, ListsOfStep, ListsOfCall DEF Next

\* Retention deletes complete snapshots only beyond the window, and never the
\* current one (RetentionKeepsWindow).
THEOREM RetentionIsSafe == Spec => RetentionKeepsWindow
<1>1. Init => WindowInv
  BY DEF Init, WindowInv
<1>2. ASSUME IndexInv, WindowInv, WindowInv', [Next]_vars,
             NEW s \in Snaps, rows[s] = "complete", rows'[s] = "absent"
      PROVE  /\ s # current
             /\ \E keep \in GcKeeps \cup {Retention} :
                  Cardinality({x \in Snaps : rows'[x] = "complete" /\ x # current}) >= keep
  <2>1. PICK t \in Tasks : PruneRow(t)
    <3>1. rows' # rows
      BY <1>2
    <3>2. PICK t \in Tasks : Step(t)
      BY <1>2, <3>1 DEF Next, vars, EditWorktree, Crash, Error, GcCall, Call, store
    <3>3. ~BeginSnapshot(t) /\ ~Commit(t) /\ ~Activate(t)
      BY <1>2 DEF IndexInv, TypeOK, BeginSnapshot, Commit, Activate
    <3> QED
      BY <3>1, <3>2, <3>3, HiddenSteps
  <2>2. PICK d \in Snaps : <<d, "row">> \in doomed[t] /\ rows' = [rows EXCEPT ![d] = "absent"]
    BY <2>1, Zenon DEF PruneRow
  <2>3. s = d /\ \A x \in Snaps : x # s => rows'[x] = rows[x]
    BY <1>2, <2>2 DEF IndexInv, TypeOK
  <2>4. Targeted(t, s) /\ WindowOf(t)
    BY <1>2, <2>1, <2>2, <2>3 DEF PruneRow, WindowInv, Targeted
  <2>5. s # current
    BY <2>4 DEF WindowOf
  <2>6. Kept(t) \subseteq {x \in Snaps : rows'[x] = "complete" /\ x # current}
    BY <2>3, <2>4 DEF Kept
  <2>7. \E keep \in GcKeeps \cup {Retention} : Cardinality(Kept(t)) >= keep
    BY <1>2, <2>4 DEF WindowOf
  <2> QED
    BY <2>5, <2>6, <2>7, KeptEnough
<1>3. ASSUME IndexInv, WindowInv, WindowInv', [Next]_vars
      PROVE  [\A s \in Snaps : rows[s] = "complete" /\ rows'[s] = "absent" =>
                /\ s # current
                /\ \E keep \in GcKeeps \cup {Retention} :
                     Cardinality({x \in Snaps : rows'[x] = "complete" /\ x # current}) >= keep]_vars
  BY <1>2, <1>3
<1>4. IndexInv /\ WindowInv /\ [Next]_vars => WindowInv'
  BY WindowNext
<1> QED
  BY <1>1, <1>3, <1>4, IndexInvariant, PTL DEF Spec, RetentionKeepsWindow
=============================================================================
