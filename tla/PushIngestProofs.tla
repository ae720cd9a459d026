-------------------------- MODULE PushIngestProofs --------------------------
(***************************************************************************)
(* Proofs about the push path, for any number of clients, repositories,    *)
(* blobs and blocking threads.                                             *)
(***************************************************************************)
EXTENDS PushIngest, TLAPS

-----------------------------------------------------------------------------
(* Type correctness.                                                       *)

\* What the types of the threads rest on: a client that goes to push has a
\* manifest, a working thread has a directory.
Located ==
  /\ \A p \in Pushers :
       pc[p] \in {"check", "upload", "lock", "materialize"} => manifest[p] \in Trees
  /\ \A t \in Threads : Working(t) => dir[t] \in Slugs

Typed == TypeOK /\ Located

\* Every client pushes to a directory.
LEMMA SlugType == \A p \in Pushers : NameOf[p] \in Names /\ Slug(p) \in Slugs
BY NamesAssumption DEF Slug

\* The initial state is well typed.
LEMMA TypedInit == Init => Typed
BY BoundsAssumption DEF Init, Typed, TypeOK, Located, MaybeTree, Trees, Locations, Working

\* Giving back a push lock keeps its type.
LEMMA ReleaseType == ASSUME TypeOK, NEW p \in Pushers, Release(p)
                     PROVE  locks' \in [Names -> Pushers \cup {None}]
BY DEF Release, TypeOK

\* Every step of a client before its push keeps the types.
LEMMA TypedClient ==
  ASSUME Typed, NEW p \in Pushers,
         \/ Edit(p) \/ Ensure(p) \/ Register(p) \/ Scan(p) \/ Check(p) \/ UploadFails(p)
         \/ Unknown(p) \/ Plan(p) \/ Refused(p) \/ (\E b \in Blobs : Upload(p, b))
  PROVE  Typed'
<1> USE BoundsAssumption, SlugType
    DEF Goto, Typed, TypeOK, Located, MaybeTree, Trees, Locations, Working, files, env, store,
        reg, dirs, client, thread, worker
<1>1. CASE Edit(p) BY <1>1 DEF Edit
<1>2. CASE Ensure(p) BY <1>2 DEF Ensure
<1>3. CASE Register(p) BY <1>3 DEF Register
<1>4. CASE Scan(p) BY <1>4 DEF Scan
<1>5. CASE Check(p) BY <1>5 DEF Check, MissingBlobs
<1>6. CASE UploadFails(p) BY <1>6 DEF UploadFails
<1>7. CASE Unknown(p) BY <1>7 DEF Unknown
<1>8. CASE Plan(p) BY <1>8 DEF Plan, MissingBlobs
<1>9. ASSUME NEW b \in Blobs, Upload(p, b) PROVE Typed' BY <1>9 DEF Upload
<1>10. CASE Refused(p) BY <1>10 DEF Refused
<1> QED BY <1>1, <1>2, <1>3, <1>4, <1>5, <1>6, <1>7, <1>8, <1>9, <1>10

\* Every step of a push handler keeps the types.
LEMMA TypedHandler ==
  ASSUME Typed, NEW p \in Pushers,
         \/ Lock(p) \/ Record(p) \/ PushFails(p) \/ Image(p) \/ Write(p) \/ Swap(p)
         \/ SwapFails(p) \/ Finish(p) \/ Cancel(p) \/ Rerun(p)
  PROVE  Typed'
<1> USE BoundsAssumption, SlugType
    DEF Goto, Typed, TypeOK, Located, MaybeTree, Trees, Locations, Working, files, env, store,
        reg, dirs, client, thread, worker
<1>1. CASE Lock(p) BY <1>1 DEF Lock
<1>2. CASE Record(p) BY <1>2 DEF Record
<1>3. CASE PushFails(p) BY <1>3, ReleaseType DEF PushFails
<1>4. CASE Image(p) BY <1>4 DEF Image
<1>5. CASE Write(p) BY <1>5 DEF Write
<1>6. CASE Swap(p) BY <1>6 DEF Swap
<1>7. CASE SwapFails(p) BY <1>7, ReleaseType DEF SwapFails
<1>8. CASE Finish(p) BY <1>8, ReleaseType DEF Finish
<1>9. CASE Cancel(p) BY <1>9, ReleaseType DEF Cancel
<1>10. CASE Rerun(p) BY <1>10 DEF Rerun
<1> QED BY <1>1, <1>2, <1>3, <1>4, <1>5, <1>6, <1>7, <1>8, <1>9, <1>10

\* Every step of materialize keeps the types.
LEMMA TypedThread ==
  ASSUME Typed, NEW t \in Threads, ThreadStep(t)
  PROVE  Typed'
<1> USE BoundsAssumption
    DEF Typed, TypeOK, Located, MaybeTree, Trees, Locations, Working, End, files, env, store,
        reg, dirs, client, worker
<1>1. CASE FillClear(t) BY <1>1 DEF FillClear
<1>2. ASSUME NEW b \in Blobs, Fill(t, b) PROVE Typed' BY <1>2 DEF Fill
<1>3. CASE Filled(t) BY <1>3 DEF Filled
<1>4. CASE Remove(t) BY <1>4 DEF Remove
<1>5. CASE Rename(t) BY <1>5 DEF Rename
<1>6. CASE ThreadFails(t) BY <1>6 DEF ThreadFails
<1> QED BY <1>1, <1>2, <1>3, <1>4, <1>5, <1>6 DEF ThreadStep

\* Every step of a worker, and a crash, keep the types.
LEMMA TypedRest ==
  ASSUME Typed, Crash \/ \E s \in Slugs : WorkerStep(s)
  PROVE  Typed'
<1> USE BoundsAssumption
    DEF Typed, TypeOK, Located, MaybeTree, Trees, Locations, Working, files, env, store,
        reg, dirs, client, thread
<1>1. CASE Crash BY <1>1 DEF Crash
<1>2. ASSUME NEW s \in Slugs, WorkerStep(s) PROVE Typed'
  BY SMTT(30), <1>2 DEF WorkerStep, Kicked, WatchTick, Indexed
<1> QED BY <1>1, <1>2

\* The strengthened type invariant is inductive.
LEMMA TypedStep == Typed /\ [Next]_vars => Typed'
<1> SUFFICES ASSUME Typed, [Next]_vars PROVE Typed'
  OBVIOUS
<1>1. CASE UNCHANGED vars
  BY <1>1 DEF vars, Typed, TypeOK, Located, Working, files, env, store, reg, dirs, client, thread,
              worker
<1>2. CASE Next
  BY <1>2, TypedClient, TypedHandler, TypedThread, TypedRest DEF Next, ClientStep
<1> QED BY <1>1, <1>2

\* Type correctness of the push path.
THEOREM TypeCorrect == Spec => []TypeOK
<1>1. Init => Typed BY TypedInit
<1>2. Typed /\ [Next]_vars => Typed' BY TypedStep
<1>3. Typed => TypeOK BY DEF Typed
<1> QED BY <1>1, <1>2, <1>3, PTL DEF Spec

-----------------------------------------------------------------------------
(* Committed trees are stored.                                             *)

\* Where a tree is between the presence check and an index, all its blobs
\* have objects: in the manifest of a client that passed the check, on a
\* thread, in a directory, in an image of the registry, in a scan.
Stored ==
  /\ \A p \in Pushers : pc[p] \in {"lock", "materialize"} => manifest[p] \subseteq blobs
  /\ \A t \in Threads : tree[t] \subseteq blobs
  /\ \A s \in Slugs : staging[s] # Absent => staging[s] \subseteq blobs
  /\ \A p \in Pushers : image[p] # None =>
       \A n \in Names : image[p][n] # Absent => image[p][n] \subseteq blobs
  /\ tmp # None => \A n \in Names : tmp[n] # Absent => tmp[n] \subseteq blobs
  /\ \A s \in Slugs : scan[s] # Absent => scan[s] \subseteq blobs
  /\ CommittedTreesAreStored

\* Nothing is there in the beginning.
LEMMA StoredInit == Init => Stored
BY DEF Init, Stored, CommittedTreesAreStored

\* Every step of a client keeps what is stored.
LEMMA StoredClient ==
  ASSUME Typed, Stored, NEW p \in Pushers,
         ClientStep(p) \/ Edit(p) \/ Cancel(p) \/ Rerun(p)
  PROVE  Stored'
<1> USE SlugType
    DEF Goto, Typed, TypeOK, Located, Stored, CommittedTreesAreStored, MaybeTree, Trees, env, store,
        reg, dirs, client, thread, worker
<1>1. CASE Edit(p) BY <1>1 DEF Edit
<1>2. CASE Ensure(p) BY <1>2 DEF Ensure
<1>3. CASE Register(p) BY <1>3 DEF Register
<1>4. CASE Scan(p) BY <1>4 DEF Scan
<1>5. CASE Check(p) BY <1>5 DEF Check, MissingBlobs
<1>6. CASE UploadFails(p) BY <1>6 DEF UploadFails
<1>7. CASE Unknown(p) BY <1>7 DEF Unknown
<1>8. CASE Plan(p) BY <1>8 DEF Plan, MissingBlobs
<1>9. ASSUME NEW b \in Blobs, Upload(p, b) PROVE Stored' BY <1>9 DEF Upload
<1>10. CASE Lock(p) BY <1>10 DEF Lock
<1>11. CASE Record(p) BY <1>11 DEF Record
<1>12. CASE PushFails(p) BY <1>12 DEF PushFails
<1>13. CASE Image(p) BY <1>13 DEF Image
<1>14. CASE Write(p) BY <1>14 DEF Write
<1>15. CASE Swap(p) BY <1>15 DEF Swap
<1>16. CASE SwapFails(p) BY <1>16 DEF SwapFails
<1>17. CASE Finish(p) BY <1>17 DEF Finish
<1>18. CASE Cancel(p) BY <1>18 DEF Cancel
<1>19. CASE Rerun(p) BY <1>19 DEF Rerun
<1>20. CASE Refused(p) BY <1>20 DEF Refused
<1> QED BY <1>1, <1>2, <1>3, <1>4, <1>5, <1>6, <1>7, <1>8, <1>9, <1>10, <1>11, <1>12, <1>13,
           <1>14, <1>15, <1>16, <1>17, <1>18, <1>19, <1>20 DEF ClientStep

\* Every step of a thread, of a worker, and a crash keep what is stored.
LEMMA StoredRest ==
  ASSUME Typed, Stored,
         Crash \/ (\E t \in Threads : ThreadStep(t)) \/ (\E s \in Slugs : WorkerStep(s))
  PROVE  Stored'
<1> USE DEF Typed, TypeOK, Located, Working, End, Stored, CommittedTreesAreStored, MaybeTree,
            Trees, env, store, reg, dirs, client, thread, worker
<1>1. CASE Crash BY <1>1 DEF Crash
<1>2. ASSUME NEW t \in Threads, ThreadStep(t) PROVE Stored'
  <2>1. CASE FillClear(t) BY <2>1 DEF FillClear
  <2>2. ASSUME NEW b \in Blobs, Fill(t, b) PROVE Stored' BY <2>2 DEF Fill
  <2>3. CASE Filled(t) BY <2>3 DEF Filled
  <2>4. CASE Remove(t) BY <2>4 DEF Remove
  <2>5. CASE Rename(t) BY <2>5 DEF Rename
  <2>6. CASE ThreadFails(t) BY <2>6 DEF ThreadFails
  <2> QED BY <1>2, <2>1, <2>2, <2>3, <2>4, <2>5, <2>6 DEF ThreadStep
<1>3. ASSUME NEW s \in Slugs, WorkerStep(s) PROVE Stored'
  <2>1. CASE Kicked(s) BY <2>1 DEF Kicked
  <2>2. CASE WatchTick(s) BY <2>2 DEF WatchTick
  <2>3. CASE Indexed(s) BY <2>3 DEF Indexed
  <2> QED BY <1>3, <2>1, <2>2, <2>3 DEF WorkerStep
<1> QED BY <1>1, <1>2, <1>3

\* push_inner commits no manifest with a blob missing: whatever is recorded,
\* materialized or indexed has all its objects, through every crash, dropped
\* request and disk fault.
THEOREM TreesAreStored == Spec => []CommittedTreesAreStored
<1>1. Init => Typed /\ Stored
  BY TypedInit, StoredInit
<1>2. Typed /\ Stored /\ [Next]_vars => Typed' /\ Stored'
  <2> SUFFICES ASSUME Typed, Stored, [Next]_vars PROVE Typed' /\ Stored'
    OBVIOUS
  <2>1. Typed'
    BY TypedStep
  <2>2. CASE UNCHANGED vars
    BY <2>1, <2>2 DEF vars, Stored, CommittedTreesAreStored, env, store, reg, dirs, client, thread,
                      worker
  <2>3. CASE Next
    BY <2>1, <2>3, StoredClient, StoredRest DEF Next
  <2> QED BY <2>2, <2>3
<1>3. Stored => CommittedTreesAreStored
  BY DEF Stored
<1> QED BY <1>1, <1>2, <1>3, PTL DEF Spec

-----------------------------------------------------------------------------
(* The push lock.                                                          *)

\* What the lock needs to do its work: repositories have directories of their
\* own.
OwnDirectories == \A m, n \in Names : SlugOf[m] = SlugOf[n] => m = n

\* A busy thread that still has a handler works for it, on its directories;
\* a handler has one thread, and holds the lock of its repository meanwhile.
Locked ==
  /\ \A t \in Threads : at[t] # "free" /\ owner[t] # None =>
       pc[owner[t]] = "materialize" /\ dir[t] = Slug(owner[t])
  /\ \A t, u \in Threads :
       at[t] # "free" /\ at[u] # "free" /\ owner[t] = owner[u] /\ owner[t] # None => t = u
  /\ \A p \in Pushers : pc[p] = "materialize" => locks[NameOf[p]] = p

\* No handler has left its thread behind: true until the first is dropped.
Attended == \A t \in Threads : at[t] # "free" => owner[t] # None

\* Then every busy thread is held by the lock.
Exclusive ==
  /\ \A t \in Threads : at[t] # "free" =>
       owner[t] \in Pushers /\ pc[owner[t]] = "materialize" /\ dir[t] = Slug(owner[t])
  /\ \A t, u \in Threads : at[t] # "free" /\ at[u] # "free" /\ owner[t] = owner[u] => t = u
  /\ \A p \in Pushers : pc[p] = "materialize" => locks[NameOf[p]] = p

\* A staging directory that is being filled holds no more than its thread
\* put there, and no object was overwritten.
Fresh ==
  /\ \A t \in Threads : at[t] = "fill" /\ staging[dir[t]] # Absent =>
       staging[dir[t]] \subseteq filled[t]
  /\ CasIsImmutable

\* Where every thread has its handler, each has the lock.
LEMMA AttendedIsExclusive == ASSUME Typed, Locked, Attended PROVE Exclusive
BY DEF Typed, TypeOK, Locked, Attended, Exclusive

\* Two threads whose handlers wait for them are on different directories.
AttendedSwapsAreExclusive ==
  \A t, u \in Threads :
    /\ Working(t) /\ Working(u) /\ dir[t] = dir[u]
    /\ owner[t] # None /\ owner[u] # None
    => t = u

\* That is what the lock's discipline says.
LEMMA LockedSwaps ==
  ASSUME OwnDirectories, Typed, Locked
  PROVE  AttendedSwapsAreExclusive
<1> SUFFICES ASSUME NEW t \in Threads, NEW u \in Threads, Working(t), Working(u), dir[t] = dir[u],
                    owner[t] # None, owner[u] # None
             PROVE  t = u
  BY DEF AttendedSwapsAreExclusive
<1>1. owner[t] \in Pushers /\ owner[u] \in Pushers /\ at[t] # "free" /\ at[u] # "free"
  BY DEF Typed, TypeOK, Working
<1>2. Slug(owner[t]) = Slug(owner[u])
  BY <1>1 DEF Locked
<1>3. NameOf[owner[t]] = NameOf[owner[u]]
  BY <1>1, <1>2, SlugType DEF OwnDirectories, Slug
<1>4. locks[NameOf[owner[t]]] = owner[t] /\ locks[NameOf[owner[u]]] = owner[u]
  BY <1>1 DEF Locked
<1> QED BY <1>1, <1>3, <1>4 DEF Locked

\* Where every thread has its handler, swaps exclude each other.
LEMMA ExclusiveSwaps ==
  ASSUME OwnDirectories, Typed, Locked, Attended
  PROVE  SwapsAreExclusive
<1>1. \A t \in Threads : Working(t) => owner[t] # None
  BY DEF Attended, Working
<1> QED BY <1>1, LockedSwaps DEF AttendedSwapsAreExclusive, SwapsAreExclusive

\* Every step of a client keeps the lock's discipline.
LEMMA LockedClient ==
  ASSUME Typed, Locked, NEW p \in Pushers,
         ClientStep(p) \/ Edit(p) \/ Cancel(p) \/ Rerun(p)
  PROVE  Locked'
<1> USE SlugType, SentinelAssumption
    DEF Goto, Typed, TypeOK, Locked, Slug, Release, env, store, reg, dirs, client, thread, worker
<1>1. CASE Edit(p) BY <1>1 DEF Edit
<1>2. CASE Ensure(p) BY <1>2 DEF Ensure
<1>3. CASE Register(p) BY <1>3 DEF Register
<1>4. CASE Scan(p) BY <1>4 DEF Scan
<1>5. CASE Check(p) BY <1>5 DEF Check, MissingBlobs
<1>6. CASE UploadFails(p) BY <1>6 DEF UploadFails
<1>7. CASE Unknown(p) BY <1>7 DEF Unknown
<1>8. CASE Plan(p) BY <1>8 DEF Plan, MissingBlobs
<1>9. ASSUME NEW b \in Blobs, Upload(p, b) PROVE Locked' BY <1>9 DEF Upload
<1>10. CASE Lock(p) BY <1>10 DEF Lock
<1>11. CASE Record(p) BY <1>11 DEF Record
<1>12. CASE PushFails(p) BY <1>12 DEF PushFails
<1>13. CASE Image(p) BY <1>13 DEF Image
<1>14. CASE Write(p) BY <1>14 DEF Write
<1>15. CASE Swap(p) BY <1>15 DEF Swap
<1>16. CASE SwapFails(p) BY <1>16 DEF SwapFails
<1>17. CASE Finish(p) BY <1>17 DEF Finish
<1>18. CASE Cancel(p) BY <1>18 DEF Cancel
<1>19. CASE Rerun(p) BY <1>19 DEF Rerun
<1>20. CASE Refused(p) BY <1>20 DEF Refused
<1> QED BY <1>1, <1>2, <1>3, <1>4, <1>5, <1>6, <1>7, <1>8, <1>9, <1>10, <1>11, <1>12, <1>13,
           <1>14, <1>15, <1>16, <1>17, <1>18, <1>19, <1>20 DEF ClientStep

\* Every step of a thread, of a worker, and a crash keep the lock's discipline.
LEMMA LockedRest ==
  ASSUME Typed, Locked,
         Crash \/ (\E t \in Threads : ThreadStep(t)) \/ (\E s \in Slugs : WorkerStep(s))
  PROVE  Locked'
<1> USE SentinelAssumption
    DEF Typed, TypeOK, Working, End, Locked, Slug, env, store, reg, dirs, client, thread, worker
<1>1. CASE Crash BY SMTT(30), <1>1 DEF Crash
<1>2. ASSUME NEW t \in Threads, ThreadStep(t) PROVE Locked'
  BY SMTT(30), <1>2 DEF ThreadStep, FillClear, Fill, Filled, Remove, Rename, ThreadFails
<1>3. ASSUME NEW s \in Slugs, WorkerStep(s) PROVE Locked'
  BY <1>3 DEF WorkerStep, Kicked, WatchTick, Indexed
<1> QED BY <1>1, <1>2, <1>3

\* Drops, disk faults and crashes are counted.
LEMMA EventsAreCounted ==
  ASSUME Typed, [Next]_vars
  PROVE  /\ cancels' = 0 => cancels = 0
         /\ faults' = 0 => faults = 0
         /\ crashes' = 0 => crashes = 0 /\ ~Crash
<1> DEFINE Counted == /\ cancels' = 0 => cancels = 0
                      /\ faults' = 0 => faults = 0
                      /\ crashes' = 0 => crashes = 0 /\ ~Crash
<1> USE DEF env, Typed, TypeOK
<1>1. CASE Crash
  BY <1>1 DEF Crash
<1> SUFFICES ASSUME ~Crash PROVE Counted
  BY <1>1
<1>2. ASSUME NEW p \in Pushers, ClientStep(p) PROVE Counted
  BY <1>2 DEF ClientStep, Ensure, Register, Scan, Check, Upload, UploadFails, Unknown, Plan,
              Refused, Lock, Record, PushFails, Image, Write, Swap, SwapFails, Finish
<1>3. ASSUME NEW t \in Threads, ThreadStep(t) PROVE Counted
  BY <1>3 DEF ThreadStep, FillClear, Fill, Filled, Remove, Rename, ThreadFails
<1>4. ASSUME NEW s \in Slugs, WorkerStep(s) PROVE Counted
  BY <1>4 DEF WorkerStep, Kicked, WatchTick, Indexed
<1>5. ASSUME NEW p \in Pushers, Edit(p) \/ Cancel(p) \/ Rerun(p) PROVE Counted
  BY <1>5 DEF Edit, Cancel, Rerun
<1>6. CASE UNCHANGED vars
  BY <1>6 DEF vars
<1> QED BY <1>2, <1>3, <1>4, <1>5, <1>6 DEF Next

\* Until a handler is dropped, every thread that is started keeps its handler.
LEMMA AttendedStep ==
  ASSUME Typed, Attended, [Next]_vars, cancels' = 0
  PROVE  Attended'
<1> USE SentinelAssumption
    DEF Typed, TypeOK, Attended, env, store, reg, dirs, client, thread, worker
<1>1. ASSUME NEW p \in Pushers, ClientStep(p) \/ Edit(p) \/ Rerun(p), ~Lock(p), ~Record(p),
             ~PushFails(p)
      PROVE  UNCHANGED <<at, owner>>
  BY <1>1 DEF ClientStep, Edit, Rerun, Ensure, Register, Scan, Check, Upload, UploadFails, Unknown,
              Plan, Refused, Image, Write, Swap, SwapFails, Finish
<1>2. ASSUME NEW p \in Pushers, Lock(p) \/ Record(p) \/ PushFails(p)
      PROVE  Attended'
  BY <1>2 DEF Lock, Record, PushFails
<1>3. ASSUME NEW t \in Threads, ThreadStep(t) PROVE Attended'
  BY <1>3 DEF ThreadStep, FillClear, Fill, Filled, Remove, Rename, ThreadFails, Working, End
<1>4. ASSUME NEW s \in Slugs, WorkerStep(s) PROVE UNCHANGED <<at, owner>>
  BY <1>4 DEF WorkerStep, Kicked, WatchTick, Indexed
<1>5. CASE Crash
  BY <1>5 DEF Crash
<1>6. ASSUME NEW p \in Pushers PROVE ~Cancel(p)
  BY DEF Cancel
<1>7. CASE UNCHANGED vars
  BY <1>7 DEF vars
<1> QED BY <1>1, <1>2, <1>3, <1>4, <1>5, <1>6, <1>7 DEF Next

\* The initial state keeps the lock's discipline, with an empty blob store.
LEMMA ExclusiveInit == Init => Locked /\ Attended /\ Fresh
BY DEF Init, Locked, Attended, Fresh, CasIsImmutable

\* No step overwrites an object while swaps exclude each other.
LEMMA FreshStep ==
  ASSUME Typed, SwapsAreExclusive, Fresh, Next
  PROVE  Fresh'
<1> USE DEF Typed, TypeOK, Located, Working, Fresh, CasIsImmutable, env, store, reg, dirs, client,
            thread, worker
<1>1. ASSUME NEW t \in Threads, ThreadStep(t) PROVE Fresh'
  <2> USE DEF SwapsAreExclusive, End
  <2>1. CASE FillClear(t) BY <2>1 DEF FillClear
  <2>2. ASSUME NEW b \in Blobs, Fill(t, b) PROVE Fresh'
    <3>1. damaged' = {}
      BY <2>2 DEF Fill
    <3>2. ASSUME NEW u \in Threads, at'[u] = "fill", staging'[dir'[u]] # Absent
          PROVE  staging'[dir'[u]] \subseteq filled'[u]
      <4>1. CASE u = t
        BY <2>2, <3>2, <4>1 DEF Fill
      <4>2. CASE u # t
        BY <2>2, <3>2, <4>2 DEF Fill
      <4> QED BY <4>1, <4>2
    <3> QED BY <3>1, <3>2
  <2>3. CASE Filled(t) BY <2>3 DEF Filled
  <2>4. CASE Remove(t) BY <2>4 DEF Remove
  <2>5. CASE Rename(t) BY <2>5 DEF Rename
  <2>6. CASE ThreadFails(t) BY <2>6 DEF ThreadFails
  <2> QED BY <1>1, <2>1, <2>2, <2>3, <2>4, <2>5, <2>6 DEF ThreadStep
<1>2. ASSUME NEW p \in Pushers, Lock(p) PROVE Fresh'
  BY <1>2 DEF Lock
<1>3. ASSUME NEW p \in Pushers, Record(p) \/ PushFails(p) \/ Cancel(p) PROVE Fresh'
  BY <1>3 DEF Record, PushFails, Cancel
<1>4. CASE Crash
  BY <1>4 DEF Crash
<1>5. CASE UNCHANGED <<staging, damaged, at, dir, filled>>
  BY <1>5
<1>6. ASSUME NEW s \in Slugs, WorkerStep(s) PROVE UNCHANGED <<staging, damaged, at, dir, filled>>
  BY <1>6 DEF WorkerStep, Kicked, WatchTick, Indexed
<1>7. ASSUME NEW p \in Pushers, ClientStep(p) \/ Edit(p) \/ Rerun(p),
             ~Lock(p), ~Record(p), ~PushFails(p)
      PROVE  UNCHANGED <<staging, damaged, at, dir, filled>>
  BY <1>7 DEF ClientStep, Edit, Rerun, Ensure, Register, Scan, Check, Upload, UploadFails, Unknown,
              Plan, Refused, Image, Write, Swap, SwapFails, Finish
<1> QED BY <1>1, <1>2, <1>3, <1>4, <1>5, <1>6, <1>7 DEF Next

\* The lock's discipline is inductive, whatever is dropped.
LEMMA LockedStep == Typed /\ Locked /\ [Next]_vars => Locked'
<1> SUFFICES ASSUME Typed, Locked, [Next]_vars PROVE Locked'
  OBVIOUS
<1>1. CASE UNCHANGED vars
  BY <1>1 DEF vars, Locked, client, thread
<1>2. CASE Next
  BY <1>2, LockedClient, LockedRest DEF Next
<1> QED BY <1>1, <1>2

\* Until the first handler is dropped, every thread has its handler and no
\* object is overwritten.
UntilDropped == cancels = 0 => Attended /\ Fresh

\* That is inductive where directories are not shared.
LEMMA ExclusiveStep ==
  ASSUME OwnDirectories
  PROVE  Typed /\ Locked /\ UntilDropped /\ [Next]_vars => Typed' /\ Locked' /\ UntilDropped'
<1> SUFFICES ASSUME Typed, Locked, UntilDropped, [Next]_vars
             PROVE  Typed' /\ Locked' /\ UntilDropped'
  OBVIOUS
<1>1. Typed' /\ Locked'
  BY TypedStep, LockedStep
<1>2. ASSUME cancels' = 0 PROVE Attended' /\ Fresh'
  <2>1. cancels = 0 => Attended
    BY DEF UntilDropped
  <2>2. cancels = 0
    BY <1>2, EventsAreCounted
  <2>3. Attended'
    BY <1>2, <2>1, <2>2, AttendedStep
  <2>4. Fresh
    BY <2>2 DEF UntilDropped
  <2>5. CASE UNCHANGED vars
    BY <2>3, <2>4, <2>5 DEF vars, Fresh, CasIsImmutable, store, dirs, thread
  <2>6. CASE Next
    BY <2>1, <2>2, <2>3, <2>4, <2>6, ExclusiveSwaps, FreshStep
  <2> QED BY <2>5, <2>6
<1> QED BY <1>1, <1>2 DEF UntilDropped

\* Where repositories have directories of their own, the push lock keeps the
\* materializations whose handlers wait for them on different directories,
\* whatever was dropped or crashed before.
THEOREM AttendedSwapsExclude ==
  ASSUME OwnDirectories
  PROVE  Spec => []AttendedSwapsAreExclusive
<1>1. Init => Typed /\ Locked
  BY TypedInit, ExclusiveInit
<1>2. Typed /\ Locked /\ [Next]_vars => Typed' /\ Locked'
  BY TypedStep, LockedStep
<1>3. Typed /\ Locked => AttendedSwapsAreExclusive
  BY LockedSwaps
<1> QED BY <1>1, <1>2, <1>3, PTL DEF Spec

\* Under the same condition, and until a push handler is dropped, it keeps
\* every two materializations of a directory apart.  The run dropped_push
\* shows that afterwards it does not.
THEOREM SwapsExclude ==
  ASSUME OwnDirectories
  PROVE  Spec => [](cancels = 0 => SwapsAreExclusive)
<1>1. Init => Typed /\ Locked /\ UntilDropped
  BY TypedInit, ExclusiveInit DEF UntilDropped
<1>2. Typed /\ Locked /\ UntilDropped /\ [Next]_vars => Typed' /\ Locked' /\ UntilDropped'
  BY ExclusiveStep
<1>3. Typed /\ Locked /\ UntilDropped => (cancels = 0 => SwapsAreExclusive)
  BY ExclusiveSwaps DEF UntilDropped
<1> QED BY <1>1, <1>2, <1>3, PTL DEF Spec

\* Until then no object of the blob store is ever written again, whatever
\* crash or disk fault leaves a staging directory behind.
THEOREM ObjectsAreImmutable ==
  ASSUME OwnDirectories
  PROVE  Spec => [](cancels = 0 => CasIsImmutable)
<1>1. Init => Typed /\ Locked /\ UntilDropped
  BY TypedInit, ExclusiveInit DEF UntilDropped
<1>2. Typed /\ Locked /\ UntilDropped /\ [Next]_vars => Typed' /\ Locked' /\ UntilDropped'
  BY ExclusiveStep
<1>3. UntilDropped => (cancels = 0 => CasIsImmutable)
  BY DEF UntilDropped, Fresh
<1> QED BY <1>1, <1>2, <1>3, PTL DEF Spec

-----------------------------------------------------------------------------
(* The record of a push.                                                   *)

\* The source directory of a repository is the recorded one, or known not to be.
Agrees(n) == n \in unrecorded \/ source[SlugOf[n]] = registry[n]

\* How far a thread has come with the directories of its repository.
Stage(t) ==
  /\ tree[t] = manifest[owner[t]]
  /\ at[t] \in {"clear", "fill", "failed"} => Agrees(NameOf[owner[t]])
  /\ at[t] = "fill" => staging[dir[t]] = filled[t]
  /\ at[t] \in {"remove", "rename"} => staging[dir[t]] = tree[t]
  /\ at[t] = "done" => source[dir[t]] = tree[t]

\* What a handler that holds a push lock is about: past its thread, it has
\* recorded what the thread did.
Held(n, p) ==
  /\ NameOf[p] = n /\ manifest[p] # Absent
  /\ pc[p] \in {"materialize", "image", "write", "swap", "finish"}
  /\ pc[p] # "materialize" => Agrees(n)

\* Directories and registry agree, but for the repository a thread works on.
Matched ==
  /\ \A n \in Names : locks[n] = None => Agrees(n)
  /\ \A n \in Names, p \in Pushers : locks[n] = p => Held(n, p)
  /\ \A p \in Pushers : pc[p] \in {"lock", "materialize"} => registry[NameOf[p]] # Absent
  /\ \A t \in Threads : at[t] # "free" => Stage(t)

\* Nothing is registered in the beginning.
LEMMA MatchedInit == Init => Matched
BY SentinelAssumption, NamesAssumption DEF Init, Matched, Agrees

\* A busy thread has its directory to itself, and the repository of the
\* directory is its handler's.
LEMMA BusyApart ==
  ASSUME OwnDirectories, Typed, Exclusive, NEW t \in Threads, at[t] # "free"
  PROVE  /\ owner[t] \in Pushers /\ NameOf[owner[t]] \in Names
         /\ dir[t] = SlugOf[NameOf[owner[t]]]
         /\ locks[NameOf[owner[t]]] = owner[t] /\ pc[owner[t]] = "materialize"
         /\ \A u \in Threads : at[u] # "free" /\ dir[u] = dir[t] => u = t
         /\ \A n \in Names : SlugOf[n] = dir[t] => n = NameOf[owner[t]]
<1>1. owner[t] \in Pushers /\ pc[owner[t]] = "materialize" /\ dir[t] = Slug(owner[t])
  BY DEF Exclusive
<1>2. NameOf[owner[t]] \in Names /\ dir[t] = SlugOf[NameOf[owner[t]]]
  BY <1>1, SlugType DEF Slug
<1>3. locks[NameOf[owner[t]]] = owner[t]
  BY <1>1 DEF Exclusive
<1>4. \A n \in Names : SlugOf[n] = dir[t] => n = NameOf[owner[t]]
  BY <1>2 DEF OwnDirectories
<1>5. ASSUME NEW u \in Threads, at[u] # "free", dir[u] = dir[t] PROVE u = t
  <2>1. owner[u] \in Pushers /\ pc[owner[u]] = "materialize" /\ dir[u] = Slug(owner[u])
    BY <1>5 DEF Exclusive
  <2>2. NameOf[owner[u]] = NameOf[owner[t]]
    BY <1>4, <1>5, <2>1, SlugType DEF Slug
  <2>3. owner[u] = owner[t]
    BY <1>3, <2>1, <2>2 DEF Exclusive
  <2> QED BY <1>5, <2>3 DEF Exclusive
<1> QED BY <1>1, <1>2, <1>3, <1>4, <1>5

\* Every step of materialize keeps the match.
LEMMA MatchedThread ==
  ASSUME OwnDirectories, Typed, Exclusive, Matched, NEW t \in Threads, ThreadStep(t)
  PROVE  Matched'
<1>1. at[t] # "free" /\ Working(t)
  BY DEF ThreadStep, FillClear, Fill, Filled, Remove, Rename, ThreadFails, Working
<1>2. /\ owner[t] \in Pushers /\ NameOf[owner[t]] \in Names
      /\ dir[t] = SlugOf[NameOf[owner[t]]]
      /\ locks[NameOf[owner[t]]] = owner[t] /\ pc[owner[t]] = "materialize"
      /\ \A u \in Threads : at[u] # "free" /\ dir[u] = dir[t] => u = t
      /\ \A n \in Names : SlugOf[n] = dir[t] => n = NameOf[owner[t]]
  BY <1>1, BusyApart
<1>3. owner[t] # None /\ dir[t] \in Slugs /\ registry[NameOf[owner[t]]] # Absent
  BY <1>1, <1>2, SentinelAssumption DEF Typed, Located, Matched
<1>4. Stage(t) /\ tree[t] \in Trees /\ tree[t] # Absent /\ filled[t] \in Trees
  BY <1>1, SentinelAssumption DEF Matched, Typed, TypeOK, Trees
<1>5. UNCHANGED <<registry, locks, pc, manifest, tree, dir, owner>>
  BY DEF ThreadStep, FillClear, Fill, Filled, Remove, Rename, ThreadFails, env, store, reg, dirs,
         client, thread, worker
<1>6. /\ \A s \in Slugs : s # dir[t] => source'[s] = source[s] /\ staging'[s] = staging[s]
      /\ \A u \in Threads : u # t => at'[u] = at[u] /\ filled'[u] = filled[u]
  BY <1>3 DEF ThreadStep, FillClear, Fill, Filled, Remove, Rename, ThreadFails, End, dirs, Typed,
              TypeOK
<1>7. unrecorded \subseteq unrecorded'
  BY DEF ThreadStep, FillClear, Fill, Filled, Remove, Rename, ThreadFails, reg
<1>8. Stage(t)' /\ at'[t] # "free"
  <2> USE <1>2, <1>3, <1>4, <1>5 DEF Stage, Agrees, Typed, TypeOK, reg, dirs
  <2>1. CASE FillClear(t) BY <2>1 DEF FillClear
  <2>2. ASSUME NEW b \in Blobs, Fill(t, b) PROVE Stage(t)' /\ at'[t] # "free"
    <3>1. filled[t] # Absent
      BY SentinelAssumption DEF Trees
    <3>2. staging'[dir[t]] = filled[t] \cup {b} /\ filled'[t] = filled[t] \cup {b}
      BY <2>2, <3>1 DEF Fill
    <3> QED BY <2>2, <3>2 DEF Fill
  <2>3. CASE Filled(t) BY <2>3 DEF Filled
  <2>4. CASE Remove(t)
    <3>1. ASSUME NEW b \in source[dir[t]], source' = [source EXCEPT ![dir[t]] = @ \ {b}],
                 UNCHANGED at
          PROVE  Stage(t)' /\ at'[t] # "free"
      <4>1. source[dir[t]] \in Trees
        BY <2>4 DEF Remove, MaybeTree
      <4>2. source'[dir[t]] # Absent
        BY <3>1, <4>1, SentinelAssumption DEF Trees
      <4> QED BY <2>4, <3>1, <4>2 DEF Remove
    <3>2. CASE source' = [source EXCEPT ![dir[t]] = Absent] /\ at' = [at EXCEPT ![t] = "rename"]
      BY <2>4, <3>2 DEF Remove
    <3> QED BY <2>4, <3>1, <3>2 DEF Remove
  <2>5. CASE Rename(t) BY <2>5 DEF Rename, End
  <2>6. CASE ThreadFails(t) BY <2>6 DEF ThreadFails, Working, End
  <2> QED BY <2>1, <2>2, <2>3, <2>4, <2>5, <2>6 DEF ThreadStep
<1>9. \A u \in Threads : at'[u] # "free" => Stage(u)'
  <2> SUFFICES ASSUME NEW u \in Threads, at'[u] # "free", u # t PROVE Stage(u)'
    BY <1>8
  <2>1. at[u] # "free" /\ dir[u] # dir[t] /\ Stage(u)
    BY <1>2, <1>6 DEF Matched
  <2>2. dir[u] \in Slugs /\ dir[u] = SlugOf[NameOf[owner[u]]]
    BY <2>1, BusyApart, SlugType DEF Slug
  <2> QED BY <1>5, <1>6, <1>7, <2>1, <2>2 DEF Stage, Agrees
<1>10. ASSUME NEW n \in Names, n # NameOf[owner[t]], Agrees(n) PROVE Agrees(n)'
  BY <1>2, <1>5, <1>6, <1>7, <1>10, NamesAssumption DEF Agrees
<1>11. locks[NameOf[owner[t]]] # None
  BY <1>2, <1>3
<1>12. ASSUME NEW n \in Names, NEW q \in Pushers, locks[n] = q PROVE Held(n, q)'
  <2>1. Held(n, q)
    BY <1>12 DEF Matched
  <2>2. n = NameOf[owner[t]] => q = owner[t]
    BY <1>2, <1>12
  <2> QED BY <1>2, <1>5, <1>10, <2>1, <2>2 DEF Held
<1> QED BY <1>3, <1>5, <1>9, <1>10, <1>11, <1>12 DEF Matched

\* A step of a client that leaves registry, directories, locks and threads
\* alone, and neither goes to push nor leaves it, keeps the match.
LEMMA MatchedQuiet ==
  ASSUME Typed, Exclusive, Matched, NEW p \in Pushers,
         UNCHANGED <<registry, unrecorded, source, staging, locks, thread>>,
         \A q \in Pushers \ {p} : pc'[q] = pc[q] /\ manifest'[q] = manifest[q],
         pc[p] # "materialize",
         pc'[p] \in {"lock", "materialize"} => registry[NameOf[p]] # Absent,
         pc[p] \in {"image", "write", "swap", "finish"} =>
           pc'[p] \in {"image", "write", "swap", "finish"} \/ \A n \in Names : locks[n] # p,
         pc[p] \in {"image", "write", "swap", "finish"} => manifest'[p] = manifest[p],
         pc'[p] # "materialize"
  PROVE  Matched'
<1>1. \A n : Agrees(n)' <=> Agrees(n)
  BY DEF Agrees
<1>2. ASSUME NEW t \in Threads, at'[t] # "free" PROVE Stage(t)'
  <2>1. at[t] # "free" /\ owner[t] \in Pushers /\ owner[t] # p
    BY <1>2 DEF Exclusive, thread
  <2>2. Stage(t) /\ manifest'[owner[t]] = manifest[owner[t]]
    BY <2>1 DEF Matched
  <2> QED BY <1>1, <2>2 DEF Stage, thread
<1>3. ASSUME NEW n \in Names, NEW q \in Pushers, locks'[n] = q PROVE Held(n, q)'
  <2>1. Held(n, q)
    BY <1>3 DEF Matched
  <2> QED BY <1>1, <1>3, <2>1 DEF Held
<1>4. \A q \in Pushers : pc'[q] \in {"lock", "materialize"} => registry'[NameOf[q]] # Absent
  BY DEF Matched
<1> QED BY <1>1, <1>2, <1>3, <1>4 DEF Matched

\* Giving back the push lock keeps the match: the holder has recorded its push.
LEMMA MatchedRelease ==
  ASSUME Typed, Exclusive, Matched, NEW p \in Pushers, Release(p),
         UNCHANGED <<registry, unrecorded, source, staging, manifest, thread>>,
         NEW l \in {"scan", "exited"}, pc' = [pc EXCEPT ![p] = l], pc[p] \in {"swap", "finish"}
  PROVE  Matched'
<1> USE DEF Typed, TypeOK
<1>1. \A n : Agrees(n)' <=> Agrees(n)
  BY DEF Agrees
<1>2. ASSUME NEW t \in Threads, at'[t] # "free" PROVE Stage(t)'
  BY <1>1, <1>2 DEF Matched, Stage, thread
<1>3. ASSUME NEW n \in Names, locks'[n] = None PROVE Agrees(n)
  <2>1. CASE locks[n] = p
    BY <2>1 DEF Matched, Held
  <2>2. CASE locks[n] # p
    BY <1>3, <2>2 DEF Matched, Release
  <2> QED BY <2>1, <2>2
<1>4. ASSUME NEW n \in Names, NEW q \in Pushers, locks'[n] = q PROVE Held(n, q)'
  <2>1. q # p /\ locks[n] = q /\ Held(n, q)
    BY <1>4, SentinelAssumption DEF Matched, Release
  <2> QED BY <1>1, <2>1 DEF Held
<1>5. \A q \in Pushers : pc'[q] \in {"lock", "materialize"} => registry[NameOf[q]] # Absent
  BY DEF Matched
<1> QED BY <1>1, <1>2, <1>3, <1>4, <1>5 DEF Matched

\* A registration keeps the match: its source directory is new.
LEMMA MatchedRegister ==
  ASSUME OwnDirectories, Typed, Exclusive, Matched, NEW p \in Pushers, Register(p)
  PROVE  Matched'
<1> USE DEF Typed, TypeOK
<1>1. /\ UNCHANGED <<unrecorded, staging, locks, manifest, thread>>
      /\ pc[p] = "register" /\ pc' = [pc EXCEPT ![p] = "image"]
      /\ NameOf[p] \in Names /\ Slug(p) = SlugOf[NameOf[p]] /\ Slug(p) \in Slugs
  BY SlugType DEF Register, Goto, client, Slug
<1>2. ASSUME NEW n \in Names, NEW q \in Pushers, locks[n] = q PROVE q # p /\ Held(n, q)
  BY <1>1, <1>2 DEF Matched, Held
<1>3. CASE registry[NameOf[p]] # Absent
  <2>1. UNCHANGED <<registry, source>>
    BY <1>3, <1>1 DEF Register
  <2> QED BY <1>1, <1>2, <2>1, MatchedQuiet
<1>4. CASE registry[NameOf[p]] = Absent
  <2>1. \A n \in Names : n # NameOf[p] =>
          registry'[n] = registry[n] /\ source'[SlugOf[n]] = source[SlugOf[n]]
    BY <1>1, NamesAssumption DEF Register, OwnDirectories
  <2>2. registry'[NameOf[p]] = {} /\ {} # Absent
    BY <1>1, <1>4, SentinelAssumption DEF Register
  <2>3. ASSUME NEW n \in Names, Agrees(n) PROVE Agrees(n)'
    <3>1. CASE n = NameOf[p]
      BY <1>1, <1>4, <2>2, <2>3, <3>1 DEF Agrees, Register
    <3>2. CASE n # NameOf[p]
      BY <1>1, <2>1, <2>3, <3>2 DEF Agrees
    <3> QED BY <3>1, <3>2
  <2>4. ASSUME NEW t \in Threads, at'[t] # "free" PROVE Stage(t)'
    <3>1. at[t] # "free" /\ Stage(t) /\ UNCHANGED <<at, owner, dir, tree, filled>>
      BY <1>1, <2>4 DEF Matched, thread
    <3>2. /\ owner[t] \in Pushers /\ NameOf[owner[t]] \in Names
          /\ dir[t] = SlugOf[NameOf[owner[t]]] /\ pc[owner[t]] = "materialize"
      BY <3>1, BusyApart
    <3>3. NameOf[owner[t]] # NameOf[p]
      BY <1>4, <3>2 DEF Matched
    <3> QED BY <1>1, <2>1, <2>3, <3>1, <3>2, <3>3 DEF Stage
  <2>5. ASSUME NEW n \in Names, NEW q \in Pushers, locks'[n] = q PROVE Held(n, q)'
    <3>1. Held(n, q) /\ pc'[q] = pc[q] /\ manifest'[q] = manifest[q]
      BY <1>1, <1>2, <2>5
    <3> QED BY <2>3, <3>1 DEF Held
  <2>6. \A q \in Pushers : pc'[q] \in {"lock", "materialize"} => registry'[NameOf[q]] # Absent
    BY <1>1, <2>1, <2>2, SlugType DEF Matched
  <2>7. \A n \in Names : locks'[n] = None => Agrees(n)'
    BY <1>1, <2>3 DEF Matched
  <2> QED BY <2>4, <2>5, <2>6, <2>7 DEF Matched
<1> QED BY <1>3, <1>4

\* Taking the push lock keeps the match: the thread starts from the recorded tree.
LEMMA MatchedLock ==
  ASSUME Typed, Exclusive, Matched, NEW p \in Pushers, Lock(p)
  PROVE  Matched'
<1> USE DEF Typed, TypeOK
<1>1. PICK t \in Threads :
        /\ locks[NameOf[p]] = None /\ at[t] = "free" /\ pc[p] = "lock"
        /\ pc' = [pc EXCEPT ![p] = "materialize"]
        /\ locks' = [locks EXCEPT ![NameOf[p]] = p]
        /\ at' = [at EXCEPT ![t] = "clear"] /\ owner' = [owner EXCEPT ![t] = p]
        /\ tree' = [tree EXCEPT ![t] = manifest[p]] /\ dir' = [dir EXCEPT ![t] = Slug(p)]
        /\ UNCHANGED <<registry, unrecorded, source, staging, manifest, filled>>
  BY DEF Lock, Goto, reg, dirs, client
<1>2. registry[NameOf[p]] # Absent /\ Agrees(NameOf[p]) /\ NameOf[p] \in Names
  BY <1>1, SlugType DEF Matched
<1>3. \A n : Agrees(n)' <=> Agrees(n)
  BY <1>1 DEF Agrees
<1>4. Stage(t)'
  BY <1>1, <1>2, <1>3 DEF Stage
<1>5. ASSUME NEW u \in Threads, u # t, at'[u] # "free" PROVE Stage(u)'
  <2>1. Stage(u) /\ at'[u] = at[u] /\ owner'[u] = owner[u] /\ dir'[u] = dir[u] /\ tree'[u] = tree[u]
    BY <1>1, <1>5 DEF Matched
  <2> QED BY <1>1, <1>3, <2>1 DEF Stage
<1>6. ASSUME NEW n \in Names, NEW q \in Pushers, locks'[n] = q PROVE Held(n, q)'
  <2>1. CASE q = p
    <3>1. manifest[p] # Absent
      BY <1>1, SentinelAssumption DEF Located, Trees
    <3>2. n = NameOf[p]
      BY <1>1, <1>6, <2>1 DEF Matched, Held
    <3> QED BY <1>1, <2>1, <3>1, <3>2 DEF Held
  <2>2. CASE q # p
    BY <1>1, <1>2, <1>3, <1>6, <2>2 DEF Matched, Held
  <2> QED BY <2>1, <2>2
<1>7. \A q \in Pushers : pc'[q] \in {"lock", "materialize"} => registry[NameOf[q]] # Absent
  BY <1>1, <1>2 DEF Matched
<1>8. \A n \in Names : locks'[n] = None => Agrees(n)'
  BY <1>1, <1>3, SentinelAssumption DEF Matched
<1> QED BY <1>1, <1>4, <1>5, <1>6, <1>7, <1>8 DEF Matched

\* Recording a push keeps the match: the thread is done with the directory.
LEMMA MatchedRecord ==
  ASSUME OwnDirectories, Typed, Exclusive, Matched, NEW p \in Pushers, Record(p)
  PROVE  Matched'
<1> USE DEF Typed, TypeOK
<1>1. PICK t \in Threads :
        /\ owner[t] = p /\ at[t] = "done" /\ pc[p] = "materialize"
        /\ pc' = [pc EXCEPT ![p] = "image"]
        /\ at' = [at EXCEPT ![t] = "free"] /\ owner' = [owner EXCEPT ![t] = None]
        /\ registry' = IF p \in BySlug \/ registry[NameOf[p]] = Absent THEN registry
                       ELSE [registry EXCEPT ![NameOf[p]] = manifest[p]]
        /\ unrecorded' = IF p \in BySlug THEN unrecorded \cup {NameOf[p]}
                         ELSE unrecorded \ {NameOf[p]}
        /\ UNCHANGED <<source, staging, locks, manifest, tree, dir, filled>>
  BY DEF Record, Goto, dirs, client
<1>2. /\ NameOf[p] \in Names /\ locks[NameOf[p]] = p /\ dir[t] = SlugOf[NameOf[p]]
      /\ \A u \in Threads : at[u] # "free" /\ dir[u] = dir[t] => u = t
  BY <1>1, BusyApart
<1>3. registry[NameOf[p]] # Absent /\ source[SlugOf[NameOf[p]]] = manifest[p]
  BY <1>1, <1>2 DEF Matched, Stage
<1>4. manifest[p] # Absent
  BY <1>1, SentinelAssumption DEF Located, Trees
<1>5. Agrees(NameOf[p])'
  BY <1>1, <1>2, <1>3 DEF Agrees
<1>6. ASSUME NEW n \in Names, n # NameOf[p], Agrees(n) PROVE Agrees(n)'
  BY <1>1, <1>6 DEF Agrees
<1>7. ASSUME NEW u \in Threads, at'[u] # "free" PROVE Stage(u)'
  <2>1. at[u] # "free" /\ u # t /\ Stage(u) /\ at'[u] = at[u] /\ owner'[u] = owner[u]
    BY <1>1, <1>7 DEF Matched
  <2>2. dir[u] = SlugOf[NameOf[owner[u]]] /\ NameOf[owner[u]] \in Names
    BY <2>1, BusyApart
  <2>3. NameOf[owner[u]] # NameOf[p]
    BY <1>2, <2>1, <2>2
  <2> QED BY <1>1, <1>6, <2>1, <2>2, <2>3 DEF Stage
<1>8. ASSUME NEW n \in Names, NEW q \in Pushers, locks[n] = q PROVE Held(n, q)'
  <2>1. Held(n, q)
    BY <1>8 DEF Matched
  <2>2. n = NameOf[p] => q = p
    BY <1>2, <1>8
  <2> QED BY <1>1, <1>4, <1>5, <1>6, <2>1, <2>2 DEF Held
<1>9. \A q \in Pushers : pc'[q] \in {"lock", "materialize"} => registry'[NameOf[q]] # Absent
  BY <1>1, <1>4, SlugType DEF Matched
<1>10. \A n \in Names : locks'[n] = None => Agrees(n)'
  BY <1>1, <1>5, <1>6 DEF Matched
<1> QED BY <1>1, <1>7, <1>8, <1>9, <1>10 DEF Matched

\* A push that failed keeps the match: its thread said what it did.
LEMMA MatchedFailure ==
  ASSUME OwnDirectories, Typed, Exclusive, Matched, NEW p \in Pushers, PushFails(p)
  PROVE  Matched'
<1> USE DEF Typed, TypeOK
<1>1. PICK t \in Threads :
        /\ owner[t] = p /\ at[t] = "failed" /\ pc[p] = "materialize"
        /\ pc' = [pc EXCEPT ![p] = "exited"]
        /\ at' = [at EXCEPT ![t] = "free"] /\ owner' = [owner EXCEPT ![t] = None]
        /\ Release(p)
        /\ UNCHANGED <<registry, unrecorded, source, staging, manifest, tree, dir, filled>>
  BY DEF PushFails, Goto, reg, dirs, client
<1>2. Stage(t)
  BY <1>1 DEF Matched
<1>3. \A n : Agrees(n)' <=> Agrees(n)
  BY <1>1 DEF Agrees
<1>4. ASSUME NEW n \in Names, locks'[n] = None PROVE Agrees(n)
  <2>1. CASE locks[n] = p
    BY <1>1, <1>2, <2>1 DEF Matched, Held, Stage
  <2>2. CASE locks[n] # p
    BY <1>1, <1>4, <2>2 DEF Matched, Release
  <2> QED BY <2>1, <2>2
<1>5. ASSUME NEW n \in Names, NEW q \in Pushers, locks'[n] = q PROVE Held(n, q)'
  <2>1. q # p /\ locks[n] = q /\ Held(n, q)
    BY <1>1, <1>5, SentinelAssumption DEF Matched, Release
  <2> QED BY <1>1, <1>3, <2>1 DEF Held
<1>6. ASSUME NEW u \in Threads, at'[u] # "free" PROVE Stage(u)'
  <2>1. Stage(u) /\ at'[u] = at[u] /\ owner'[u] = owner[u]
    BY <1>1, <1>6 DEF Matched
  <2> QED BY <1>1, <1>3, <2>1 DEF Stage
<1>7. \A q \in Pushers : pc'[q] \in {"lock", "materialize"} => registry[NameOf[q]] # Absent
  BY <1>1 DEF Matched
<1> QED BY <1>1, <1>3, <1>4, <1>5, <1>6, <1>7 DEF Matched

\* A crash keeps the match: what it loses is known not to agree.
LEMMA MatchedCrash ==
  ASSUME Typed, Matched, Crash
  PROVE  Matched'
<1> USE DEF Typed, TypeOK
<1>1. /\ registry' = saved /\ locks' = [n \in Names |-> None] /\ source' = source
      /\ at' = [t \in Threads |-> "free"]
      /\ unrecorded' = unrecorded \cup {n \in Names : locks[n] # None \/ saved[n] # registry[n]}
      /\ \A p \in Pushers : pc'[p] \in {"start", "check", "upload", "scan", "exited"}
  BY DEF Crash, dirs
<1>2. \A n \in Names : Agrees(n)'
  BY <1>1 DEF Matched, Agrees
<1> QED BY <1>1, <1>2, SentinelAssumption DEF Matched

\* A step that leaves registry, directories, locks and handlers alone keeps
\* the match.
LEMMA MatchedStutter ==
  ASSUME Matched,
         UNCHANGED <<registry, unrecorded, source, staging, locks, pc, manifest, thread>>
  PROVE  Matched'
<1>1. \A n : Agrees(n)' <=> Agrees(n)
  BY DEF Agrees
<1>2. \A t \in Threads : Stage(t) => Stage(t)'
  BY <1>1 DEF Stage, thread
<1>3. \A n \in Names, p \in Pushers : Held(n, p) => Held(n, p)'
  BY <1>1 DEF Held
<1> QED BY <1>1, <1>2, <1>3 DEF Matched, thread

\* The match is inductive until a handler is dropped.
LEMMA MatchedStep ==
  ASSUME OwnDirectories, Typed, Exclusive, Matched, [Next]_vars, cancels' = 0
  PROVE  Matched'
<1> USE DEF Typed, TypeOK
<1>1. CASE UNCHANGED vars
  <2>1. UNCHANGED <<registry, unrecorded, source, staging, locks, pc, manifest, thread>>
    BY <1>1 DEF vars, reg, dirs, client
  <2> QED BY <2>1, MatchedStutter
<1>2. ASSUME NEW t \in Threads, ThreadStep(t) PROVE Matched'
  BY <1>2, MatchedThread
<1>3. ASSUME NEW p \in Pushers, Edit(p) PROVE Matched'
  <2>1. UNCHANGED <<registry, unrecorded, source, staging, locks, pc, manifest, thread>>
    BY <1>3 DEF Edit, reg, dirs, client
  <2> QED BY <2>1, MatchedStutter
<1>4. ASSUME NEW s \in Slugs, WorkerStep(s) PROVE Matched'
  <2>1. UNCHANGED <<registry, unrecorded, source, staging, locks, pc, manifest, thread>>
    BY <1>4 DEF WorkerStep, Kicked, WatchTick, Indexed, reg, dirs, client, thread
  <2> QED BY <2>1, MatchedStutter
<1>5. ASSUME NEW p \in Pushers,
             \/ Ensure(p) \/ Scan(p) \/ Check(p) \/ UploadFails(p) \/ Unknown(p) \/ Plan(p)
             \/ Refused(p) \/ (\E b \in Blobs : Upload(p, b)) \/ Image(p) \/ Write(p) \/ Rerun(p)
      PROVE  Matched'
  <2>1. UNCHANGED <<registry, unrecorded, source, staging, locks, thread>>
    BY <1>5 DEF Ensure, Scan, Check, UploadFails, Unknown, Plan, Refused, Upload, Image, Write,
                Rerun, reg, dirs
  <2>2. \A q \in Pushers \ {p} : pc'[q] = pc[q] /\ manifest'[q] = manifest[q]
    BY <1>5 DEF Ensure, Scan, Check, UploadFails, Unknown, Plan, Refused, Upload, Image, Write,
                Rerun, Goto, client
  <2>3. /\ pc[p] # "materialize" /\ pc'[p] # "materialize"
        /\ pc'[p] = "lock" => registry[NameOf[p]] # Absent
        /\ pc[p] \in {"image", "write", "swap", "finish"} =>
             pc'[p] \in {"image", "write", "swap", "finish"} /\ manifest'[p] = manifest[p]
    BY <1>5 DEF Ensure, Scan, Check, UploadFails, Unknown, Plan, Refused, Upload, Image, Write,
                Rerun, Goto, Known, client
  <2> QED BY <2>1, <2>2, <2>3, MatchedQuiet
<1>6. ASSUME NEW p \in Pushers, Swap(p) PROVE Matched'
  <2>1. /\ UNCHANGED <<registry, unrecorded, source, staging, locks, thread, manifest>>
        /\ pc[p] = "swap"
        /\ pc' = [pc EXCEPT ![p] = IF manifest[p] = Absent THEN "scan" ELSE "finish"]
    BY <1>6 DEF Swap, Goto, dirs, client
  <2>2. manifest[p] = Absent => \A n \in Names : locks[n] # p
    BY DEF Matched, Held
  <2> QED BY <2>1, <2>2, MatchedQuiet
<1>7. ASSUME NEW p \in Pushers, SwapFails(p) \/ Finish(p) PROVE Matched'
  <2>1. /\ Release(p) /\ UNCHANGED <<registry, unrecorded, source, staging, manifest, thread>>
        /\ pc[p] \in {"swap", "finish"}
        /\ \E l \in {"scan", "exited"} : pc' = [pc EXCEPT ![p] = l]
    BY <1>7 DEF SwapFails, Finish, Goto, reg, dirs, client
  <2> QED BY <2>1, MatchedRelease
<1>8. ASSUME NEW p \in Pushers PROVE ~Cancel(p)
  BY DEF Cancel
<1> QED BY <1>1, <1>2, <1>3, <1>4, <1>5, <1>6, <1>7, <1>8, MatchedRegister, MatchedLock,
           MatchedRecord, MatchedFailure, MatchedCrash DEF Next, ClientStep

\* Pushes of any number of clients, however they interleave, leave the
\* directory of a repository holding exactly the tree its record is about; a
\* push by slug, a failed replacement or a crash can part the two only until
\* the next push by id.  This holds until a handler is dropped, through every
\* crash and disk fault.
THEOREM RecordsMatch ==
  ASSUME OwnDirectories
  PROVE  Spec => []RecordMatchesSource
<1> DEFINE Inv == Typed /\ Locked /\ UntilDropped /\ (cancels = 0 => Matched)
<1>1. Init => Inv
  BY TypedInit, ExclusiveInit, MatchedInit DEF UntilDropped
<1>2. Inv /\ [Next]_vars => Inv'
  <2> SUFFICES ASSUME Inv, [Next]_vars PROVE Inv'
    OBVIOUS
  <2>1. Typed' /\ Locked' /\ UntilDropped'
    BY ExclusiveStep
  <2>2. ASSUME cancels' = 0 PROVE Matched'
    <3>1. cancels = 0
      BY <2>2, EventsAreCounted
    <3>2. Exclusive
      BY <3>1, AttendedIsExclusive DEF UntilDropped
    <3> QED BY <2>2, <3>1, <3>2, MatchedStep
  <2> QED BY <2>1, <2>2
<1>3. Inv => RecordMatchesSource
  BY DEF Matched, Agrees, RecordMatchesSource
<1> QED BY <1>1, <1>2, <1>3, PTL DEF Spec
=============================================================================
