------------------------- MODULE PublicationProofs -------------------------
(***************************************************************************)
(* TLAPS proofs about Publication, for every site, bound and number of     *)
(* attempts.                                                               *)
(***************************************************************************)
EXTENDS Publication, TLAPS

USE DEF Gens

\* The public projection of well-typed rows is well typed.
LEMMA ProjectionType ==
  ASSUME published \in [Items -> Revisions \cup {None}],
         shared \in [Shared -> SharedValues]
  PROVE  Projection \in Projections
  BY DEF Projection, ProjectionOf, Projections

\* Superseding keeps the shape of the rows.
LEMMA SupersededType ==
  ASSUME TypeOK
  PROVE  /\ Superseded(jobs) \in [Gens -> Jobs \cup {None}]
         /\ \A g \in Gens : g <= generation => Superseded(jobs)[g] \in Jobs
<1>1. ASSUME NEW g \in Gens, g <= generation
      PROVE  jobs[g] \in Jobs
  BY <1>1 DEF TypeOK
<1>2. ASSUME NEW g \in Gens, g < generation
      PROVE  [jobs[g] EXCEPT !.state = "superseded", !.due = FALSE] \in Jobs
  <2>1. jobs[g] \in Jobs
    BY <1>1, <1>2 DEF TypeOK
  <2> QED BY <2>1 DEF Jobs, JobStates
<1> QED BY <1>1, <1>2 DEF TypeOK, Superseded

\* A new generation brings a well-typed row and nothing else.
LEMMA MarkDirtyType ==
  ASSUME TypeOK, MarkDirty
  PROVE  /\ generation' \in 0..MaxGen
         /\ jobs' \in [Gens -> Jobs \cup {None}]
         /\ \A g \in Gens : g <= generation' => jobs'[g] \in Jobs
         /\ 0..generation \subseteq 0..generation'
  BY BoundsAssumption DEF TypeOK, MarkDirty, NewJob, Jobs, JobStates

\* Rewriting the row of an allocated generation keeps the shape of the rows.
LEMMA RowType ==
  ASSUME TypeOK, NEW g \in Gens, g <= generation, NEW row \in Jobs
  PROVE  LET rows == [jobs EXCEPT ![g] = row]
         IN  /\ rows \in [Gens -> Jobs \cup {None}]
             /\ \A h \in Gens : h <= generation => rows[h] \in Jobs
  BY DEF TypeOK

\* A row that records one more failure is well typed.
LEMMA FailedRowType ==
  ASSUME NEW j \in Jobs, NEW b \in BOOLEAN
  PROVE  [j EXCEPT !.state = "failed", !.attempts = @ + 1, !.due = b] \in Jobs
<1>1. j.attempts + 1 \in Nat
  BY DEF Jobs
<1> QED BY <1>1 DEF Jobs, JobStates

-----------------------------------------------------------------------------
(* Type correctness.                                                       *)

LEMMA TypeInit == Init => TypeOK
  BY BoundsAssumption DEF Init, TypeOK, Steps, Fallible, Fenced

LEMMA TypeNext == TypeOK /\ [Next]_vars => TypeOK'
<1> SUFFICES ASSUME TypeOK, [Next]_vars PROVE TypeOK'
  OBVIOUS
<1> USE BoundsAssumption
<1> USE DEF TypeOK, Steps, Fallible, Fenced, Leave, site, objects, locals
<1>1. CASE Mutate
  <2>1. ASSUME NEW i \in Items, NEW r \in Revisions, Publish(i, r) PROVE TypeOK'
    BY <2>1, MarkDirtyType DEF Publish, Mutation
  <2>2. ASSUME NEW i \in Items, Unpublish(i) PROVE TypeOK'
    BY <2>2, MarkDirtyType DEF Unpublish, Mutation
  <2>3. ASSUME NEW s \in Shared, NEW v \in SharedValues, PutShared(s, v) PROVE TypeOK'
    BY <2>3, MarkDirtyType DEF PutShared, Mutation
  <2> QED BY <1>1, <2>1, <2>2, <2>3 DEF Mutate
<1>2. CASE Tick
  BY <1>2, SupersededType DEF Tick
<1>3. CASE Pick
  BY <1>3 DEF Pick, Jobs
<1>4. CASE PickNothing
  BY <1>4 DEF PickNothing
<1>5. CASE FreshPass
  BY <1>5 DEF FreshPass, FreshSteps, AfterFresh
<1>6. CASE FreshStale
  BY <1>6, SupersededType DEF FreshStale
<1>7. CASE ExportStale \/ ExportInvalid \/ Export \/ Recheck
  <2>1. CASE ExportStale
    BY <2>1 DEF ExportStale
  <2>4. CASE ExportInvalid
    BY <2>4 DEF ExportInvalid
  <2>2. CASE Export
    BY <2>2, ProjectionType DEF Export
  <2>3. CASE Recheck
    BY <2>3 DEF Recheck
  <2> QED BY <1>7, <2>1, <2>2, <2>3, <2>4
<1>8. ASSUME NEW o \in {"fresh_mark", "fail"}, PutSnapshot(o) PROVE TypeOK'
  BY <1>8 DEF PutSnapshot
<1>9. CASE MarkUploaded
  <2> DEFINE row == [jobs[cur] EXCEPT !.state = "snapshot_uploaded",
                                      !.digest = bytes, !.due = FALSE]
  <2>1. cur \in Gens /\ cur <= generation
    BY <1>9 DEF MarkUploaded
  <2>2. row \in Jobs
    BY <2>1 DEF Jobs, JobStates
  <2>3. jobs' = [jobs EXCEPT ![cur] = row]
    BY <1>9, <2>1 DEF MarkUploaded, Jobs
  <2> QED BY <1>9, <2>1, <2>2, <2>3, RowType DEF MarkUploaded
<1>10. ASSUME NEW o \in {"fresh_hook", "fail"}, PutLatest(o) PROVE TypeOK'
  BY <1>10 DEF PutLatest, Pointer, Pointers, Jobs
<1>11. CASE AbandonLatest \/ LandLate
  <2>1. CASE AbandonLatest
    BY <2>1 DEF AbandonLatest, Pointer, Pointers, Jobs
  <2>2. CASE LandLate
    BY <2>2 DEF LandLate, Pointer, Pointers, Jobs
  <2> QED BY <1>11, <2>1, <2>2
<1>12. ASSUME NEW o \in {"mark_triggered", "fail"}, Hook(o) PROVE TypeOK'
  BY <1>12 DEF Hook
<1>13. CASE MarkTriggered
  <2> DEFINE row == [jobs[cur] EXCEPT !.state = "build_triggered", !.due = FALSE]
  <2>1. cur \in Gens /\ cur <= generation
    BY <1>13 DEF MarkTriggered
  <2>2. row \in Jobs
    BY <2>1 DEF Jobs, JobStates
  <2>3. jobs' = [jobs EXCEPT ![cur] = row]
    BY <1>13, <2>1 DEF MarkTriggered, Jobs
  <2> QED BY <1>13, <2>1, <2>2, <2>3, RowType DEF MarkTriggered
<1>14. CASE StageFails \/ LoseFailure \/ Crash \/ Restart
  <2>1. CASE StageFails
    BY <2>1 DEF StageFails
  <2>2. CASE LoseFailure
    BY <2>2 DEF LoseFailure
  <2>3. CASE Crash
    BY <2>3 DEF Crash
  <2>4. CASE Restart
    BY <2>4 DEF Restart
  <2> QED BY <1>14, <2>1, <2>2, <2>3, <2>4
<1>15. CASE RecordFailure
  <2> DEFINE row == [jobs[cur] EXCEPT !.state = "failed", !.attempts = @ + 1,
                                      !.due = tries + 1 < MaxAttempts]
  <2>1. cur \in Gens /\ cur <= generation
    BY <1>15 DEF RecordFailure
  <2>4. (tries + 1 < MaxAttempts) \in BOOLEAN
    OBVIOUS
  <2>2. row \in Jobs
    BY <2>1, <2>4, FailedRowType
  <2>3. jobs' \in {jobs, [jobs EXCEPT ![cur] = row]}
    BY <1>15, <2>1 DEF RecordFailure, Jobs
  <2> QED BY <1>15, <2>1, <2>2, <2>3, RowType DEF RecordFailure
<1>16. ASSUME NEW g \in Gens, Retry(g) PROVE TypeOK'
  <2> DEFINE row ==
        [jobs[g] EXCEPT !.state = IF jobs[g].digest = None
                                    THEN "pending" ELSE "snapshot_uploaded",
                        !.attempts = 0, !.due = FALSE]
  <2>1. g <= generation
    BY <1>16 DEF Retry
  <2>2. row \in Jobs
    BY <2>1 DEF Jobs, JobStates
  <2>3. jobs' = [jobs EXCEPT ![g] = row]
    BY <1>16, <2>1 DEF Retry, Jobs
  <2> QED BY <1>16, <2>1, <2>2, <2>3, RowType DEF Retry
<1>17. CASE UNCHANGED vars
  BY <1>17 DEF vars
<1> QED BY <1>1, <1>2, <1>3, <1>4, <1>5, <1>6, <1>7, <1>8, <1>9, <1>10, <1>11,
           <1>12, <1>13, <1>14, <1>15, <1>16, <1>17 DEF Next

\* Every variable keeps its type, and every generation has its job row.
THEOREM TypeCorrect == Spec => []TypeOK
  BY TypeInit, TypeNext, PTL DEF Spec

-----------------------------------------------------------------------------
(* The rows after each kind of update.                                     *)

\* Superseding changes neither digests nor attempts, and only closes rows.
LEMMA SupersededRows ==
  ASSUME TypeOK, NEW g \in 1..generation
  PROVE  /\ Superseded(jobs)[g].digest = jobs[g].digest
         /\ Superseded(jobs)[g].attempts = jobs[g].attempts
         /\ Superseded(jobs)[g] = jobs[g] \/ Superseded(jobs)[g].state = "superseded"
         /\ jobs[g].state \notin OpenStates => Superseded(jobs)[g] = jobs[g]
<1>1. g \in Gens /\ g <= generation /\ jobs[g] \in Jobs
  BY BoundsAssumption DEF TypeOK
<1> QED BY <1>1 DEF Superseded, Jobs

\* A public mutation leaves the old rows, the store and the worker alone.
LEMMA MutationRows ==
  ASSUME TypeOK, Mutation, MarkDirty
  PROVE  /\ generation' = generation + 1 /\ generation' \in Gens
         /\ jobs'[generation'] = NewJob
         /\ \A g \in 1..generation : jobs'[g] = jobs[g]
  BY BoundsAssumption DEF TypeOK, Mutation, MarkDirty

\* Every public mutation marks the site dirty or leaves the projection alone.
LEMMA MutationKinds ==
  ASSUME TypeOK, Mutate
  PROVE  /\ Mutation
         /\ \/ MarkDirty
            \/ Projection' = Projection /\ UNCHANGED <<generation, jobs>>
<1>1. ASSUME NEW i \in Items, NEW r \in Revisions, Publish(i, r)
      PROVE  Mutation /\ MarkDirty
  BY <1>1 DEF Publish
<1>2. ASSUME NEW i \in Items, Unpublish(i)
      PROVE  Mutation /\ MarkDirty
  BY <1>2 DEF Unpublish
<1>3. ASSUME NEW s \in Shared, NEW v \in SharedValues, PutShared(s, v)
      PROVE  /\ Mutation
             /\ MarkDirty \/ (Projection' = Projection /\ UNCHANGED <<generation, jobs>>)
  <2>1. CASE PublishedUses(s)
    BY <1>3, <2>1 DEF PutShared
  <2>2. CASE ~PublishedUses(s)
    <3>1. \A t \in UsedIn(published) : shared'[t] = shared[t]
      BY <1>3, <2>2 DEF PutShared, PublishedUses, TypeOK
    <3>2. published' = published
      BY <1>3 DEF PutShared
    <3>3. ProjectionOf(published, shared') = ProjectionOf(published, shared)
      BY <3>1 DEF ProjectionOf
    <3> QED BY <1>3, <2>2, <3>2, <3>3 DEF PutShared, Projection
  <2> QED BY <2>1, <2>2
<1> QED BY <1>1, <1>2, <1>3 DEF Mutate

\* The worker's generation is allocated wherever a stage may fail.
LEMMA CurAllocated ==
  ASSUME TypeOK, pc \in Fallible \cup {"fail"}
  PROVE  cur \in Gens /\ cur \in 1..generation /\ jobs[cur] \in Jobs
  BY BoundsAssumption DEF TypeOK

LEMMA UploadedRow ==
  ASSUME TypeOK, MarkUploaded
  PROVE  /\ cur \in 1..generation /\ cur \in Gens
         /\ jobs'[cur].state = "snapshot_uploaded"
         /\ jobs'[cur].digest = bytes
         /\ jobs'[cur].attempts = jobs[cur].attempts
         /\ \A g \in 1..generation : g # cur => jobs'[g] = jobs[g]
<1>1. cur \in 1..generation /\ cur \in Gens /\ jobs[cur] \in Jobs
  BY CurAllocated DEF MarkUploaded, Fallible
<1>2. jobs' = [jobs EXCEPT ![cur] = [jobs[cur] EXCEPT
                 !.state = "snapshot_uploaded", !.digest = bytes, !.due = FALSE]]
  BY <1>1 DEF MarkUploaded, TypeOK, Jobs
<1> QED BY <1>1, <1>2 DEF TypeOK, Jobs

LEMMA TriggeredRow ==
  ASSUME TypeOK, MarkTriggered
  PROVE  /\ cur \in 1..generation /\ cur \in Gens
         /\ jobs'[cur].state = "build_triggered"
         /\ jobs'[cur].digest = jobs[cur].digest
         /\ jobs'[cur].attempts = jobs[cur].attempts
         /\ \A g \in 1..generation : g # cur => jobs'[g] = jobs[g]
<1>1. cur \in 1..generation /\ cur \in Gens /\ jobs[cur] \in Jobs
  BY CurAllocated DEF MarkTriggered, Fallible
<1>2. jobs' = [jobs EXCEPT ![cur] = [jobs[cur] EXCEPT
                 !.state = "build_triggered", !.due = FALSE]]
  BY <1>1 DEF MarkTriggered, TypeOK, Jobs
<1> QED BY <1>1, <1>2 DEF TypeOK, Jobs

LEMMA FailedRow ==
  ASSUME TypeOK, RecordFailure
  PROVE  /\ cur \in 1..generation /\ cur \in Gens
         /\ jobs'[cur].digest = jobs[cur].digest
         /\ \/ jobs'[cur] = jobs[cur] /\ jobs[cur].state \in Final
            \/ /\ jobs[cur].state \in OpenStates
               /\ jobs'[cur].state = "failed"
               /\ jobs'[cur].attempts = jobs[cur].attempts + 1
               /\ jobs'[cur].due <=> tries + 1 < MaxAttempts
         /\ \A g \in 1..generation : g # cur => jobs'[g] = jobs[g]
<1>1. cur \in 1..generation /\ cur \in Gens /\ jobs[cur] \in Jobs
  BY CurAllocated DEF RecordFailure, Fallible
<1>2. CASE jobs[cur].state \in OpenStates
  <2>1. jobs' = [jobs EXCEPT ![cur] = [jobs[cur] EXCEPT !.state = "failed",
                   !.attempts = @ + 1, !.due = tries + 1 < MaxAttempts]]
    BY <1>1, <1>2 DEF RecordFailure, TypeOK, Jobs
  <2>2. jobs'[cur] = [jobs[cur] EXCEPT !.state = "failed",
                        !.attempts = @ + 1, !.due = tries + 1 < MaxAttempts]
    BY <1>1, <2>1 DEF TypeOK
  <2>3. \A g \in 1..generation : g # cur => jobs'[g] = jobs[g]
    BY <2>1 DEF TypeOK
  <2>4. /\ jobs'[cur].state = "failed"
        /\ jobs'[cur].digest = jobs[cur].digest
        /\ jobs'[cur].attempts = jobs[cur].attempts + 1
    BY <1>1, <2>2 DEF Jobs
  <2>5. jobs'[cur].due = (tries + 1 < MaxAttempts)
    BY <1>1, <2>2, Zenon DEF Jobs
  <2> QED BY <1>1, <1>2, <2>3, <2>4, <2>5
<1>3. CASE jobs[cur].state \notin OpenStates
  BY <1>1, <1>3 DEF RecordFailure, Jobs, JobStates, OpenStates, Final
<1> QED BY <1>2, <1>3

LEMMA RetriedRow ==
  ASSUME TypeOK, NEW g \in Gens, Retry(g)
  PROVE  /\ g \in 1..generation
         /\ jobs'[g].state = IF jobs[g].digest = None THEN "pending"
                                                     ELSE "snapshot_uploaded"
         /\ jobs'[g].digest = jobs[g].digest
         /\ jobs'[g].attempts = 0
         /\ \A h \in 1..generation : h # g => jobs'[h] = jobs[h]
<1>1. g \in 1..generation /\ jobs[g] \in Jobs
  BY DEF Retry, TypeOK
<1>2. jobs' = [jobs EXCEPT ![g] = [jobs[g] EXCEPT
                 !.state = IF jobs[g].digest = None THEN "pending"
                                                    ELSE "snapshot_uploaded",
                 !.attempts = 0, !.due = FALSE]]
  BY <1>1 DEF Retry, TypeOK, Jobs
<1>3. jobs'[g] = [jobs[g] EXCEPT
                 !.state = IF jobs[g].digest = None THEN "pending"
                                                    ELSE "snapshot_uploaded",
                 !.attempts = 0, !.due = FALSE]
  BY <1>1, <1>2 DEF TypeOK
<1>4. \A h \in 1..generation : h # g => jobs'[h] = jobs[h]
  BY <1>2 DEF TypeOK
<1> QED BY <1>1, <1>3, <1>4 DEF Jobs

-----------------------------------------------------------------------------
(* The inductive invariant, one lemma per part.                            *)

\* Steps that only move the worker.
Quiet ==
  PickNothing \/ FreshPass \/ ExportStale \/ ExportInvalid \/ Recheck
    \/ StageFails \/ LoseFailure \/ Crash \/ Restart

LEMMA QuietFrame ==
  ASSUME Quiet
  PROVE  UNCHANGED <<site, generation, jobs, objects, hooked>>
  BY DEF Quiet, PickNothing, FreshPass, ExportStale, ExportInvalid, Recheck,
         StageFails, LoseFailure, Crash, Restart

LEMMA StoreNext == TypeOK /\ PipelineInv /\ [Next]_vars => StoreMatchesRows'
<1> SUFFICES ASSUME TypeOK, PipelineInv, [Next]_vars PROVE StoreMatchesRows'
  OBVIOUS
<1> USE DEF PipelineInv, StoreMatchesRows, site, objects
<1>1. CASE Mutate
  <2>1. Mutation /\ (MarkDirty \/ UNCHANGED <<generation, jobs>>)
    BY <1>1, MutationKinds
  <2>2. CASE MarkDirty
    <3>1. \A g \in 1..generation' : g \in 1..generation \/ g = generation'
      BY <2>1, <2>2, MutationRows DEF TypeOK
    <3> QED BY <2>1, <2>2, <3>1, MutationRows DEF Mutation, NewJob, TypeOK
  <2> QED BY <2>1, <2>2 DEF Mutation
<1>2. CASE Tick
  BY <1>2, SupersededRows DEF Tick
<1>3. CASE FreshStale
  BY <1>3, SupersededRows DEF FreshStale
<1>4. CASE Pick \/ Export
  BY <1>4 DEF Pick, Export
<1>5. CASE Quiet
  BY <1>5, QuietFrame
<1>6. ASSUME NEW o \in {"fresh_mark", "fail"}, PutSnapshot(o) PROVE StoreMatchesRows'
  <2>1. cur \in 1..generation /\ cur \in Gens /\ jobs[cur].digest \in {None, bytes}
    BY <1>6, CurAllocated DEF PutSnapshot, Storable, Fallible, LocalsAreSound, TypeOK
  <2> QED BY <1>6, <2>1 DEF PutSnapshot, TypeOK
<1>7. CASE MarkUploaded
  <2>1. bytes # None /\ snapshots[cur] = bytes
    BY <1>7 DEF MarkUploaded, LocalsAreSound
  <2> QED BY <1>7, <2>1, UploadedRow DEF MarkUploaded
<1>8. ASSUME NEW o \in {"fresh_hook", "fail"}, PutLatest(o) PROVE StoreMatchesRows'
  BY <1>8 DEF PutLatest
<1>9. CASE AbandonLatest \/ LandLate
  BY <1>9 DEF AbandonLatest, LandLate
<1>10. ASSUME NEW o \in {"mark_triggered", "fail"}, Hook(o) PROVE StoreMatchesRows'
  BY <1>10 DEF Hook
<1>11. CASE MarkTriggered
  <2>1. cur \in hooked /\ jobs[cur].digest # None
    BY <1>11 DEF MarkTriggered, LocalsAreSound
  <2> QED BY <1>11, <2>1, TriggeredRow DEF MarkTriggered
<1>12. CASE RecordFailure
  BY <1>12, FailedRow, ZenonT(60) DEF RecordFailure
<1>13. ASSUME NEW g \in Gens, Retry(g) PROVE StoreMatchesRows'
  <2>1. generation' = generation /\ snapshots' = snapshots /\ hooked' = hooked
    BY <1>13 DEF Retry
  <2>2. ASSUME NEW h \in 1..generation
        PROVE  /\ jobs'[h].digest = jobs[h].digest
               /\ jobs'[h].state \in {"snapshot_uploaded", "build_triggered"} =>
                    jobs'[h].digest # None
               /\ jobs'[h].state = "build_triggered" => h \in hooked
    BY <1>13, RetriedRow
  <2> QED BY <2>1, <2>2
<1>14. CASE UNCHANGED vars
  BY <1>14 DEF vars
<1> QED BY <1>1, <1>2, <1>3, <1>4, <1>5, <1>6, <1>7, <1>8, <1>9, <1>10, <1>11,
           <1>12, <1>13, <1>14 DEF Next, Quiet

LEMMA NewestNext == TypeOK /\ PipelineInv /\ [Next]_vars => NewestIsFaithful'
<1> SUFFICES ASSUME TypeOK, PipelineInv, [Next]_vars PROVE NewestIsFaithful'
  OBVIOUS
<1> USE DEF PipelineInv, NewestIsFaithful, Projection, site, objects
<1>1. CASE Mutate
  <2>1. Mutation
    BY <1>1, MutationKinds
  <2>2. CASE MarkDirty
    <3>1. generation' \in Gens /\ generation' > generation
      BY <2>1, <2>2, MutationRows DEF TypeOK
    <3> QED BY <2>1, <3>1 DEF Mutation, StoreMatchesRows
  <2>3. CASE Projection' = Projection /\ UNCHANGED <<generation, jobs>>
    BY <2>1, <2>3 DEF Mutation
  <2> QED BY <1>1, <2>2, <2>3, MutationKinds
<1>2. ASSUME NEW o \in {"fresh_mark", "fail"}, PutSnapshot(o) PROVE NewestIsFaithful'
  <2>1. bytes # None /\ cur \in Gens /\ (cur = generation => bytes = Projection)
    BY <1>2, CurAllocated DEF PutSnapshot, LocalsAreSound, Fallible
  <2> QED BY <1>2, <2>1 DEF PutSnapshot, TypeOK
<1>3. CASE UNCHANGED <<site, generation, snapshots>>
  BY <1>3
<1>4. Mutate \/ (\E o \in {"fresh_mark", "fail"} : PutSnapshot(o))
        \/ UNCHANGED <<site, generation, snapshots>>
  BY QuietFrame DEF Next, Quiet, Tick, Pick, FreshStale, Export, MarkUploaded,
     PutLatest, AbandonLatest, LandLate, Hook, MarkTriggered, RecordFailure, Retry, vars
<1> QED BY <1>1, <1>2, <1>3, <1>4

LEMMA AttemptsNext == TypeOK /\ PipelineInv /\ [Next]_vars => AttemptsAreCounted'
<1> SUFFICES ASSUME TypeOK, PipelineInv, [Next]_vars PROVE AttemptsAreCounted'
  OBVIOUS
<1> USE BoundsAssumption
<1> USE DEF PipelineInv, AttemptsAreCounted, Fallible, Fenced, Leave, locals
<1>1. CASE Mutate
  <2>1. Mutation /\ (MarkDirty \/ UNCHANGED <<generation, jobs>>)
    BY <1>1, MutationKinds
  <2>2. CASE MarkDirty
    <3>1. \A g \in 1..generation' : g \in 1..generation \/ g = generation'
      BY <2>1, <2>2, MutationRows DEF TypeOK
    <3>2. pc \in Fallible \cup {"fail"} => jobs'[cur] = jobs[cur]
      BY <2>1, <2>2, MutationRows, CurAllocated
    <3> QED BY <2>1, <2>2, <3>1, <3>2, MutationRows DEF Mutation, NewJob
  <2> QED BY <2>1, <2>2 DEF Mutation
<1>2. CASE Tick \/ FreshStale
  <2>1. jobs' = Superseded(jobs) /\ generation' = generation /\ pc' \in {"pick", "idle"}
    BY <1>2 DEF Tick, FreshStale
  <2> QED BY <2>1, SupersededRows
<1>3. CASE Pick
  <2>1. generation \in 1..generation /\ jobs[generation] \in Jobs
    BY <1>3 DEF Pick, TypeOK
  <2> QED BY <1>3, <2>1 DEF Pick, Actionable
<1>4. CASE Export
  BY <1>4 DEF Export
<1>5. CASE Quiet
  <2>1. UNCHANGED <<generation, jobs>>
    BY <1>5, QuietFrame
  <2>2. \/ pc' \in {"idle", "down"}
        \/ pc \in Fallible /\ cur' = cur /\ tries' = tries
    BY <1>5 DEF Quiet, PickNothing, FreshPass, ExportStale, ExportInvalid, Recheck,
                StageFails, LoseFailure, Crash, Restart, FreshSteps
  <2> QED BY <2>1, <2>2
<1>6. ASSUME NEW o \in {"fresh_mark", "fail"}, PutSnapshot(o) PROVE AttemptsAreCounted'
  BY <1>6 DEF PutSnapshot
<1>7. CASE MarkUploaded
  BY <1>7, UploadedRow DEF MarkUploaded
<1>8. ASSUME NEW o \in {"fresh_hook", "fail"}, PutLatest(o) PROVE AttemptsAreCounted'
  BY <1>8 DEF PutLatest
<1>9. CASE AbandonLatest
  BY <1>9 DEF AbandonLatest
<1>10. CASE LandLate
  BY <1>10 DEF LandLate
<1>11. ASSUME NEW o \in {"mark_triggered", "fail"}, Hook(o) PROVE AttemptsAreCounted'
  BY <1>11 DEF Hook
<1>12. CASE MarkTriggered
  BY <1>12, TriggeredRow DEF MarkTriggered
<1>13. CASE RecordFailure
  BY <1>13, FailedRow, ZenonT(60) DEF RecordFailure
<1>14. ASSUME NEW g \in Gens, Retry(g) PROVE AttemptsAreCounted'
  <2>1. generation' = generation /\ pc' = "idle"
    BY <1>14 DEF Retry, FlowFree
  <2> QED BY <1>14, <2>1, RetriedRow
<1>15. CASE UNCHANGED vars
  BY <1>15 DEF vars
<1> QED BY <1>1, <1>2, <1>3, <1>4, <1>5, <1>6, <1>7, <1>8, <1>9, <1>10, <1>11,
           <1>12, <1>13, <1>14, <1>15 DEF Next, Quiet

LEMMA LocalsNext == TypeOK /\ PipelineInv /\ [Next]_vars => LocalsAreSound'
<1> SUFFICES ASSUME TypeOK, PipelineInv, [Next]_vars PROVE LocalsAreSound'
  OBVIOUS
<1> USE DEF PipelineInv, LocalsAreSound, Fallible, Fenced, Leave, locals, objects
<1>0. 1..generation \subseteq Gens
  BY BoundsAssumption DEF TypeOK
<1>1. CASE Mutate
  <2>1. Mutation
    BY <1>1, MutationKinds
  <2>2. CASE MarkDirty
    <3>1. 1..generation \subseteq 1..generation'
      BY <2>1, <2>2, MutationRows DEF TypeOK
    <3>2. bytes # None => cur # generation'
      BY <2>1, <2>2, MutationRows DEF TypeOK
    <3>3. pc \in Fallible \cup {"fail"} => jobs'[cur] = jobs[cur]
      BY <2>1, <2>2, MutationRows, CurAllocated
    <3> QED BY <2>1, <3>1, <3>2, <3>3 DEF Mutation, FenceFree
  <2>3. CASE Projection' = Projection /\ UNCHANGED <<generation, jobs>>
    BY <2>1, <2>3 DEF Mutation
  <2> QED BY <1>1, <2>2, <2>3, MutationKinds
<1>2. CASE Tick
  BY <1>2 DEF Tick
<1>3. CASE FreshStale
  BY <1>3 DEF FreshStale
<1>4. CASE Pick
  BY <1>4 DEF Pick
<1>5. CASE FreshPass
  <2>1. UNCHANGED <<site, generation, jobs, objects, hooked, locals>>
    BY <1>5 DEF FreshPass
  <2>2. CASE pc = "fresh_export"
    BY <1>5, <2>1, <2>2 DEF FreshPass, AfterFresh, Projection, site
  <2>3. CASE pc \in {"fresh_put", "fresh_mark"}
    BY <1>5, <2>1, <2>3 DEF FreshPass, AfterFresh, Projection, site
  <2>4. CASE pc \in {"fresh_latest", "fresh_hook"}
    BY <1>5, <2>1, <2>4 DEF FreshPass, AfterFresh, IsFresh, Projection, site
  <2> QED BY <1>5, <2>2, <2>3, <2>4 DEF FreshPass, FreshSteps
<1>6. CASE Export
  <2>1. cur \in 1..generation
    BY <1>6, CurAllocated DEF Export
  <2>2. Projection' = Projection
    BY <1>6 DEF Export, Projection, site
  <2>3. snapshots[cur] \in {None, Projection}
    BY <1>6, <2>1 DEF Export, NewestIsFaithful
  <2>4. Projection # None
    BY ProjectionType, NullIsNoObject DEF TypeOK
  <2> QED BY <1>6, <2>1, <2>2, <2>3, <2>4 DEF Export
<1>7. CASE ExportStale \/ PickNothing \/ LoseFailure \/ Crash \/ Restart
  BY <1>7 DEF ExportStale, PickNothing, LoseFailure, Crash, Restart
<1>8. CASE ExportInvalid \/ StageFails
  BY <1>8 DEF ExportInvalid, StageFails, Projection, site
<1>9. CASE Recheck
  BY <1>9 DEF Recheck, Projection, site
<1>10. ASSUME NEW o \in {"fresh_mark", "fail"}, PutSnapshot(o) PROVE LocalsAreSound'
  BY <1>0, <1>10 DEF PutSnapshot, Projection, site, TypeOK
<1>11. CASE MarkUploaded
  BY <1>11, UploadedRow DEF MarkUploaded, Projection, site
<1>12. ASSUME NEW o \in {"fresh_hook", "fail"}, PutLatest(o) PROVE LocalsAreSound'
  BY <1>12 DEF PutLatest, Projection, site
<1>13. CASE AbandonLatest
  BY <1>13 DEF AbandonLatest, Projection, site
<1>14. CASE LandLate
  BY <1>14 DEF LandLate, Projection, site
<1>15. ASSUME NEW o \in {"mark_triggered", "fail"}, Hook(o) PROVE LocalsAreSound'
  BY <1>15 DEF Hook, Projection, site
<1>16. CASE MarkTriggered
  BY <1>16 DEF MarkTriggered
<1>17. CASE RecordFailure
  BY <1>17 DEF RecordFailure
<1>18. ASSUME NEW g \in Gens, Retry(g) PROVE LocalsAreSound'
  BY <1>18 DEF Retry, FlowFree
<1>19. CASE UNCHANGED vars
  BY <1>19 DEF vars, Projection
<1> QED BY <1>1, <1>2, <1>3, <1>4, <1>5, <1>6, <1>7, <1>8, <1>9, <1>10, <1>11,
           <1>12, <1>13, <1>14, <1>15, <1>16, <1>17, <1>18, <1>19 DEF Next

LEMMA PointersNext == TypeOK /\ PipelineInv /\ [Next]_vars => PointersResolve'
<1> SUFFICES ASSUME TypeOK, PipelineInv, [Next]_vars PROVE PointersResolve'
  OBVIOUS
<1> USE DEF PipelineInv, PointersResolve, Resolves, Leave, locals, objects
<1>1. CASE Mutate
  <2>1. Mutation /\ generation' \in {generation, generation + 1}
    BY <1>1, MutationKinds DEF MarkDirty
  <2>2. latest # None => latest.gen \in Gens
    BY DEF TypeOK, Pointers
  <2>3. \A p \in wire : p.gen \in Gens
    BY DEF TypeOK, Pointers
  <2> QED BY <2>1, <2>2, <2>3 DEF Mutation, FenceFree, Fenced, TypeOK
<1>2. CASE Tick
  BY <1>2 DEF Tick
<1>3. CASE FreshStale
  BY <1>3 DEF FreshStale
<1>4. CASE Pick \/ Export
  BY <1>4 DEF Pick, Export
<1>5. CASE Quiet
  <2>1. UNCHANGED <<generation, jobs, objects>>
    BY <1>5, QuietFrame
  <2>2. pc' \notin {"fresh_hook", "hook"} \/ (pc = "fresh_hook" /\ cur' = cur)
    BY <1>5 DEF Quiet, PickNothing, FreshPass, FreshSteps, AfterFresh, ExportStale,
                ExportInvalid, Recheck, StageFails, LoseFailure, Crash, Restart
  <2> QED BY <2>1, <2>2 DEF Pointer
<1>6. ASSUME NEW o \in {"fresh_mark", "fail"}, PutSnapshot(o) PROVE PointersResolve'
  <2>1. \A p \in Pointers : Resolves(p) => snapshots'[p.gen] = p.digest
    BY <1>6 DEF PutSnapshot, Storable, TypeOK, Pointers
  <2>2. wire \subseteq Pointers /\ latest \in Pointers \cup {None}
    BY DEF TypeOK
  <2> QED BY <1>6, <2>1, <2>2 DEF PutSnapshot
<1>7. CASE MarkUploaded
  BY <1>7 DEF MarkUploaded
<1>8. pc = "put_latest" => Resolves(Pointer)
  BY CurAllocated DEF LocalsAreSound, StoreMatchesRows, Fallible, Fenced, Pointer
<1>9. ASSUME NEW o \in {"fresh_hook", "fail"}, PutLatest(o) PROVE PointersResolve'
  BY <1>8, <1>9 DEF PutLatest, Pointer
<1>10. CASE AbandonLatest
  BY <1>8, <1>10 DEF AbandonLatest
<1>11. CASE LandLate
  BY <1>11 DEF LandLate, Pointer
<1>12. ASSUME NEW o \in {"mark_triggered", "fail"}, Hook(o) PROVE PointersResolve'
  BY <1>12 DEF Hook
<1>13. CASE MarkTriggered
  BY <1>13 DEF MarkTriggered
<1>14. CASE RecordFailure
  BY <1>14 DEF RecordFailure
<1>15. ASSUME NEW g \in Gens, Retry(g) PROVE PointersResolve'
  BY <1>15 DEF Retry, FlowFree
<1>16. CASE UNCHANGED vars
  BY <1>16 DEF vars, Pointer
<1> QED BY <1>1, <1>2, <1>3, <1>4, <1>5, <1>6, <1>7, <1>9, <1>10, <1>11,
           <1>12, <1>13, <1>14, <1>15, <1>16 DEF Next, Quiet

-----------------------------------------------------------------------------
(* The theorems.                                                           *)

LEMMA InvInit == Init => PipelineInv
  BY BoundsAssumption DEF Init, PipelineInv, StoreMatchesRows, NewestIsFaithful,
     LocalsAreSound, AttemptsAreCounted, PointersResolve, Fallible, Fenced

LEMMA InvNext == TypeOK /\ PipelineInv /\ [Next]_vars => PipelineInv'
  BY StoreNext, NewestNext, LocalsNext, AttemptsNext, PointersNext DEF PipelineInv

THEOREM Invariance == Spec => [](TypeOK /\ PipelineInv)
  BY TypeInit, TypeNext, InvInit, InvNext, PTL DEF Spec

\* A re-export of a generation never conflicts with the stored object.
THEOREM NoConflict == Spec => []StoredBytesNeverConflict
<1>1. PipelineInv => StoredBytesNeverConflict
  BY DEF PipelineInv, LocalsAreSound, StoredBytesNeverConflict
<1> QED BY <1>1, Invariance, PTL

\* latest.json always names a stored snapshot with the digest it names, even
\* when abandoned PUTs land late.
THEOREM AlwaysResolves == Spec => []LatestResolves
<1>1. PipelineInv => LatestResolves
  BY DEF PipelineInv, PointersResolve, LatestResolves
<1> QED BY <1>1, Invariance, PTL

\* With no PUT landing late, every build is ordered while the store serves
\* exactly the committed site.
THEOREM OrdersCurrent == ASSUME ~LatePuts PROVE Spec => []BuildsCurrent
<1>1. TypeOK /\ PipelineInv => BuildsCurrent
  <2> SUFFICES ASSUME TypeOK, PipelineInv, pc = "hook"
               PROVE  /\ latest = [gen |-> generation, digest |-> Projection]
                      /\ snapshots[generation] = Projection
    BY DEF BuildsCurrent
  <2>1. cur \in 1..generation /\ cur = generation /\ latest = Pointer
    BY CurAllocated DEF PipelineInv, LocalsAreSound, PointersResolve, Fallible, Fenced
  <2>2. jobs[cur].digest # None /\ snapshots[cur] = jobs[cur].digest
    BY <2>1 DEF PipelineInv, LocalsAreSound, StoreMatchesRows, Fenced
  <2> QED BY <2>1, <2>2 DEF PipelineInv, NewestIsFaithful, Pointer
<1> QED BY <1>1, Invariance, PTL

\* A triggered job was accepted by the hook and its snapshot is stored.
THEOREM TriggeredIsReal == Spec => []TriggeredMeansAccepted
<1>1. PipelineInv => TriggeredMeansAccepted
  BY DEF PipelineInv, StoreMatchesRows, TriggeredMeansAccepted
<1> QED BY <1>1, Invariance, PTL

\* A job waits for a human only when its automatic attempts are used up.
THEOREM RetriesUsedUp == Spec => []OutOfRetries
<1>1. PipelineInv => OutOfRetries
  BY DEF PipelineInv, AttemptsAreCounted, OutOfRetries
<1> QED BY <1>1, Invariance, PTL

\* Finished jobs stay finished and recorded snapshots stay recorded.
THEOREM RowsOnlyAdvance == Spec => JobsOnlyAdvance
<1>1. TypeOK /\ PipelineInv /\ [Next]_vars => [RowsAdvance]_vars
  <2> SUFFICES ASSUME TypeOK, PipelineInv, Next PROVE RowsAdvance
    BY DEF vars
  <2> USE DEF RowsAdvance, Final
  <2>1. CASE Mutate
    BY <2>1, MutationKinds, MutationRows
  <2>2. CASE Tick \/ FreshStale
    <3>1. jobs' = Superseded(jobs)
      BY <2>2 DEF Tick, FreshStale
    <3> QED BY <3>1, SupersededRows DEF OpenStates
  <2>3. CASE MarkUploaded
    <3>1. jobs[cur].digest # None => jobs[cur].digest = bytes
      BY <2>3, UploadedRow DEF MarkUploaded, PipelineInv, LocalsAreSound, StoreMatchesRows
    <3> QED BY <2>3, <3>1, UploadedRow DEF MarkUploaded
  <2>4. CASE MarkTriggered
    BY <2>4, TriggeredRow DEF MarkTriggered
  <2>5. CASE RecordFailure
    BY <2>5, FailedRow DEF OpenStates
  <2>6. ASSUME NEW g \in Gens, Retry(g) PROVE RowsAdvance
    BY <2>6, RetriedRow DEF Retry
  <2>7. CASE UNCHANGED jobs
    BY <2>7
  <2> QED BY <2>1, <2>2, <2>3, <2>4, <2>5, <2>6, <2>7, QuietFrame
          DEF Next, Quiet, Pick, Export, PutSnapshot, PutLatest, AbandonLatest,
              LandLate, Hook
<1> QED BY <1>1, Invariance, PTL DEF Spec, JobsOnlyAdvance

\* The pipeline implements PublicationPromise when no PUT lands late.
THEOREM Implements == ASSUME ~LatePuts PROVE Spec => KeepsPromise
<1> USE DEF Promise!promise, Projection
<1>1. Init => Promise!Init
  BY TypeInit, ProjectionType DEF Init, Promise!Init, Served, TypeOK
<1>2. TypeOK /\ TypeOK' /\ PipelineInv /\ [Next]_vars => [Promise!Next]_(Promise!promise)
  <2> SUFFICES ASSUME TypeOK, TypeOK', PipelineInv, [Next]_vars
               PROVE  Promise!Next \/ UNCHANGED Promise!promise
    OBVIOUS
  <2> USE DEF site, objects
  <2>1. CASE Mutate
    <3>1. Mutation /\ Served' = Served
      BY <2>1, MutationKinds DEF Mutation, Served
    <3>2. CASE MarkDirty
      <4>1. Projection' \in Projections
        BY DEF TypeOK, Projections, ProjectionOf
      <4> QED BY <3>1, <3>2, <4>1 DEF Mutation, MarkDirty, Promise!Next, Promise!Commit
    <3> QED BY <2>1, <3>1, <3>2, MutationKinds DEF Mutation
  <2>2. ASSUME NEW o \in {"fresh_mark", "fail"}, PutSnapshot(o)
        PROVE  UNCHANGED Promise!promise
    <3>1. latest # None => snapshots'[latest.gen] = snapshots[latest.gen]
      BY <2>2 DEF PutSnapshot, Storable, TypeOK, Pointers, PipelineInv,
                  PointersResolve, Resolves
    <3> QED BY <2>2, <3>1 DEF PutSnapshot, Served
  <2>3. ASSUME NEW o \in {"fresh_hook", "fail"}, PutLatest(o)
        PROVE  Promise!Next
    <3>1. cur = generation /\ cur \in 1..generation /\ jobs[cur].digest # None
      BY <2>3, CurAllocated DEF PutLatest, PipelineInv, LocalsAreSound, Fallible, Fenced
    <3>2. snapshots[cur] = Projection
      BY <3>1 DEF PipelineInv, StoreMatchesRows, NewestIsFaithful
    <3>3. latest' = Pointer /\ Pointer # None
      BY <2>3, CurAllocated, NullIsNoObject DEF PutLatest, Pointer, Pointers, Jobs,
                                                 Fallible, Fenced
    <3> QED BY <2>3, <3>1, <3>2, <3>3
            DEF PutLatest, Pointer, Served, Promise!Next, Promise!Serve
  <2>4. ASSUME NEW o \in {"mark_triggered", "fail"}, Hook(o)
        PROVE  Promise!Next
    <3>1. cur = generation /\ cur \in 1..generation /\ latest = Pointer
      BY <2>4, CurAllocated
         DEF Hook, PipelineInv, LocalsAreSound, PointersResolve, Fallible, Fenced
    <3>2. Pointer # None
      BY <2>4, CurAllocated, NullIsNoObject DEF Hook, Pointer, Pointers, Jobs,
                                                 Fallible, Fenced
    <3>3. snapshots[cur] = Projection /\ latest.gen = cur /\ latest # None
      BY <2>4, <3>1, <3>2 DEF Hook, PipelineInv, LocalsAreSound, StoreMatchesRows,
                        NewestIsFaithful, Pointer, Fenced
    <3> QED BY <2>4, <3>1, <3>3
            DEF Hook, Served, Promise!Next, Promise!Order
  <2>5. CASE UNCHANGED <<site, generation, snapshots, latest, hooked>>
    BY <2>5 DEF Served
  <2>6. ~LandLate
    BY DEF LandLate, PipelineInv, PointersResolve
  <2> QED BY <2>1, <2>2, <2>3, <2>4, <2>5, <2>6, QuietFrame
          DEF Next, Quiet, Tick, Pick, FreshStale, Export, MarkUploaded, AbandonLatest,
              MarkTriggered, RecordFailure, Retry, vars
<1> QED BY <1>1, <1>2, Invariance, PTL DEF Spec, KeepsPromise, Promise!Spec
============================================================================
