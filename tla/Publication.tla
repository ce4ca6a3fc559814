---------------------------- MODULE Publication ----------------------------
(***************************************************************************)
(* The publication pipeline of the CMS: public mutations that bump a       *)
(* durable generation (internal/outbox), the single worker that exports a  *)
(* snapshot of the current generation, stores it under an immutable key,   *)
(* points latest.json at it and calls the deploy hook                      *)
(* (internal/publication/worker.go), the object store, and the operator's  *)
(* Retry (internal/publication/service.go).                                *)
(*                                                                         *)
(* SQLite serialises writers, so a transaction is one step.  Every call    *)
(* the worker makes (a query, an export, a PUT, the hook) is a step of its *)
(* own; between two of them a mutation may commit unless the worker holds  *)
(* the fence, and the process may stop.                                    *)
(***************************************************************************)
EXTENDS Integers, FiniteSets

CONSTANTS
  Items,        \* content identities
  Revisions,    \* immutable revisions an item may publish
  Shared,       \* author profiles, tags and note groups
  SharedValues, \* what an admin may put in one of them
  RevisionsOf,  \* the revisions of each item
  UsesOf,       \* the shared rows a revision names (byline, tags, group)
  TargetsOf,    \* the curated articles a topic revision lists
  MaxGen,       \* bound on publication_generation
  MaxAttempts,  \* MaxAutomaticAttempts, 6 in the code
  LatePuts,     \* may a latest.json PUT given up by the client land later?
  None

ASSUME RevisionsAssumption ==
  /\ RevisionsOf \in [Items -> SUBSET Revisions]
  /\ UsesOf \in [Revisions -> SUBSET Shared]
  /\ TargetsOf \in [Revisions -> SUBSET Items]

ASSUME NoneAssumption ==
  None \notin Revisions /\ None \notin SharedValues

ASSUME BoundsAssumption ==
  MaxGen \in Nat /\ MaxAttempts \in Nat \ {0} /\ LatePuts \in BOOLEAN

Gens == 1..MaxGen

VARIABLES
  published,  \* content_items.published_revision_id, None when not public
  shared,     \* contents of author_profiles, tags and note_groups
  generation, \* site_state.publication_generation
  jobs,       \* publication_jobs, one row per generation up to generation
  snapshots,  \* immutable objects snapshots/<generation>.json
  latest,     \* the mutable object latest.json
  wire,       \* latest.json PUTs the client gave up on, still under way
  hooked,     \* generations for which the deploy hook accepted a build
  pc,         \* where the worker is in ProcessOnce
  cur,        \* its local job.Generation
  tries,      \* its local job.Attempts, read with the job
  bytes       \* its local exported.Bytes

site    == <<published, shared>>
objects == <<snapshots, latest, wire>>
locals  == <<cur, tries, bytes>>
vars    == <<published, shared, generation, jobs, snapshots, latest, wire,
             hooked, pc, cur, tries, bytes>>

JobStates ==
  {"pending", "snapshot_uploaded", "build_triggered", "failed", "superseded"}

\* Steps the worker takes holding the fence; it takes it at fresh_latest and
\* reads the generation at once.
Fenced == {"put_latest", "fresh_hook", "hook"}

\* Steps that call the database, the exporter, the store or the hook.
Fallible == {"fresh_export", "export", "recheck", "fresh_put", "put",
             "fresh_mark", "mark", "fresh_latest", "mark_triggered"} \cup Fenced

Steps == {"down", "idle", "pick", "fail"} \cup Fallible

-----------------------------------------------------------------------------
(* The public projection: what a snapshot of the current rows contains.    *)

Public == {i \in Items : published[i] # None}

UsedIn(pub) == UNION {UsesOf[pub[i]] : i \in {j \in Items : pub[j] # None}}

ProjectionOf(pub, sh) ==
  [content |-> pub,
   shared  |-> [s \in Shared |-> IF s \in UsedIn(pub) THEN sh[s] ELSE None]]

Projection == ProjectionOf(published, shared)

Projections ==
  [content : [Items -> Revisions \cup {None}],
   shared  : [Shared -> SharedValues \cup {None}]]

\* validateGraph: every topic entry names content of the same projection.
Exportable == \A i \in Public : TargetsOf[published[i]] \subseteq Public

Pointers == [gen : Gens, digest : Projections \cup {None}]

ASSUME NullIsNoObject == None \notin Projections /\ None \notin Pointers

\* A publication_jobs row: digest stands for snapshot_key and snapshot_sha256,
\* which are set together, due for next_attempt_at IS NOT NULL.
Jobs == [state    : JobStates,
         digest   : Projections \cup {None},
         attempts : Nat,
         due      : BOOLEAN]

NewJob == [state |-> "pending", digest |-> None, attempts |-> 0, due |-> FALSE]

TypeOK ==
  /\ published \in [Items -> Revisions \cup {None}]
  /\ shared \in [Shared -> SharedValues]
  /\ generation \in 0..MaxGen
  /\ jobs \in [Gens -> Jobs \cup {None}]
  /\ \A g \in Gens : g <= generation => jobs[g] \in Jobs
  /\ snapshots \in [Gens -> Projections \cup {None}]
  /\ latest \in Pointers \cup {None}
  /\ wire \subseteq Pointers
  /\ hooked \subseteq Gens
  /\ pc \in Steps
  /\ cur \in 0..generation
  /\ pc \in Fallible \cup {"fail"} => cur \in Gens
  /\ tries \in Nat
  /\ bytes \in Projections \cup {None}

Init ==
  /\ published = [i \in Items |-> None]
  /\ shared \in [Shared -> SharedValues]
  /\ generation = 0
  /\ jobs = [g \in Gens |-> None]
  /\ snapshots = [g \in Gens |-> None]
  /\ latest = None
  /\ wire = {}
  /\ hooked = {}
  /\ pc = "idle"
  /\ cur = 0
  /\ tries = 0
  /\ bytes = None

-----------------------------------------------------------------------------
(* Public mutations.  Each takes the fence before it opens its transaction *)
(* and commits the generation and the job with the change itself.          *)

\* (mutation: the mutators do not take the fence)
FenceIgnored == TRUE

FenceFree == pc \notin Fenced

\* IncrementGeneration and CreatePublicationJob, in the mutation's transaction.
MarkDirty ==
  /\ generation < MaxGen
  /\ generation' = generation + 1
  /\ jobs' = [jobs EXCEPT ![generation + 1] = NewJob]

Mutation ==
  /\ pc # "down"
  /\ FenceFree
  /\ UNCHANGED <<objects, hooked, pc, locals>>

\* PublishReviewed and PublishDirect; claimRoute refuses a topic whose
\* targets are not all published.
Publish(i, r) ==
  /\ Mutation
  /\ r \in RevisionsOf[i]
  /\ TargetsOf[r] \subseteq Public
  /\ published' = [published EXCEPT ![i] = r]
  /\ MarkDirty
  /\ UNCHANGED shared

\* Unpublish, and Archive of published content.  A topic may still list it.
Unpublish(i) ==
  /\ Mutation
  /\ i \in Public
  /\ published' = [published EXCEPT ![i] = None]
  /\ MarkDirty
  /\ UNCHANGED shared

\* (mutation: edits of shared rows are never published)
NeverPublished(s) == FALSE

\* The queries PublishedContentBylineExists, PublishedRevisionUsesTag and
\* PublishedRevisionUsesGroup.
PublishedUses(s) == s \in UsedIn(published)

\* UpdateAuthorProfile, PutTag and PutNoteGroup.
PutShared(s, v) ==
  /\ Mutation
  /\ shared' = [shared EXCEPT ![s] = v]
  /\ IF PublishedUses(s) THEN MarkDirty ELSE UNCHANGED <<generation, jobs>>
  /\ UNCHANGED published

-----------------------------------------------------------------------------
(* The worker.  Leaving ProcessOnce drops its locals and unlocks the flow. *)

OpenStates == {"pending", "snapshot_uploaded", "failed"}

\* SupersedePublicationJobs: older jobs that are not finished.
Superseded(rows) ==
  [g \in Gens |-> IF g < generation /\ rows[g].state \in OpenStates
                    THEN [rows[g] EXCEPT !.state = "superseded", !.due = FALSE]
                    ELSE rows[g]]

Leave(step) ==
  /\ pc' = step
  /\ cur' = 0
  /\ tries' = 0
  /\ bytes' = None

\* ProcessOnce: read the site state and supersede.
Tick ==
  /\ pc = "idle"
  /\ pc' = "pick"
  /\ jobs' = Superseded(jobs)
  /\ UNCHANGED <<site, generation, objects, hooked, locals>>

\* (mutation: a failed job waits for a human at once)
NeverAgain(j) == j.state \in {"pending", "snapshot_uploaded"}

\* A failed job runs again once its next_attempt_at has come, if it has one.
Actionable(j) ==
  \/ j.state \in {"pending", "snapshot_uploaded"}
  \/ j.state = "failed" /\ j.due

\* ProcessOnce: LatestPublicationJob, the row of the highest generation.
Pick ==
  /\ pc = "pick"
  /\ generation > 0
  /\ Actionable(jobs[generation])
  /\ pc' = "fresh_export"
  /\ cur' = generation
  /\ tries' = jobs[generation].attempts
  /\ UNCHANGED <<site, generation, jobs, objects, hooked, bytes>>

\* Nothing to do, next_attempt_at still ahead, or the query failed.
PickNothing ==
  /\ pc = "pick"
  /\ Leave("idle")
  /\ UNCHANGED <<site, generation, jobs, objects, hooked>>

FreshSteps ==
  {"fresh_export", "fresh_put", "fresh_mark", "fresh_latest", "fresh_hook"}

\* (mutation: the upload is recorded before it is made)
RecordsBeforePut(step) ==
  CASE step = "fresh_export" ->
         IF jobs[cur].digest = None THEN "export" ELSE "fresh_latest"
    [] step = "fresh_put"    -> "mark"
    [] step = "fresh_mark"   -> "mark"
    [] step = "fresh_latest" -> "put_latest"
    [] step = "fresh_hook"   -> "hook"

\* Where a successful freshness check leads.  A job whose snapshot is stored
\* needs no second export.
AfterFresh(step) ==
  CASE step = "fresh_export" ->
         IF jobs[cur].digest = None THEN "export" ELSE "fresh_latest"
    [] step = "fresh_put"    -> "put"
    [] step = "fresh_mark"   -> "mark"
    [] step = "fresh_latest" -> "put_latest"
    [] step = "fresh_hook"   -> "hook"

\* fresh.
\* (mutation: the generation is not read again)
AlwaysFresh == TRUE

IsFresh == generation = cur

FreshPass ==
  /\ pc \in FreshSteps
  /\ IsFresh
  /\ pc' = AfterFresh(pc)
  /\ UNCHANGED <<site, generation, jobs, objects, hooked, locals>>

FreshStale ==
  /\ pc \in FreshSteps
  /\ ~IsFresh
  /\ jobs' = Superseded(jobs)
  /\ Leave("idle")
  /\ UNCHANGED <<site, generation, objects, hooked>>

\* Export: one deferred read transaction sees one generation and its rows.
ExportStale ==
  /\ pc = "export"
  /\ generation # cur
  /\ Leave("idle")
  /\ UNCHANGED <<site, generation, jobs, objects, hooked>>

ExportInvalid ==
  /\ pc = "export"
  /\ generation = cur
  /\ ~Exportable
  /\ pc' = "fail"
  /\ UNCHANGED <<site, generation, jobs, objects, hooked, locals>>

Export ==
  /\ pc = "export"
  /\ generation = cur
  /\ Exportable
  /\ bytes' = Projection
  /\ pc' = "recheck"
  /\ UNCHANGED <<site, generation, jobs, objects, hooked, cur, tries>>

\* Export again, after COMMIT: the generation must not have moved.
Recheck ==
  /\ pc = "recheck"
  /\ IF generation = cur
       THEN pc' = "fresh_put" /\ UNCHANGED locals
       ELSE Leave("idle")
  /\ UNCHANGED <<site, generation, jobs, objects, hooked>>

\* (mutation: an object that exists is always a conflict)
StorableOnce == snapshots[cur] = None

Storable == snapshots[cur] \in {None, bytes}

\* PutImmutable creates the object, or finds the same bytes there already.
\* An existing object with other bytes is an integrity error, see StageFails.
\* The response may be lost after the object is stored.
PutSnapshot(outcome) ==
  /\ pc = "put"
  /\ Storable
  /\ snapshots' = [snapshots EXCEPT ![cur] = bytes]
  /\ pc' = outcome
  /\ UNCHANGED <<site, generation, jobs, latest, wire, hooked, locals>>

\* MarkSnapshotUploaded, then the row is read back.
MarkUploaded ==
  /\ pc = "mark"
  /\ jobs[cur].state \in {"pending", "failed"}
  /\ jobs' = [jobs EXCEPT ![cur].state = "snapshot_uploaded",
                          ![cur].digest = bytes,
                          ![cur].due = FALSE]
  /\ pc' = "fresh_latest"
  /\ UNCHANGED <<site, generation, objects, hooked, locals>>

Pointer == [gen |-> cur, digest |-> jobs[cur].digest]

\* Put of latest.json: applied and answered, or applied with the answer lost.
PutLatest(outcome) ==
  /\ pc = "put_latest"
  /\ latest' = Pointer
  /\ pc' = outcome
  /\ UNCHANGED <<site, generation, jobs, snapshots, wire, hooked, locals>>

\* The client's timeout gives the request up; the store may still apply it.
AbandonLatest ==
  /\ LatePuts
  /\ pc = "put_latest"
  /\ wire' = wire \cup {Pointer}
  /\ pc' = "fail"
  /\ UNCHANGED <<site, generation, jobs, snapshots, latest, hooked, locals>>

LandLate ==
  \E p \in wire :
    /\ latest' = p
    /\ wire' = wire \ {p}
    /\ UNCHANGED <<site, generation, jobs, snapshots, hooked, pc, locals>>

\* The deploy hook answers 2xx, or accepts and its answer is lost.
Hook(outcome) ==
  /\ pc = "hook"
  /\ hooked' = hooked \cup {cur}
  /\ pc' = outcome
  /\ UNCHANGED <<site, generation, jobs, objects, locals>>

\* MarkBuildTriggered, after the fence is released.
MarkTriggered ==
  /\ pc = "mark_triggered"
  /\ jobs[cur].state \in {"snapshot_uploaded", "failed"}
  /\ jobs' = [jobs EXCEPT ![cur].state = "build_triggered", ![cur].due = FALSE]
  /\ Leave("idle")
  /\ UNCHANGED <<site, generation, objects, hooked>>

\* A query, the exporter, the store or the hook fails, or an UPDATE changes
\* no row: process returns the error and nothing was done.
StageFails ==
  /\ pc \in Fallible
  /\ pc' = "fail"
  /\ UNCHANGED <<site, generation, jobs, objects, hooked, locals>>

\* ProcessOnce: FailPublicationJob; the last automatic attempt schedules none.
RecordFailure ==
  /\ pc = "fail"
  /\ jobs' = IF jobs[cur].state \in OpenStates
               THEN [jobs EXCEPT ![cur].state = "failed",
                                 ![cur].attempts = @ + 1,
                                 ![cur].due = tries + 1 < MaxAttempts]
               ELSE jobs
  /\ Leave("idle")
  /\ UNCHANGED <<site, generation, objects, hooked>>

\* The failure itself cannot be recorded.
LoseFailure ==
  /\ pc = "fail"
  /\ Leave("idle")
  /\ UNCHANGED <<site, generation, jobs, objects, hooked>>

\* The process stops, or shutdown cancels the worker's context: nothing is
\* recorded, the mutexes and the locals are gone.
Crash ==
  /\ pc # "down"
  /\ Leave("down")
  /\ UNCHANGED <<site, generation, jobs, objects, hooked>>

Restart ==
  /\ pc = "down"
  /\ Leave("idle")
  /\ UNCHANGED <<site, generation, jobs, objects, hooked>>

\* Retry needs the flow the worker holds for the whole of ProcessOnce.
FlowFree == pc = "idle"

Retry(g) ==
  /\ FlowFree
  /\ g = generation
  /\ jobs[g].state = "failed"
  /\ jobs' = [jobs EXCEPT
                ![g].state = IF jobs[g].digest = None
                               THEN "pending" ELSE "snapshot_uploaded",
                ![g].attempts = 0,
                ![g].due = FALSE]
  /\ UNCHANGED <<site, generation, objects, hooked, pc, locals>>

-----------------------------------------------------------------------------
Mutate ==
  \/ \E i \in Items, r \in Revisions : Publish(i, r)
  \/ \E i \in Items : Unpublish(i)
  \/ \E s \in Shared, v \in SharedValues : PutShared(s, v)

Next ==
  \/ Mutate
  \/ Tick \/ Pick \/ PickNothing
  \/ FreshPass \/ FreshStale
  \/ ExportStale \/ ExportInvalid \/ Export \/ Recheck
  \/ \E o \in {"fresh_mark", "fail"} : PutSnapshot(o)
  \/ MarkUploaded
  \/ \E o \in {"fresh_hook", "fail"} : PutLatest(o)
  \/ AbandonLatest \/ LandLate
  \/ \E o \in {"mark_triggered", "fail"} : Hook(o)
  \/ MarkTriggered
  \/ StageFails \/ RecordFailure \/ LoseFailure
  \/ Crash \/ Restart
  \/ \E g \in Gens : Retry(g)

Spec == Init /\ [][Next]_vars

-----------------------------------------------------------------------------
(* Safety.                                                                 *)

\* A re-export of a generation, after a crash, a lost answer or a failure,
\* finds under its key either nothing or the very same bytes: PutImmutable
\* never meets ErrIntegrity in a lone pipeline (worker.go, storage/r2.go).
StoredBytesNeverConflict ==
  pc = "put" => snapshots[cur] \in {None, bytes}

Resolves(p) ==
  /\ p.gen <= generation
  /\ p.digest # None
  /\ snapshots[p.gen] = p.digest

\* At every moment a build that reads latest.json finds the snapshot it names,
\* with the digest it names (worker.go puts the snapshot first).
LatestResolves == latest # None => Resolves(latest)

\* When the deploy hook is called latest.json names the newest generation and
\* its snapshot is exactly the committed site: no mutation slips between the
\* last check and the hook (the fence of internal/outbox).
BuildsCurrent ==
  pc = "hook" =>
    /\ latest = [gen |-> generation, digest |-> Projection]
    /\ snapshots[generation] = Projection

\* A job is build_triggered only when the hook accepted its generation and its
\* snapshot is stored under the recorded digest, whatever failures, crashes
\* and retries came between.
TriggeredMeansAccepted ==
  \A g \in 1..generation :
    jobs[g].state = "build_triggered" =>
      g \in hooked /\ jobs[g].digest # None /\ snapshots[g] = jobs[g].digest

\* A failed job is left to a human only after MaxAutomaticAttempts attempts,
\* and until then has its next attempt scheduled (worker.go ProcessOnce against
\* service.go Retry, which resets the count the worker has read).
OutOfRetries ==
  \A g \in 1..generation :
    jobs[g].state = "failed" => (jobs[g].due <=> jobs[g].attempts < MaxAttempts)

Final == {"build_triggered", "superseded"}

\* A finished job stays finished and a recorded snapshot stays recorded
\* through failures, retries and superseding (publication.sql).
RowsAdvance ==
  \A g \in 1..generation :
    /\ jobs[g].state \in Final => jobs'[g].state = jobs[g].state
    /\ jobs[g].digest # None => jobs'[g].digest = jobs[g].digest

JobsOnlyAdvance == [][RowsAdvance]_vars

-----------------------------------------------------------------------------
(* The inductive invariant behind the safety properties.                   *)

\* Nothing is stored for a generation that was not allocated; a recorded
\* snapshot is stored; the row's state matches what was done for it.
StoreMatchesRows ==
  /\ \A g \in Gens : g > generation => snapshots[g] = None
  /\ \A g \in 1..generation :
       /\ jobs[g].digest # None => snapshots[g] = jobs[g].digest
       /\ jobs[g].state \in {"snapshot_uploaded", "build_triggered"} =>
            jobs[g].digest # None
       /\ jobs[g].state = "build_triggered" => g \in hooked

\* The newest generation determines its bytes.
NewestIsFaithful ==
  generation > 0 => snapshots[generation] \in {None, Projection}

\* What the worker's locals say about the rows and the store.
LocalsAreSound ==
  /\ pc \in {"down", "idle", "pick"} => bytes = None
  /\ bytes # None =>
       /\ cur \in 1..generation
       /\ snapshots[cur] \in {None, bytes}
       /\ cur = generation => bytes = Projection
  /\ pc \in {"recheck", "fresh_put", "put", "fresh_mark", "mark"} => bytes # None
  /\ pc \in {"fresh_mark", "mark"} => snapshots[cur] = bytes
  /\ pc \in {"fresh_latest", "mark_triggered"} \cup Fenced => jobs[cur].digest # None
  /\ pc = "mark_triggered" => cur \in hooked
  /\ pc \in Fenced => cur = generation

\* Attempts are counted on the row and remembered by the worker.
AttemptsAreCounted ==
  /\ \A g \in 1..generation :
       /\ jobs[g].state = "failed" => (jobs[g].due <=> jobs[g].attempts < MaxAttempts)
       /\ jobs[g].state \in {"pending", "snapshot_uploaded"} =>
            jobs[g].attempts < MaxAttempts
  /\ pc \in Fallible \cup {"fail"} =>
       tries = jobs[cur].attempts /\ tries < MaxAttempts

\* latest.json, now or when a late PUT lands, names a stored snapshot; within
\* the fence it is the pointer just written, unless a PUT may land late.
PointersResolve ==
  /\ latest # None => Resolves(latest)
  /\ \A p \in wire : Resolves(p)
  /\ ~LatePuts => wire = {}
  /\ ~LatePuts /\ pc \in {"fresh_hook", "hook"} => latest = Pointer

PipelineInv ==
  /\ StoreMatchesRows
  /\ NewestIsFaithful
  /\ LocalsAreSound
  /\ AttemptsAreCounted
  /\ PointersResolve

-----------------------------------------------------------------------------
(* Refinement of PublicationPromise, when no PUT lands late.               *)

Served ==
  IF latest = None THEN None
  ELSE [commit |-> latest.gen, site |-> snapshots[latest.gen]]

Promise == INSTANCE PublicationPromise WITH
  Sites <- Projections, Nothing <- None,
  commit <- generation, site <- Projection, served <- Served, ordered <- hooked

\* The pipeline implements the promise: a build never reads a mixed or an
\* older site than the one before, and every ordered build was of the newest.
KeepsPromise == Promise!Spec

-----------------------------------------------------------------------------
(* Liveness.                                                               *)

WorkerStep ==
  \/ Tick \/ Pick \/ PickNothing \/ FreshPass \/ FreshStale
  \/ ExportStale \/ ExportInvalid \/ Export \/ Recheck
  \/ PutSnapshot("fresh_mark") \/ MarkUploaded
  \/ PutLatest("fresh_hook") \/ Hook("mark_triggered") \/ MarkTriggered

Failing ==
  \/ StageFails \/ AbandonLatest
  \/ PutSnapshot("fail") \/ PutLatest("fail") \/ Hook("fail")

\* The process is restarted and after some last stop it keeps running and can
\* record a failure; a due job is picked up in the end.  Nothing says that a
\* stage ever succeeds.
WorkerFairness ==
  /\ WF_vars(Restart)
  /\ WF_vars(WorkerStep \/ Failing \/ RecordFailure)
  /\ SF_vars(Pick)
  /\ <>[][~(Crash \/ LoseFailure)]_vars

LiveSpec == Spec /\ WorkerFairness

\* Nobody retries for ever: Retry resets the attempts of any failed job.
RetriesEnd == <>[][\A g \in 1..generation : ~Retry(g)]_vars

\* Dependencies recover too: after some last failure every stage succeeds, but
\* for a snapshot that conflicts with the stored one, which no recovery cures;
\* and an operator retries a job that is out of attempts.
DependencyFails == Failing /\ (pc = "put" => Storable)

RetryExhausted ==
  \E g \in 1..generation : ~jobs[g].due /\ Retry(g)

Recovery == SF_vars(RetryExhausted) /\ <>[][~DependencyFails]_vars

Triggered == generation > 0 => jobs[generation].state = "build_triggered"

Exhausted ==
  generation > 0 => jobs[generation].state = "failed" /\ ~jobs[generation].due

\* Whatever fails, and unless an operator retries for ever, the newest generation
\* is in the end built or waits for a human after its last automatic attempt; it
\* is never forgotten (the durable queue of ADR 0008).
Settles == RetriesEnd => []<>(Triggered \/ Exhausted)

\* Once mutations stop, an exportable site whose dependencies recover is built.
Publishes == Recovery => []<>(Triggered \/ ~Exportable)

============================================================================
