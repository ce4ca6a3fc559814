# Verification of Gopher Atlas

TLA+ models of the program in this repository - the CMS (`internal/`, `db/`), its Admin
(`apps/admin`), the public site's build and pages (`apps/web`, `scripts/`), the statistics
worker and the development services - checked by TLC on small instances, and theorems about
the core of them checked by TLAPS for every value of the constants. `PROJECT.json` ties every
definition to its source lines and lists the components, the runs, the mutants that show that
each property can fail, the hazards and the theorems.

    tlc -workers 2 -config MCPublication.cfg        MCPublication
    tlc -workers 2 -config MCPublicationLate.cfg    MCPublicationSmall
    tlc -workers 2 -config MCPublicationService.cfg MCPublicationSmall
    tlc -workers 2 -config MCEditorial.cfg          MCEditorial
    tlc -workers 2 -config MCEditorialSite.cfg      MCEditorialSite
    tlc -workers 2 -config MCIdentity.cfg           MCIdentity
    tlc -workers 2 -config MCAutosave.cfg           MCAutosave     (MCAutosaveLive.cfg, MCAutosaveLost.cfg)
    tlc -workers 2 -config MCStatsArchive.cfg       MCStatsArchive
    tlc -workers 2 -config MCSiteBuild.cfg          MCSiteBuild
    tlc -workers 2 -config MCPeriphery.cfg          MCPeriphery
    tlapm PublicationProofs.tla     and the other modules *Proofs

## 1. The system

One Go process with an SQLite database serves an Admin application and keeps a
static public site up to date.

```
 Admin SPA --HTTP--> services (auth, content, assets) --immediate tx--> SQLite
   (autosave)             |  publication fence                        |
                          +--- MarkDirty: generation + job row -------+
 worker: job row -> export (read tx) -> snapshots/generation-N.json -> latest.json -> deploy hook
 build:  latest.json -> snapshot -> validation -> pages, redirects, statistics manifest, marker
 reader's page: search, explorer, animations, theme, notes, statistics
 statistics worker (separate): daily traffic of the static site -> its own database
```

| Component | State it keeps | Operations | What is hard | What makes it correct |
|---|---|---|---|---|
| **Publication pipeline** (`internal/publication`, `internal/outbox`) | `site_state.publication_generation`, `publication_jobs`, the fence and flow locks | `MarkDirty` in every public mutation; `ProcessOnce` every tick; `Retry`; `Status` | a pipeline of calls over minutes with editors committing in between, crashes, lost answers, retries | the store never conflicts with itself, latest.json resolves, builds are ordered only for the newest site, no job is lost or retried for ever |
| **Exporter** (`snapshot.go`) | none | `Export` in one deferred read transaction, graph validation | the generation may move while it reads | same generation, same bytes; a dangling topic refuses the export |
| **Object storage** (`internal/storage`) | objects | immutable PUT, PUT of latest.json, HEAD, GET | lost and late answers; another writer's bytes under a name | an immutable key has one content for ever |
| **Content workflow** (`internal/content`, `internal/policy`) | items, drafts with versions, immutable revisions, reviews, routes | create, save, submit, request changes, withdraw, publish reviewed/direct, unpublish, archive, restore | concurrent editors and reviewers with outdated views, roles that change underneath, long legal sequences | what is public was vetted, drafts are never overwritten blindly, paths are permanent |
| **Taxonomy, note groups, profiles** | tags, groups, author profiles | put, delete | whether a change is public | a public change always moves the generation |
| **Identity** (`internal/auth`) | users, sessions, OAuth states | start, callback/login, bootstrap, resolve, logout, change user | login races disabling; first and last Admin | there stays an Admin; a disabled account has no live session; a state is used once |
| **Admin autosave** (`autosave.ts`, `editor.tsx`) | acknowledged and latest draft, version, one flight | edit, flush, reload, command, leave | answers out of order or lost, several pages of one draft | no edit is lost, no foreign edit overwritten, what is submitted is what was seen |
| **Admin form, preview, focus, list** (`features/content`) | form relations, focus session, address | drag, type, preview, focus, filter | two fields for one thing; state captured and used later | the server takes what the form holds; nothing is left inert; no hidden filter |
| **Assets** (`internal/assets`, `features/assets`) | asset rows, media objects, the list | upload, delete, restore, insert | two transactions around a PUT; the list is read in pages while others change it | a row has its object; no image twice; an image goes where the author was |
| **Public build** (`scripts`, `apps/web`) | files of one build | read, validate, write, gate, deploy | reads at different moments; overlapping builds; redundant indexes of one snapshot | a site is of one generation and its addresses hang together |
| **Reader's page** (`apps/web/src/lib`) | search, filters, theme, animations, statistics shown | type, page, go back, choose | answers out of order; interrupted animations; history | the page shows what was chosen last |
| **Statistics worker** (`apps/web/stats`) | daily totals, dimensions, run log | scheduled run, rerun of a day | overlapping runs, partial answers | later attempts win per dimension; one fault loses no day |
| **Legacy import** (`internal/legacy`, `scripts/legacy`) | a plan, the database | plan, preflight, apply | it may end between any two calls and be run again | it adds the checkout and harms nothing |
| **Development services** (`scripts/dev*.mjs`) | child processes, prepared generation | poll, restart, stop | exits, signals and failures in the middle of a restart | the site that runs is the one prepared; nothing outlives the supervisor |
| Offline upgrades, reads, HTTP, configuration, Markdown, OAuth call, audit, generated code | none of their own, or used while the server is stopped | | | not modelled, section 14 |

Interactions: content, taxonomy and profile operations call `outbox.MarkDirty`
inside their transaction and hold the publication fence around it; the worker
holds the fence from its last check to the end of the deploy hook; Retry and the
worker exclude each other by the flow lock; every write re-reads its actor's role
(`auth.Reauthorize`).

The public site knows the CMS only by the bucket (latest.json, snapshots, images) and by the
deploy hook; the CMS knows the site by the marker each build leaves, which Status reads. The
statistics worker knows the site by its manifest.

## 2. Modules and plan

| Module | Models |
|---|---|
| `Publication`, `PublicationPromise` | mutations of the public site, outbox, worker step by step, store, hook, crash, Retry; abstract: commits, the served site, ordered builds |
| `Editorial`, `RevisionLife` | the whole content workflow with policy, role changes and routes; abstract: the fate of a revision and the generation |
| `Identity` | accounts, sessions, OAuth states, requests in flight |
| `Autosave` | pages of one draft, their queues and commands, and the server's draft |
| `PublicSite`, `SiteBuild` | operators: what the build makes of a snapshot; builds while the CMS publishes, the gate, deployment, Status |
| `StatsArchive` | scheduled runs, the queries, the batch of a day, the ranking |
| `AssetLibrary`, `InsertImage`, `BlogPreview`, `DraftForm`, `WritingFocus`, `ContentList` | parts of the Admin, with the services they call |
| `ReaderSearch`, `ReaderExplorer`, `ReaderMotion`, `ReaderTheme`, `ReaderChrome`, `ReaderStats`, `ReaderCharts` | parts of the reader's page |
| `LegacyImport`, `DevServices` | the import of the old site; the development supervisor and watcher |
| `Periphery` | the fifteen small parts of the last three rows, as instances of one specification |
| `Listing` | sorting and filtering, without recursion; used by `PublicSite`, `AssetLibrary`, `DraftForm`, `ReaderExplorer`, `LegacyImport` |
| `MC*` | the instances for TLC |
| `PublicationProofs`, `EditorialProofs`, `IdentityProofs`, `AutosaveProofs`, `StatsArchiveProofs`, `SiteBuildProofs` | theorems about one component each (section 11) |
| `ReaderProofs`, `DeskProofs` | theorems about the parts of `Periphery`: what is seen, and what an author works with |

The order was: first the pipeline that makes the site, then what feeds it (workflow,
identity, autosave), then what reads it (build, statistics), then the parts around. All of it is
written. What could follow, by weight: the map from keys to bytes as an abstract specification of
the object storage; `Editorial`'s public pointers as the `published` of `Publication` and
`Identity`'s accounts as the `role` of `Editorial`, which now meet only in that each module lets
the other's state change freely.

## 3. Publication

State: `published`, `shared` (rows the public site is made from), `generation`,
`jobs` (one row per generation), `snapshots`, `latest`, `wire` (PUTs of latest.json
the client gave up on), `hooked` (generations whose hook was accepted: history
for the properties), and the worker's `pc`, `cur`, `tries`, `bytes`.

A SQLite transaction is one step. `process` in `worker.go` is cut at every call it makes:
`fresh -> export -> recheck -> fresh -> put -> fresh -> mark -> fresh_latest (takes the
fence) -> put_latest -> fresh_hook -> hook -> mark_triggered`. Between two of them
mutations commit, unless the worker holds the fence (`Fenced`), any call fails
(`StageFails`), an applied PUT or accepted hook loses its answer, and the process stops (`Crash`). `Tick`
is `ProcessOnce` up to the choice of the job; `Pick` is that choice. The
exporter is `Projection`: a function of the rows of its read transaction, refused
when a topic lists an article that is not public (`Exportable`).

Time is abstracted: whether a scheduled attempt is due is free.

What is checked:

- `StoredBytesNeverConflict`: exporting a generation again never meets other bytes
  under its key. This is where unannounced changes would show: a
  mutation that forgets the outbox changes the projection of a generation.
- `LatestResolves`: latest.json always names a stored snapshot and its digest.
- `KeepsPromise`: refinement of `PublicationPromise`, in which the hook is called only while
  latest.json serves exactly the committed site. It assumes `~LatePuts`; with late PUTs the
  pointer may go back to an older generation, and only `LatestResolves` remains.
  A late landing of an immutable PUT is harmless, since the bytes are the same.
- `Settles`, `Publishes`: liveness, below.
- `PipelineInv` is the inductive invariant of the proofs, checked first by TLC. What it
  implies of the job rows (`TriggeredMeansAccepted`, `OutOfRetries`, `JobsOnlyAdvance`) and of
  the hook (`BuildsCurrent`) is proved and has no run of its own.

| Run | Instance | Bounds |
|---|---|---|
| `publication` | topic listing an article; two revisions of the article, one with a tag of two values | 3 generations, 2 attempts |
| `publication_late_put` | topic and article, late PUTs | 3, 2 |
| `publication_service` | topic and article, fairness | 3, 2 |

Three generations: one being processed, one that overtakes it, one that overtakes
in the fence's window; with a topic, three are also the shortest way to a site that cannot
be exported (publish article, publish topic, unpublish article). Two attempts
reach the last automatic attempt and its off-by-one. The tag makes a mutation that
is public for one revision and not for the other. The generation, a counter in the
database, is capped by `MaxGen` in the guard of the mutations.

Fairness. `LiveSpec` is weakly fair to a restart and to every step of the worker, strongly to
the choice of a due job, and says that crashes come to an end; nothing assumes that a call
succeeds. That is `Run`: a ticker that calls `ProcessOnce` while the process lives. `Settles`:
unless somebody retries for ever (`RetriesEnd`), again and again the newest generation is built
or has used up its attempts and waits for a human. `Publishes` assumes besides that dependencies
recover (their failures do not recur for ever; a snapshot that conflicts with the stored one is
no failure of a dependency) and that somebody retries exhausted jobs (`Recovery`): then an exportable site
is in the end built. A site that cannot be exported is not: docs/decisions/0008 says so
deliberately (a topic whose article was unpublished blocks).

## 4. Editorial

State: `role` per user (role and status merged; `inactive` is pending or
disabled), `rows` (content_items: owner, editorial state, pending and published
pointers, archived), `drafts` (version, form, who updated), `captured` and
`revisions`, `reviews`, `routes`, `generation`. A *form* is what the workflow looks at in
a draft: slug, byline, featured, the targets of a topic. `as` in revisions and reviews is history:
the role under which they were written.

Every operation is an immediate transaction that looks up its actor after it has
the write lock (`content/service.go` transact, `auth.Reauthorize`), hence one step that
reads the current role. Ids, versions and forms in requests were chosen earlier: they are
arbitrary parameters, so every outdated view is covered. A refused operation rolls back
and is no step. `Create` ... `RestoreRevision` correspond one to one to the functions of
`service.go` and `workflow.go`; their shared parts (`Capture`, `ClaimRoute`,
`Pending`, `MarkDraftEdited`) to `snapshot`, `claimRoute`, `pending`, and the SQL statements. Mutations of
the public pointer move `generation` as `MarkDirty` does.

What is checked:

- `ChecksHold`: no sequence of operations leads into the CHECKs of the table.
- `SyncedIsPublished`: approval marks the draft synced without reading it. That is right
  because the draft cannot change during a review (`UnderReviewIsFrozen`, proved).
- `PublicIsVetted`: each public revision was approved, for that id, by an Admin or by a
  Reviewer who neither owns nor signs it, or published by an Admin in one go,
  with roles as they were at the moment of the decision.
- `OneCanonicalPath`, and the action properties `RoutesArePermanent`, `FeaturedIsAdmins`,
  `TopicsGoPublicWhole`. (`VersionsTellDrafts` and `Bookkeeping` are proved and have no run.)
- `RevisionsLiveOnce`: refinement of `RevisionLife`. A revision is public once at
  most and never after it was rejected, withdrawn or replaced; the generation
  counts exactly the changes of what is public.

| Run | Instance | Bounds | Why |
|---|---|---|---|
| `editorial` | one post; an Admin, a Reviewer who may also be Admin, an Editor who may become Reviewer; a plain form of the Editor's and a featured one signed by the Reviewer | 2 revisions, 4 versions | decisions, roles and bylines: submit, reject, edit, submit again, decide on the old id; create, save, capture, save another text, bring the captured one back |
| `editorial_site` | two articles that want the same two slugs, or a topic and the article it lists; one Admin; three forms | 3 revisions; 4 versions of the first article, 3 of its rival, 2 beside the topic | renaming: the old path becomes a redirect and is asked for again by its owner and by the rival; the article of a topic leaves the site during the review |

Two revisions are the old and the new of one content; three are the path of an article, its
new one and the first again, or the two of a renamed article and the rival that waits for the old
one. Four versions are the fewest in which a revision that differs from the draft comes back, and
in which an article is renamed twice. `editorial_site` follows no state outside `InScope` (a
CONSTRAINT of TLC): the topic and the rival are not both there, since a topic's path is of another
kind. `MaxRevisions` and `MaxVersion` are bounds of the model in the guards of `Capture` and
`Replace`. The workflow has no liveness of its own: people act when they like. Deadlock is checked in both.

The proofs do not depend on these bounds or on `Careers` (which roles a user may
get, a bound for TLC).

Observations that are not findings: restoring a historic revision does not check its
byline and relations again (contracts/data.md restricts the draft PUT only), while
submitting and publishing check the relations; unpublishing and archiving drop a pending review without a decision
(contracts/data.md says so).

## 5. Identity

State: `users` (role and status per GitHub account), `state` and `session` (status of
each row of oauth_states and sessions), `owner`, `request` (what every request in flight
remembers) and `via`, history: the state each session was opened through.

A login is `Callback` (the conditional UPDATE that consumes the state) and, after
GitHub answered, `Login` (one transaction: the account is created, bootstrapped or
found, the browser's old session revoked, expired sessions deleted, a new one stored);
in between anybody may disable the account, log in with the same state, or bootstrap.
`Fail` stands for all that ends a request without a change: a refusal, GitHub's error
or its ten seconds, a rolled back transaction. A change of an account is `Arrive` (the
middleware resolves the session) and `ChangeUser` (the transaction, which resolves it
again). What a request asks for does not depend on what happened in between, so it is
chosen in the second step. Role, approval, enabling and disabling are one handler and one
action; `Approve`, `Disable`, `Enable` and `SetRole` say what each may make of an account.
Time is `StateExpires` and `SessionExpires`. A login that fails after it consumed
its state leaves the state consumed, as the code does.

What is checked:

- `DisabledHasNoLiveSession`: disabling revokes in the same transaction, and a login under way looks at the
  account again.
- `OneLoginPerState`: however many callbacks bring a state.
- `AdminStays`: Admins demote and disable each other and themselves at the same time.
- `AccessChangesForCause`: access changes by a first login (pending), by the bootstrap while
  nobody was ever given anything, or by a request whose session is live and whose user is an
  active Admin at that step. So the bootstrap is no way back for a disabled or demoted account.
- `LoginRotates`, proved only: the session a browser came with is dead after its login.

| Run | Instance | Bounds | Why |
|---|---|---|---|
| `identity` | the bootstrap account and two others | 3 states, 3 sessions, 2 requests in flight | one session each, so two Admins can act on each other and on a third who is logging in; two requests are a race |

Accounts other than the bootstrap one, tokens and requests are symmetric; no property is
about liveness, so symmetry is sound. Every token is used up after a while, and then only `Crash` and
expiry are left: TLC sees all behaviours of three logins. The proofs do not depend
on these bounds.

Observation, not a finding: disabling a pending account and enabling it again makes it
active without an approval; the code and the API allow Admins to do so.

## 6. Autosave

State: `server` (text, version, state of the content), per session `q` (its page and its
`AutosaveQueue`: latest and acknowledged text, version, status, dirty, flight, timer), `saves` (the PUTs
sent, also those nobody waits for), `op` (the workflow command it performs: flush, sent, answered),
`view` (the state as last fetched), `login`. A session is a tab or a person. A text is a value;
a version stands for a text, and the server's save is a compare-and-set on it.

`Update`, `SetEnabled`, `Sending`, `Acknowledge`, `Failed`, `Settled`, `Conflicted` are the queue's
transitions; `settling` is the microtask between the answer and the end of the flight. `Perform` is
`perform` of `editor.tsx` with its flush; `ServerActs` the command on the server; `SaveLost` and
`OpLost` an answer that never comes, where the request itself may still arrive. `FlushFailed` is the rejection
of `flush` that `perform` meets: a save failed and left the queue dirty.

- `NoForeignOverwrite`: a save replaces only the text its page was working from.
- `LocalEditsKeptWhileEnabled`: typed text leaves a page only when its user wants it to. The same
  without the restriction to pages whose queue was never disabled is `LocalEditsKept`, which
  ADR 0007 states and the run `autosave_lost` refutes: a page locked by another session's submission
  drops its unsaved text when its user withdraws the review (the finding in `PROJECT.json`).
- `SubmitTakesWhatIsShown`: what the server freezes is the text on the page that submitted.
- `EditsSettle` (liveness): an edit ends up saved, or the page says that autosave stopped.

| Run | Instance | Bounds |
|---|---|---|
| `autosave` | two sessions, three texts | 2 edits, 2 commands or openings, 1 fault |
| `autosave_live` | the same, `LiveSpec` | 2, 1, 1 |
| `autosave_lost` | the same | 1, 2, 0 |

Two edits are one in flight and one typed meanwhile, or one of each page, or a text whose save
failed and the text typed back: then nothing is dirty, `flush` resolves although the status still
says error, and the command goes out (`Unsavable`). Two commands are a
submission and the withdrawal or restore that meets it; one fault is a lost answer or an expired
login. Sessions and the texts typed are symmetric in the runs without liveness. Fairness: a
browser's timers and microtasks run, a request sent reaches the server and is answered; nothing
is assumed of users. Deadlock is not checked, since everybody may be done.

Observation: `flush` interrupted by a lock resolves with unsaved edits, while the comment at
`editor.tsx:221` speaks of edits drained.

## 7. Statistics archive

State: `runs` (a delivery of the cron event: step, day, manifest and the answers it holds), the
tables `site`, `pages`, `referrers`, `states`, the current day, the deployments, the faults. A run
loads the manifest, then reads for each of two days site, pages and referrers by separate queries
that may fail, and writes the day in one batch; the D1 batch is a transaction, each statement
of which has its own guard by time (`Attempted`, `IsCurrent`). Runs may be late, delivered twice
and overlap, and die between any two steps; the site may be deployed anew.

- `OlderNeverOverwrites` (docs/operations/statistics.md:81), for rows, totals and states.
- `RankingMatchesTotal`: while the API calls a range ready, the pages ranked add up to the total shown,
  although a page was renamed between two days, and visits by source never exceed all visits.
- `OneFaultLosesNoDay`: a day is in two schedules, so one failed batch or dead Worker leaves
  every day with an attempt.

Run `stats`: three days, two schedules that share one, three answers for a site, two each for
pages and referrers, two manifests of which the second renames the page, two faults. Two
runs are enough for an overlap, and the shared day is the middle one. Deadlock is not checked:
the runs end.

## 8. The public site and its build

`PublicSite` has operators only: `SnapshotValid` is `validateSnapshot`; `PublicationThrows`,
`PagesThrow`, `RedirectsThrow`, `ManifestThrows`, `GrowthThrows`, `DatesThrow` are where a later
step of the build throws; `Outputs`, `Canonical`, `Alternates`, `Links`, `Sitemap`, `RedirectRules`,
`ManifestRows`, `Searchable` are the site; `Gate*` is what `check-public-build.mjs` asserts. A path is the
sequence of its segments, and a page is where it claims to be canonical, where it links and
whether it shows the authored text. `SiteBuild` runs them: the CMS publishes generations
(`Publish`, `PutSnapshot`, `PutLatest`), each build reads latest.json, then the snapshot, validates, and
writes pages, redirects, manifest and marker one after the other; objects may be damaged, a
build may die at any step; the last to finish is deployed, in whatever order they began. `Ask` and `Answer`
are Status, which reads the wanted generation and the marker at different moments.

- `AcceptedSnapshotsBuild`: what validation accepts is never refused later, neither by an exception
  nor by the gate. Two exceptions are stated in the property, as the JSON schema lets them through: more redirects than the
  host takes (2000; an article or topic counts twice), and dates after the year 9999.
- `SiteIsOneGeneration`: all parts of what is deployed are of one published generation.
- `SiteHangsTogether`: redirects end at a page in one hop and hide none; languages name each other
  back; the sitemap is exactly the pages that are their own canonical address and show authored
  text; the statistics manifest counts every page and old address under a page.
- `AheadOnlyWhenRaced`: Status answers `behind` only if a generation was published in between.

Run `site_build`: the initial states are the snapshots of a small site (up to six notes of one or two groups,
articles, posts and topics, with and without English editions, old addresses, dates at the edges
of the calendar, versions 1 to 3) built as a fixture, each sound or with one defect; and one scenario of two
generations and two builds with a damaged object, a fault and a question. Pages of one item make
every listing a paged one; a redirect limit of 2 makes it bite with one bilingual redirect and one plain one.
One defect suffices because validation is a conjunction of independent parts. Deadlock is not checked: the builds end.

`WellFormed`, assumed of the snapshots of `Scenarios`, is the part of the JSON schema the argument
needs: the tables are finite, texts are at most `MaxItems` (10000) and have the fields of `ItemPattern`, and
a route is `posts`, `articles` or `topics` with one segment below it or `notes` with two. That addresses hang
together rests on that pattern: nothing else forbids a route below `/en/`. `PageNames` are the numbers of the pages
of a list as addresses write them, as many as a list of `MaxItems` texts needs. `Sorted` (module `Listing`) stands for
`Array.prototype.sort`: each element is at the place that the number of those before it leaves it.

## 9. The Admin's other parts

The parts of sections 9 and 10 are instances in one module, `Periphery`: a behaviour is of one of
them (`part`), whose state is `state`. They share no state in the program either. `MCPeriphery`
gives them their small values.

- `AssetLibrary` (`assets.go`, `file.go`, `browser.tsx`): an upload is a PUT and an insertion in two
  transactions, the name in the store may hold another writer's bytes, the Admin's list is a chain of pages
  below a cursor while others upload, delete and restore. `LibraryLosesNothing`: a row has its bytes,
  an image one row, the list no gap and no double. Bounds: two images, one of them damaged in the store; two
  held at first; 3 rows; one step of others.
- `InsertImage` (`editor-assets.tsx`, `markdown-editor.tsx`): place, text and textarea are captured
  when the library opens. `ImagesGoWhereSeen`: the image goes there, in a paragraph of its own, or nowhere.
- `BlogPreview` (`blog-preview.ts`, `dev/preview.ts`, `editor.tsx`): the draft is saved, read with its
  author and posted. `PreviewShowsTheDraft`: the site refuses nothing the Admin posts, whatever a saved
  draft still lacks, and shows one saved version. About sixty drafts, with sizes around the limit of 1 MiB.
- `DraftForm` (`selectors.tsx`, `topic-order.ts`, `form.tsx`, `note-group.tsx`): relations kept in two fields each.
  `FormKeepsItsRelations`: the server takes what the form holds after any drag, move or edit, one entry moves at
  a time, labels do not go over to another link. Limits of 3 instead of 100.
- `WritingFocus` (`use-writing-focus.ts`): what was inert, hidden or scrolled is captured and given back.
- `ContentList` (`list-filters.tsx`, `list.tsx`): no filter works unseen. With the former:
  `EditorAndListAreClear`.

Observations that are not findings, since no text of the repository says otherwise:

- An upload outlives the picker it was begun in: the dialog to describe the image then opens by itself.
- Opening the library again during the dialog's exit drops a confirmed image silently.
- A content list opened with an `owner` by a user who manages nobody is refused, with no button to
  clear it; a language filter whose text is "false" is not counted; with an ascending sort an item
  edited between two pages is listed twice.
- Switching the language in focus mode to an editor in preview mode leaves the keyboard on the body.
- A new, empty link makes the server refuse saves until it is filled in.

## 10. The reader's page, the import and the development services

- `ReaderSearch` (`search.ts`): the list is the beginning of the answer to the text searched last
  (`SearchShowsOneAnswer`). Three texts with three, one and no hits, two per page, four searches.
- `ReaderExplorer` (`explorer.ts`): filters, form, address and history; form, list and count are those of the
  filters, and opening the address anew gives the same page, unless a chosen slug is also the label of another
  tag or topic (`ExplorerFollowsItsAddress`). Three articles, one per page, five addresses, two entries of
  history, two topics of which the one is titled like the other's slug.
- `ReaderMotion`, `ReaderTheme`, `ReaderChrome` (`motion.ts`, `scroll-dock.ts`, `theme.ts`, `chrome.ts`,
  `note-pagination.ts`): whatever interrupts an animation, transition or timer, the page is left as
  its state says (`PageSettlesAsChosen`). Two options, two clicks, two tables of heights.
- `ReaderStats`, `ReaderCharts` (`readership.ts`, `chart.ts`, `content.ts`): the range chosen last is the one
  shown, never an answer that came late; scale, nearest sample, tooltip and calendar are
  compared with what they should be by definition (`PageSettlesAsChosen`, `LayoutAndChartsHold`). Two
  ranges, two tabs, three requests.
- `LegacyImport` (`plan.mjs`, `import.go`): a plan, its preflight, each transaction of applying it, ended
  anywhere and applied again (`ImportAddsTheCheckout`). Twelve checkouts, eight databases, three runs.
- `DevServices` (`dev-processes.mjs`, `dev-snapshot-watcher.mjs`): exits, interrupts and failures at
  every step of a restart (`DevSiteIsPrepared`). Three generations, five processes.

The run `periphery` needs no fairness, and deadlock is not checked: people, and processes, may be done.

Observations:

- `search.ts:147`: an index that failed to load while the reader typed is kept, so that the next search
  fails without trying again.
- `explorer.ts`: a tag's name or a topic's title equal to another's slug would be read as that one, and
  the page that shows it is not the page its own address opens; no document says otherwise, and the
  property excepts such a choice (`Unmistakable`).
- `discussion.ts`: a theme changed while the comments' script loads reaches them with the next change.
- `dev-snapshot-watcher.mjs:52` says that the current content is kept when writing the new one failed,
  while no site runs until the next successful poll.
- Nothing keeps two drafts of authors from one slug; `ImportAddsTheCheckout` therefore says of identities
  that what is added shares none.
- `plan.mjs`: two notes of one slug in different groups, and dates in the future, pass the plan and are
  refused by the preflight; an import that ended between creating and saving an item leaves an empty draft.
- `check-legacy-public.mjs:46` reads the English alias of every article and topic, and would
  throw on one without an English edition.

## 11. What is proved

`PublicationProofs`, for every site, bound, number of attempts:

- `TypeCorrect`, `Invariance` (`PipelineInv`), and from it `NoConflict`,
  `AlwaysResolves`, `TriggeredIsReal`, `RetriesUsedUp`, `RowsOnlyAdvance`;
- under `~LatePuts`: `OrdersCurrent`, and `Implements` (refinement).

`PipelineInv` is needed because none of the properties is inductive: that the bytes
agree rests on the snapshot of the *newest* generation being the current projection (`NewestIsFaithful`),
which rests on where the worker is and what it holds (`LocalsAreSound`), on stored objects
matching the rows that record them (`StoreMatchesRows`), on the count of attempts
(`AttemptsAreCounted`) and on pointers, stored or under way, naming stored objects (`PointersResolve`). One lemma per conjunct, one step per action.

`EditorialProofs`, for every set of users, contents, forms and every bound: `TypeCorrect`,
`ChecksAlwaysHold`, `ReviewsAreFrozen`, `SyncedMeansPublic`, `NothingPublicUnvetted`,
`PathsAgree`, `PathsArePermanent`, `VersionsAreUnique`, `FeaturedStaysWithAdmins`,
`TopicsAreWhole`. First `Base` (types and `Bookkeeping`), which every operation
preserves; then `IInv`, which states everything else content by content (`Good(c)`):
an operation touches one content, `Frame` and `OneContent` carry the others over, so each operation
has one short lemma about its own content. `SyncedIsPublished` needs
`UnderReviewIsFrozen`, which needs `ChecksHold`; `OneCanonicalPath` needs that a
content without a public revision still has at most one canonical path.

There too, `EditorialImplementsLife`: `FatesKept` and `FatesCaptured` reduce the fate of all
revisions to the row of one content; each operation is then one abstract step or none.

`IdentityProofs`, for every finite set of accounts and any number of tokens and
requests: `TypeCorrect`, `DisabledStaysOut`, `StatesAreUsedOnce`, `AdminRemainsForever`,
`AccessIsGranted`, `LoginReplacesSession`. Its `IInv` adds what makes them inductive: a
state in a callback's hands or behind a session is spent, and no other callback holds
it (`CallbacksHoldStates`, `OpenersAreSpent`); live sessions have an owner
(`LiveAreOwned`); and without an active Admin nobody was ever given anything
(`AccessHasRoot`), which is why a bootstrap cannot happen twice. `Steps` sorts every step into a
login, a change, or a quiet one.

`AutosaveProofs`, for any sessions, texts and bounds: `Invariance`,
`SavesNeverOverwriteOthers`, `TypedTextStays` and `SubmissionsAreSeen`. `DraftInv` says that a version stands for one text wherever it is held -
queue, command, request in flight, server (`VersionsNameTexts`) - because only the server makes
versions, each for a new text, and a page takes both from the same answer; and that a page waits
for one save at most (`OneSaveInFlight`). That a compare-and-set on the version protects the
text is a consequence. `Pages` adds how far a page is with its command: while it flushes, a save is
on its way, has failed, or nothing is unsaved; once the command is sent, nothing is unsaved and its
version is that of the queue - unless the page was locked meanwhile (`lapsed`), the case `autosave_lost`
shows. From it follow that no answer takes typed text away and that a submission freezes
what the page shows.

`StatsArchiveProofs`, for any days, deliveries, answers, manifests and number of faults: `Invariance`
(`ArchiveInv`: rows, totals and recorded state of a day come from one attempt,
`OneAttemptPerAnswer`; a day is read only after a manifest, `ManifestFirst`), `NewerStays` and
`OneFaultIsCovered`. The last rests on `FaultInv`: a run has tried every day it left behind, and at most
one run has not after one fault; attempts never go back, so whichever of a day's two runs survived
has left its mark.

There too `RankingsAddUp`: a ranking adds up to its total. `RankingMatchesTotal` sums over the days of an
answer, and is not inductive; `RowsAddUp` is, which says of each day that a group counting as complete adds
up to the row of the site *as it stands now* and that a day without that row has no rows. It needs
`ArchiveInv`: a late batch may replace the site's row and leave the groups, and only because both
came from the last attempt does it replace neither. That counting under new keys loses nothing
but the dropped hosts (`Regrouped`), that only the days with a row contribute (`RankedRows`) and that
sums compare term by term are inductions over finite sets. The library's induction theorems take a predicate;
the lemmas `Induct` and `InductSets` take the set of those of which the claim holds instead, and
are proved from `WFMin` and the facts about cardinality. From them follow the lemmas about
`SumFunctionOnSet` (`SumAny`: in any order; `SumUnion`, `SumLess`, `SumWithin`, `SumParts`).
Assumed of the constants: an answer has finitely many rows, of natural numbers.

`SiteBuildProofs`, for any history of well-formed snapshots, any number of builds, damages and faults:
`Invariance`, `DeployedIsOneGeneration`, `StatusIsHonest`. The invariant says of every place a snapshot
waits in - the bucket, the pointer a build read, the snapshot it holds, each part written -
that it is what the CMS exported under that number, and that `wanted` is not below it.

There too, for every well-formed snapshot of whatever size: `AcceptedBuilds` and `CompiledHangsTogether`,
and from them, by way of `BuildsCompile` (what a build holds has been accepted, what throws is
excused, nothing is refused), `AcceptedSnapshotsAlwaysBuild` and `SitesHangTogether`. The lemmas follow the code:

- what is sorted is listed, each element once, whenever the comparison is a strict order in which any two are
  comparable (`PlacesList`); the four comparisons of `indexes.ts` are such orders because identities are unique
  (`RecentLists`, `FeaturedLists`, `ReadingLists`) and positions are (`EntriesList`);
- the tables are keyed by identity and by slug, and a group of any version has a note (`TablesKeyed`, `GroupsKeyed`), so
  that `createPublication` finds every reference (`AcceptedPublishes`);
- the addresses of texts, of types and of pages of lists differ in how they begin or how long they are (`TextShape`,
  `TypeShape`, `ListShape`), two pages of one list by their number, two lists by their slug, two texts by their one
  canonical route; none is reserved, none begins with `en` (`PagesFree`), and an old address is nobody's (`OldIsFree`);
- what a locale prefix does to an address (`Locales`), and that every output has one row of the manifest (`AcceptedManifest`);
- the assertions of the gate one by one, `AcceptedGatePages` to `AcceptedGateSearch`: every link of every page leads to
  a page, and the search has as many pages as there are texts but posts, English editions, and four of the site's own.

Stating this for every snapshot corrected the model twice, in what it let through: an item's own path is its canonical
one (`snapshot.mjs:89`, not only its route's), and the pattern of a route fixes the number of segments. Without the second an
old address `/posts/page/2/` would be accepted and then collide with the second page of posts. It also brought the schema's bound on
items into the model: the pages of a list are no more than there are numbers for (`MaxItems`, `PageNames`).

`ReaderProofs`, for any numbers of texts, articles, options, tabs, ranges, clicks, requests, processes and drafts:
`Invariance`, `SearchAnswers`, `PageSettles`, `ExplorerIsItsAddress`, `LayoutIsKept`, `SiteIsPrepared`,
`PreviewIsTaken`, `ImagesAreInserted`. Each part has an invariant of its box, one lemma per action that keeps
it, and one that draws the property from it.

- Search: a call that holds the newest ticket is the only one, is about the text last searched and asks
  for what comes after the hits shown; every other call is thrown away, so its answer changes nothing
  (`SearchCalled`). What is shown is a beginning of one answer (`SearchListed`); the button for
  more is disabled only while something is awaited.
- Theme: a job that is no longer the active one has applied its theme and reveals nothing; the active one is of
  the theme chosen; without one the theme is that (`ThemeGood`).
- Regions: what is hidden, or about to be when its animation ends, is what should not be seen, and the
  focus is never in it (`MotionRegions`); the cue keeps its own timer (`MotionCue`).
- Statistics: an open request that is current asks for the range selected; the chart is of the data shown, the
  tooltip of a sample of that chart, and a frame that is pending has a pointer (`StatsLoaded`, `StatsCharted`).
- Explorer: form, list and count are those of the filters, and the filters those of the address at the present
  place of the history, unless a label is in the way (`ExplorerGood`). What is written into an address is read
  out of it again (`ExplorerRoundTrip`, the only place that needs `Unmistakable`); the page asked for changes neither what is found nor the form (`ExplorerAlikeFound`), and a page beyond the last is the last
  one (`ExplorerClamped`); hence changing, resetting and paging, going back and forth and opening
  the address in a new tab all show the same.
- Chrome: the one timer that is pending is that of the last announcement, which is visible exactly while it is; a list
  that has been laid out reserves the height of its highest page at its own width (`ChromeGood`). A page's height is
  a fold, which adds up in whatever order (`ChromeFold`, `AddsUpExists`).
- Charts: the division of a scale (`QuotientIs`); both searches narrow their bounds around the one index that the definition
  asks for (`Ends`, `EndsInHalf`; `Stops`, `StopsInHalf`), hence the nearest sample (`NearestIsTrue`) and the count of any day
  (`GrowthIsTrue`, by `TotalOf`: counts grow, so the largest before a day is the last); the path under way is the run of
  archived days up to here, and each completed one lies between two days that are not (`Drawn`), hence `TrafficIsTrue`; an
  answer taken has both counts archived on the same days, and what is drawn depends on nothing else (`WalksOnce`).
  The recursive functions are unfolded by inductions over naturals, each with its own set of those reached
  (`ByInduction`, from the well-founded induction of the library).
- Development services: of the processes of one name only the one that `running` holds lives, and what lives is
  listed (`DevProcsGood`); a process that ended unasked stops the supervisor, which then awaits all that live
  (`DevStopGood`); and a site that was stopped for a restart leaves the watcher behind the newest
  generation, so that the next poll starts it again (`DevWatchGood`).
- Preview: what was read is one version the server had saved, not older than what the author had when the flush
  ended, and what is posted is its projection (`PreviewGood`); that the site accepts it is `PreviewAccepted`, for every
  draft that `Saves` admits.
- Insertion: while the revision is the one captured, so are the text and the lock (`InsertGood`); this is why a
  comparison of revisions suffices before an image is spliced in.

`DeskProofs`, likewise: `Invariance`, `DeskIsClear`, `LibraryIsKept`, `RelationsAreKept`, `ImportIsWhole`.

- Focus mode: everything inert is inert by itself or is remembered by the hook in focus, which
  remembers of each place whether it was inert before (`Covers`); one hook at most is focused, that
  of the language shown (`FocusGood`). Between two commits nothing else holds, which is why
  the invariant is stated of committed states, with the passive effects still due named in it.
- Content list: no key of the address but `archived` is ever "false" (`ListGood`), so that every filter that narrows the
  query is counted, shown when the filters are unfolded, and cleared.
- Image library: a page goes down to where the next one begins (`LibDown`), and each page of a chain lies below the
  cursor of those before, so no asset is listed twice whatever happened between two answers (`LibChain`). That nothing
  is left out (`LibTop`) is kept only while nobody changed the rows, or the call that did has been answered and
  its `onSuccess` has begun the list again (`LibTrue`, `LibQuiet`): a row appended or restored between would be above all that
  is listed. Rows: an upload that is about to be recorded has its own bytes stored, and recording looks for the
  row first (`LibStored`). That the sorted rows are listed, each once and the newest first, is `PlacesList`.
- Relations: the articles are told apart and not the text itself, those recommended are no more than there are, and a text
  has only what its type has (`FormEntries`, `FormTags`); every label is of a link there is and is not of an empty
  address (`FormLinks`), whence there are no more labels than links (`FormFewLabels`). `FormMoved` says where each article is after
  one was taken out and put back, and from that the order (`FormSameOrder`) and the sections (`FormSameSection`) of the
  others follow, for any index a drag may still hold. A link removed shifts those after it, so that equally many have each of
  the other addresses (`FormUsesSame`).
- Import (`ImportGood`): what was in the database is untouched, and each content added is blank or one item with its
  entries, published (`ImportSafe`); the plan tells its items apart, and an entry's article comes before
  the topic that lists it (`ImportReady`); as long as the run has made n items, the first n are published, by the
  identities it remembers (`ImportMade`, `ImportKeys`), and nothing from before the run has the key or the path of any
  item of the plan (`ImportFresh`), which the preflight established and only this run's own items could change. A
  topic found in the end by its path is therefore the one the run made (`ImportTopicOf`), so its entries are those
  of the checkout in their order (`ImportTopic`); the images of all items are there (`ImportImages`). `KeptEnd` and
  `KeptList` say what filtering does to a list that grew at its end.

Assumptions: those on constants named in the modules (`RevisionsAssumption`, `TextsAssumption`,
`ManifestsAssumption`, `ScenariosAssumption`, ...), and `~LatePuts` where stated. TLC evaluates each of them
for the instances of the runs. Those of `Periphery` say:

- `SearchAssumption`, `MotionAssumption`, `StatsAssumption`: a page holds at least one hit, there is an option and a tab,
  samples are counted by naturals.
- `ExplorerAssumption`: a page holds at least one row and there are finitely many articles, no more than the pages
  that can be addressed hold; no title or name is empty. Labels may be the slugs of others.
- `ChromeAssumption`: a page of notes has room for one, and a list has as many heights at every width.
- `ChartsAssumption`: each input has the numbers of its case; the positions of samples ascend, and so do the days of the
  publications, whose counts never fall (`content.ts` counts what was published up to each day); a period asked for has a day.
- `ImportAssumption`: articles, topics, notes, images and readings of a checkout are lists and a topic has a slug; in the
  database no two published contents share an address, which is unique there (`00002_editorial.sql:108`).
- `PreviewAssumption`: the drafts are those `validateRelations` lets the server save, and nobody titled one with the
  very text that stands for a missing title.
- `LibraryAssumption`: a page has room for an asset, and the rows at first name different images whose own bytes are stored.
- `FormAssumption`: the limits are naturals.
- `FocusAssumption`: the editors are not among the places beside them.
- `ListAssumption`: no filter of an address but `archived` has the text "false". The code does not prevent it
  (a language or a note group may be called that): such a filter works and is not counted, as section 9 notes.

## 12. Only model-checked

- Liveness (`Settles`, `Publishes`, `EditsSettle`): the prover does not handle fairness.

Every other property of a passing run is proved for all values of the constants.

## 13. Mutants

Operators commented `(mutation: ...)` are plausible bugs of the definition after them:
the fence not taken, a pointer not cleared, a version not increased, a
guard of the policy forgotten, an answer applied although another search began. Each property is violated
when its mutant replaces the definition (`PROJECT.json`, "mutants").

## 14. What is not modelled, and why

- Text: Markdown, validity of fields, layout of the snapshot, DTOs, cursors, markup and styling of pages;
  pure functions without state.
- In the workflow: covers, tags and the copied display fields of note groups, comments of reviews, `revision_no`.
- Time: backoff and expiry are free choices.
- The HTTP layer, configuration, logging, the embedded Admin, generated code: wiring.
- The audit log: an append in the same transaction that nothing reads back.
- Content reads and projections: one read transaction each, no state.
- The offline upgrades: one transaction each while the server is stopped; a model could only
  assume that it is.
- CSRF tokens, `last_seen_at` and profile texts; a power loss that drops committed
  transactions of the WAL (`synchronous=NORMAL`); directory syncs of the file store.
- Deletion guards and localisation of taxonomy; the Admin's screens of users, reviews, tags, audit and
  publication, which send one request and show its answer; `CoverField`; the ring of the Tab key
  in focus mode; the explorer's summary of active filters.
- The wording of the GraphQL query, `sync_runs` and `daily_content_counts` of the statistics worker;
  the check of the site against the old one (`check-legacy-public.mjs`).
