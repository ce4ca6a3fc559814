---------------------------- MODULE StatsArchive ----------------------------
(***************************************************************************)
(* The archive of the public site's readership (apps/web/stats).           *)
(*                                                                         *)
(* A cron schedule starts a run of the Worker (worker/index.ts).  The run  *)
(* loads the manifest of the deployed site, reads two completed days from  *)
(* the analytics service, site, pages and referrers by separate queries    *)
(* (rum/client.ts), and archives each day in one batch of D1               *)
(* (worker/archive.ts).  /api/stats answers from the tables                *)
(* (worker/api.ts).  Runs may be late, delivered twice and overlap; a      *)
(* query, a batch or the Worker may fail at any step, and the site may be  *)
(* deployed anew meanwhile.                                                *)
(*                                                                         *)
(* Abstractions: a group has one count (page loads of a path, visits of a  *)
(* source), and its rows share the sampling of the site's total; a time is *)
(* the day it falls on; sync_runs, daily_content_counts and the titles of  *)
(* pages are left out.                                                     *)
(***************************************************************************)
EXTENDS Naturals, FiniteSets, FiniteSetsExt, Functions

CONSTANTS
    Days,          \* the completed days that are read
    Runs,          \* deliveries of the cron event
    At,            \* At[r]: the time r is scheduled for
    Manifests,     \* the manifests of the successive deployments, a sequence
    SiteAnswers,   \* what the service may say of a day: total and sampling
    PageAnswers,   \* page loads by path
    SourceAnswers, \* visits by referring host
    Limit,         \* RUM_GROUP_LIMIT
    MaxFaults      \* bound: batches that fail and Workers that die

ASSUME DaysAssumption == Days \subseteq Nat
ASSUME RunsAssumption ==
    At \in [Runs -> Nat \ {0, 1}] /\ \A r \in Runs : At[r] - 2 \in Days /\ At[r] - 1 \in Days
ASSUME AnswersAssumption ==
    /\ SiteAnswers \subseteq [total : Nat, visits : Nat, interval : 0..2]
    /\ \A answer \in SourceAnswers : DOMAIN answer \subseteq {"direct", "bing", "other", "own"}
    /\ \A answer \in PageAnswers \union SourceAnswers :
          IsFiniteSet(DOMAIN answer) /\ \A x \in DOMAIN answer : answer[x] \in Nat

\* validateManifest: a path has one target, and the target is a page itself.
ASSUME ManifestsAssumption ==
    /\ 1 \in DOMAIN Manifests /\ DOMAIN Manifests \subseteq Nat \ {0}
    /\ \A i \in DOMAIN Manifests : \A p \in DOMAIN Manifests[i] :
          Manifests[i][p] \in DOMAIN Manifests[i] /\ Manifests[i][Manifests[i][p]] = Manifests[i][p]

VARIABLES
    today,      \* the current day
    deployed,   \* how many deployments there have been
    runs,       \* per delivery, the run
    site,       \* daily_site_traffic
    pages,      \* daily_page_traffic, per day the rows and their archive_at
    referrers,  \* daily_referrers
    states,     \* daily_dimensions
    faults

db   == <<site, pages, referrers, states>>
vars == <<today, deployed, runs, site, pages, referrers, states, faults>>

Dimensions == {"site", "pages", "referrers"}
Groups     == {"pages", "referrers"}
Coverage   == {"complete", "partial", "unavailable"}
Hosts      == {"direct", "bing", "other", "own"}
Sources    == {"direct-unknown", "search", "external-other"}
Paths      == UNION {DOMAIN Manifests[i] : i \in DOMAIN Manifests}

Steps == {"due", "marker", "settings", "site", "pages", "referrers", "archive",
          "give up", "no manifest", "ended"}

\* No answer yet, no rows, no row: a time of 0 stands for NULL.
NoSite   == [total |-> 0, visits |-> 0, interval |-> 0]
NoRow    == [total |-> 0, visits |-> 0, quality |-> "partial", at |-> 0]
NoRows   == [rows |-> <<>>, at |-> 0]
NotTried == [attempt |-> 0, success |-> 0, result |-> "none"]

Run == [pc : Steps, day : Days, manifest : DOMAIN Manifests \union {0},
        site : SiteAnswers \union {NoSite}, pages : PageAnswers \union {<<>>},
        referrers : SourceAnswers \union {<<>>}]

SiteRow == [total : Nat, visits : Nat, quality : {"observed", "sampled-estimate", "partial"},
            at : Nat]

State == [attempt : Nat, success : Nat, result : Coverage \union {"none"}]

TypeOK ==
    /\ today \in Nat /\ faults \in Nat /\ deployed \in DOMAIN Manifests
    /\ runs \in [Runs -> Run]
    /\ site \in [Days -> SiteRow]
    /\ DOMAIN pages = Days /\ DOMAIN referrers = Days
    /\ \A d \in Days : /\ DOMAIN pages[d].rows \subseteq Paths /\ pages[d].at \in Nat
                       /\ DOMAIN referrers[d].rows \subseteq Sources /\ referrers[d].at \in Nat
    /\ states \in [Days -> [Dimensions -> State]]

-----------------------------------------------------------------------------
(* What a run makes of the answers.                                        *)

\* The days of a run: the one before yesterday, then yesterday.
FirstDay(r) == At[r] - 2
LastDay(r)  == At[r] - 1

\* A day is read only when it is over.
Completed(day) == day < today

\* Rows cover the day when none was cut off, they add up to the site's total
\* and nothing was sampled (grouped; archiveDay looks at the evidence again).
GroupStatus(rows, total, s) ==
    IF /\ Cardinality(DOMAIN rows) < Limit
       /\ SumFunction(rows) = total
       /\ DOMAIN rows = {} \/ s.interval = 1
    THEN "complete" ELSE "partial"

\* An interval of 0 stands for null, of 2 for any above 1.
Quality(s) == IF s.interval = 2 THEN "sampled-estimate"
              ELSE IF s.interval = 1 THEN "observed" ELSE "partial"

\* A path the manifest does not know lowers the coverage of the pages.
StateOf(run, dim) ==
    IF dim = "site" THEN IF Quality(run.site) = "partial" THEN "partial" ELSE "complete"
    ELSE IF dim = "pages" /\ ~(DOMAIN run.pages \subseteq DOMAIN Manifests[run.manifest])
    THEN "partial"
    ELSE GroupStatus(run[dim], IF dim = "pages" THEN run.site.total ELSE run.site.visits, run.site)

\* Counts of the rows that are not dropped, under new keys.
Regroup(rows, dropped, keyOf) ==
    [k \in {keyOf[x] : x \in DOMAIN rows \ dropped} |->
        SumFunctionOnSet(rows, {x \in DOMAIN rows \ dropped : keyOf[x] = k})]

\* The site's own hosts are no sources.
OwnHosts  == {"own"}
SourceKey == [h \in Hosts \ OwnHosts |-> IF h = "direct" THEN "direct-unknown"
                                         ELSE IF h = "bing" THEN "search" ELSE "external-other"]

-----------------------------------------------------------------------------
(* The batch of one day.                                                   *)

\* (mutation: whoever writes last wins)
IsCurrentAlways(old, at) == TRUE

\* A row is replaced by an attempt that is not older.
IsCurrent(old, at) == at >= old

\* (mutation: a failed attempt leaves the recorded state alone)
AttemptedIfSaved(old, at, result, saved) ==
    IF saved THEN [attempt |-> at, success |-> at, result |-> result] ELSE old

\* stateStatement.
Attempted(old, at, result, saved) ==
    IF IsCurrent(old.attempt, at)
    THEN [attempt |-> at, success |-> IF saved THEN at ELSE old.success, result |-> result]
    ELSE old

SaveSite(d, run, at) ==
    site' = IF IsCurrent(site[d].at, at)
            THEN [site EXCEPT ![d] = [total |-> run.site.total, visits |-> run.site.visits,
                                      quality |-> Quality(run.site), at |-> at]]
            ELSE site

\* The rows of a group are replaced by a complete answer only.
Replaces(d, run, dim, at) ==
    StateOf(run, dim) = "complete" /\ IsCurrent(states[d][dim].attempt, at)

SaveGroups(d, run, at) ==
    /\ pages' = IF Replaces(d, run, "pages", at)
                THEN [pages EXCEPT ![d] = [rows |-> Regroup(run.pages, {}, Manifests[run.manifest]), at |-> at]]
                ELSE pages
    /\ referrers' = IF Replaces(d, run, "referrers", at)
                    THEN [referrers EXCEPT ![d] = [rows |-> Regroup(run.referrers, OwnHosts, SourceKey), at |-> at]]
                    ELSE referrers

SaveStates(d, run, at) ==
    states' = [states EXCEPT ![d] =
        [dim \in Dimensions |->
            Attempted(@[dim], at, StateOf(run, dim), dim = "site" \/ StateOf(run, dim) = "complete")]]

\* recordFailure.
SaveFailure(d, at) ==
    /\ states' = [states EXCEPT ![d] =
                    [dim \in Dimensions |-> Attempted(@[dim], at, "unavailable", FALSE)]]
    /\ UNCHANGED <<site, pages, referrers>>

-----------------------------------------------------------------------------
Init ==
    /\ today = 0 /\ deployed = 1 /\ faults = 0
    /\ runs = [r \in Runs |-> [pc |-> "due", day |-> FirstDay(r), manifest |-> 0, site |-> NoSite,
                               pages |-> <<>>, referrers |-> <<>>]]
    /\ site = [d \in Days |-> NoRow]
    /\ pages = [d \in Days |-> NoRows]
    /\ referrers = [d \in Days |-> NoRows]
    /\ states = [d \in Days |-> [dim \in Dimensions |-> NotTried]]

Tick ==
    /\ \E r \in Runs : today < At[r]
    /\ today' = today + 1
    /\ UNCHANGED <<deployed, runs, db, faults>>

Deploy ==
    /\ deployed + 1 \in DOMAIN Manifests
    /\ deployed' = deployed + 1
    /\ UNCHANGED <<today, runs, db, faults>>

Step(r, pc) == runs' = [runs EXCEPT ![r].pc = pc]

\* loadManifest reads the manifest, then the marker of the build.
Start(r) ==
    /\ runs[r].pc = "due" /\ today >= At[r]
    /\ runs' = [runs EXCEPT ![r] = [@ EXCEPT !.pc = "marker", !.manifest = deployed]]
    /\ UNCHANGED <<today, deployed, db, faults>>

\* Either file may be unreadable; a deployment between the two is noticed.
CheckMarker(r) ==
    /\ runs[r].pc = "marker"
    /\ \/ runs[r].manifest = deployed /\ Step(r, "settings")
       \/ Step(r, "no manifest")
    /\ UNCHANGED <<today, deployed, db, faults>>

\* One of the four queries fails, at whichever stage: nothing of the day is used.
ReadFails(r) ==
    /\ runs[r].pc \in {"settings", "site", "pages", "referrers"}
    /\ Step(r, "give up")
    /\ UNCHANGED <<today, deployed, db, faults>>

ReadSettings(r) ==
    /\ runs[r].pc = "settings" /\ Completed(runs[r].day)
    /\ Step(r, "site")
    /\ UNCHANGED <<today, deployed, db, faults>>

ReadSite(r, answer) ==
    /\ runs[r].pc = "site"
    /\ runs' = [runs EXCEPT ![r] = [@ EXCEPT !.pc = "pages", !.site = answer]]
    /\ UNCHANGED <<today, deployed, db, faults>>

ReadPages(r, answer) ==
    /\ runs[r].pc = "pages"
    /\ runs' = [runs EXCEPT ![r] = [@ EXCEPT !.pc = "referrers", !.pages = answer]]
    /\ UNCHANGED <<today, deployed, db, faults>>

ReadReferrers(r, answer) ==
    /\ runs[r].pc = "referrers"
    /\ runs' = [runs EXCEPT ![r] = [@ EXCEPT !.pc = "archive", !.referrers = answer]]
    /\ UNCHANGED <<today, deployed, db, faults>>

\* The run goes on with the next day; without a manifest it only records.
Advance(r) ==
    runs' = [runs EXCEPT ![r] =
               IF @.day = LastDay(r) THEN [@ EXCEPT !.pc = "ended", !.site = NoSite,
                                                    !.pages = <<>>, !.referrers = <<>>]
               ELSE [@ EXCEPT !.day = LastDay(r), !.site = NoSite, !.pages = <<>>,
                              !.referrers = <<>>,
                              !.pc = IF @ = "no manifest" THEN @ ELSE "settings"]]

Archive(r) ==
    /\ runs[r].pc = "archive"
    /\ SaveSite(runs[r].day, runs[r], At[r])
    /\ SaveGroups(runs[r].day, runs[r], At[r])
    /\ SaveStates(runs[r].day, runs[r], At[r])
    /\ Advance(r)
    /\ UNCHANGED <<today, deployed, faults>>

RecordFailure(r) ==
    /\ runs[r].pc \in {"give up", "no manifest"}
    /\ SaveFailure(runs[r].day, At[r])
    /\ Advance(r)
    /\ UNCHANGED <<today, deployed, faults>>

End(r) == runs' = [runs EXCEPT ![r] = [@ EXCEPT !.pc = "ended", !.site = NoSite,
                                                !.pages = <<>>, !.referrers = <<>>]]

Fault ==
    /\ faults < MaxFaults
    /\ faults' = faults + 1
    /\ UNCHANGED <<today, deployed>>

\* The batch of a day is refused: the failure is recorded, if that works, and
\* the run throws; its later day is not tried.
BatchFails(r) ==
    /\ runs[r].pc = "archive"
    /\ Fault /\ End(r)
    /\ SaveFailure(runs[r].day, At[r])

\* The Worker dies, or recording a failure fails: the rest of the run is gone.
Dies(r) ==
    /\ runs[r].pc \notin {"due", "ended"}
    /\ Fault /\ End(r)
    /\ UNCHANGED db

Next ==
    \/ Tick
    \/ Deploy
    \/ \E r \in Runs :
          \/ Start(r) \/ CheckMarker(r) \/ ReadSettings(r) \/ ReadFails(r)
          \/ Archive(r) \/ RecordFailure(r) \/ BatchFails(r) \/ Dies(r)
    \/ \E r \in Runs, answer \in SiteAnswers : ReadSite(r, answer)
    \/ \E r \in Runs, answer \in PageAnswers : ReadPages(r, answer)
    \/ \E r \in Runs, answer \in SourceAnswers : ReadReferrers(r, answer)

Spec == Init /\ [][Next]_vars

-----------------------------------------------------------------------------
(* The answer of /api/stats for the days before today, under manifest m.   *)

InRange(length) == {d \in Days : today - length <= d /\ d < today}
SiteDays(length) == {d \in InRange(length) : site[d].at > 0}

Good(dim, length) == {d \in SiteDays(length) : states[d][dim].result = "complete"}

Contiguous(length) ==
    /\ SiteDays(length) # {}
    /\ \A d \in InRange(length) : d >= Min(SiteDays(length)) => d \in SiteDays(length)

CurrentPaths(m) == {p \in DOMAIN m : m[p] = p}

\* (mutation: the site's coverage stands for the pages')
PagesReadySite(m, length) ==
    /\ Contiguous(length)
    /\ Good("site", length) = SiteDays(length)
    /\ \A d \in InRange(length) : DOMAIN pages[d].rows \subseteq CurrentPaths(m)

PagesReady(m, length) ==
    /\ Contiguous(length)
    /\ Good("pages", length) = SiteDays(length)
    /\ \A d \in InRange(length) : DOMAIN pages[d].rows \subseteq CurrentPaths(m)

ReferrersReady(length) ==
    Contiguous(length) /\ Good("referrers", length) = SiteDays(length)

Total(length)  == SumFunctionOnSet([d \in Days |-> site[d].total], SiteDays(length))
Visits(length) == SumFunctionOnSet([d \in Days |-> site[d].visits], SiteDays(length))
Ranked(group, length) ==
    SumFunctionOnSet([d \in Days |-> SumFunction(group[d].rows)], InRange(length))

-----------------------------------------------------------------------------
(* Properties.                                                             *)

\* Whatever run came last, rows, totals and states of a day belong together: a
\* group that counts as complete was written by the attempt that wrote the
\* site's total, and that was the last attempt (archive.ts:29, :170, :190).
OneAttemptPerAnswer ==
    \A d \in Days :
        /\ \A dim \in Dimensions : states[d][dim].success <= states[d][dim].attempt
        /\ site[d].at <= states[d]["site"].attempt
        /\ pages[d].at <= states[d]["pages"].attempt
        /\ referrers[d].at <= states[d]["referrers"].attempt
        /\ \A dim \in Groups : states[d][dim].attempt = states[d]["site"].attempt
        /\ states[d]["pages"].result = "complete" =>
              /\ pages[d].at > 0
              /\ pages[d].at = states[d]["pages"].attempt /\ site[d].at = pages[d].at
        /\ states[d]["referrers"].result = "complete" =>
              /\ referrers[d].at > 0
              /\ referrers[d].at = states[d]["referrers"].attempt /\ site[d].at = referrers[d].at

\* Days are only read with a manifest at hand.
ManifestFirst == \A r \in Runs : runs[r].pc # "due" => runs[r].manifest # 0

ArchiveInv == TypeOK /\ ManifestFirst /\ OneAttemptPerAnswer

\* When the public page shows a ranking, it adds up to the total shown above
\* it, names only pages of the manifest it is answered with, and the referrers
\* do not exceed the visits (api.ts:122, archive.ts:146): for every manifest a
\* request may hold, and every range of days.
RankingMatchesTotal ==
    \A i \in DOMAIN Manifests, length \in 1..Cardinality(Days) :
        /\ PagesReady(Manifests[i], length) => Ranked(pages, length) = Total(length)
        /\ ReferrersReady(length) => Ranked(referrers, length) <= Visits(length)

\* "Older completions cannot overwrite newer observations"
\* (docs/operations/statistics.md:81): no step takes a day back to an older
\* attempt, or forgets its rows.
OlderNeverOverwrites ==
    [][\A d \in Days :
          /\ site'[d].at >= site[d].at /\ pages'[d].at >= pages[d].at
          /\ referrers'[d].at >= referrers[d].at
          /\ \A dim \in Dimensions : /\ states'[d][dim].attempt >= states[d][dim].attempt
                                     /\ states'[d][dim].success >= states[d][dim].success]_vars

\* There is no backfill, but each day is in two schedules: a single failed
\* batch or dead Worker leaves no day without a recorded attempt
\* (index.ts:73, :86; archive.ts:241).
OneFaultLosesNoDay ==
    \A d \in Days :
        /\ faults <= 1
        /\ \A k \in 1..2 : \E r \in Runs : At[r] = d + k
        /\ \A r \in Runs : d \in {FirstDay(r), LastDay(r)} => runs[r].pc = "ended"
        => \A dim \in Dimensions : states[d][dim].attempt > d
=============================================================================
