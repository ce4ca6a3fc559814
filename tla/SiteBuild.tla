----------------------------- MODULE SiteBuild ------------------------------
(***************************************************************************)
(* Builds of the public site while the CMS goes on publishing              *)
(* (scripts/prepare-web-content.mjs, scripts/build-web.mjs, the gate of    *)
(* scripts/check-public-build.mjs, and the CMS's question whether the site *)
(* is current, internal/publication/service.go).                           *)
(*                                                                         *)
(* The CMS puts a generation's snapshot, then latest.json naming it; a     *)
(* build reads latest.json, then the snapshot, and writes the pages, the   *)
(* redirects, the manifest of the statistics and the build's marker one    *)
(* after the other; each step may fail, which ends the build.  Every build *)
(* has a checkout of its own, and a finished one is deployed whole; that   *)
(* builds finish in the order they began is not assumed.  The checks of    *)
(* the repository build a fixture file instead and run the gate over it.   *)
(*                                                                         *)
(* Abstraction: the hash of a snapshot is the snapshot.                    *)
(***************************************************************************)
EXTENDS PublicSite

CONSTANTS
    Scenarios,    \* what the CMS publishes, how many builds run, and what goes wrong
    Builds        \* the builds

\* A scenario: the snapshots of successive generations, whether they are published
\* or one fixture file, and what might be found in the bucket in place of one.
ASSUME ScenariosAssumption ==
    \A c \in Scenarios :
        /\ c = [history |-> c.history, fixture |-> c.fixture, damage |-> c.damage, faults |-> c.faults,
                builds |-> c.builds, asks |-> c.asks]
        /\ 1 \in DOMAIN c.history /\ c.builds \subseteq Builds
        /\ \A i \in DOMAIN c.history :
              i \in Nat /\ c.history[i].generation = i /\ WellFormed(c.history[i])

VARIABLES
    scenario,
    wanted,     \* the generation the CMS's database has reached
    objects,    \* the bucket: snapshots/generation-N.json, per generation put
    latest,     \* latest.json: a generation and its hash, 0 when there is none
    build,      \* per build, what it holds and has written
    site,       \* what is deployed
    question    \* the CMS's Status request: the wanted generation and the answer

vars == <<scenario, wanted, objects, latest, build, site, question>>

Generations == DOMAIN scenario.history

\* No snapshot.
None == [generation |-> 0]

\* The parts of dist/, each named by the snapshot it was made from.
Parts   == {"pages", "redirects", "manifest", "marker"}
Written == [part \in Parts |-> None]

Idle == [pc |-> "idle", latest |-> None, data |-> None, dist |-> Written]

Init ==
    /\ scenario \in Scenarios
    /\ wanted = 0 /\ objects = <<>> /\ latest = None
    /\ build = [b \in Builds |-> Idle]
    /\ site = Written
    /\ question = [open |-> FALSE, wanted |-> 0, answer |-> "none"]

-----------------------------------------------------------------------------
(* The CMS (module Publication has the whole of it).                        *)

Publish ==
    /\ wanted + 1 \in Generations /\ ~scenario.fixture
    /\ wanted' = wanted + 1
    /\ UNCHANGED <<scenario, objects, latest, build, site, question>>

\* Generations may be skipped; an export is of the one wanted by then.
PutSnapshot ==
    /\ wanted > 0 /\ wanted \notin DOMAIN objects
    /\ objects' = [g \in DOMAIN objects \union {wanted} |-> scenario.history[g]]
    /\ UNCHANGED <<scenario, wanted, latest, build, site, question>>

PutLatest ==
    /\ \E g \in DOMAIN objects :
          /\ \A h \in DOMAIN objects : h <= g
          /\ g > latest.generation
          /\ latest' = [generation |-> g, sha |-> scenario.history[g]]
    /\ UNCHANGED <<scenario, wanted, objects, build, site, question>>

\* An object of the bucket is not what the CMS put there any more.
Damage ==
    /\ \E g \in DOMAIN objects, other \in scenario.damage :
          objects' = [objects EXCEPT ![g] = [other EXCEPT !.generation = g]]
    /\ scenario' = [scenario EXCEPT !.damage = {}]
    /\ UNCHANGED <<wanted, latest, build, site, question>>

-----------------------------------------------------------------------------
(* A build.                                                                 *)

Becomes(b, record) ==
    /\ build' = [build EXCEPT ![b] = record]
    /\ UNCHANGED <<scenario, wanted, objects, latest, site, question>>

\* CONTENT_SNAPSHOT_FILE.
ReadFixture(b) ==
    /\ b \in scenario.builds /\ build[b].pc = "idle" /\ scenario.fixture
    /\ LET data == scenario.history[1] IN
       Becomes(b, IF SnapshotValid(data) THEN [build[b] EXCEPT !.pc = "compile", !.data = data]
                  ELSE [build[b] EXCEPT !.pc = "unread"])

\* readPrepared: without latest.json, or when it cannot be read, nothing is built.
ReadLatest(b) ==
    /\ b \in scenario.builds /\ build[b].pc = "idle" /\ latest.generation > 0
    /\ Becomes(b, [build[b] EXCEPT !.pc = "snapshot", !.latest = latest])

\* loadSnapshot: the bytes latest.json promised, valid, and of that generation.
Accepted(want, data) ==
    /\ data = want.sha
    /\ SnapshotValid(data)
    /\ data.generation = want.generation

ReadSnapshot(b) ==
    /\ build[b].pc = "snapshot"
    /\ LET data == objects[build[b].latest.generation] IN
       Becomes(b, IF Accepted(build[b].latest, data)
                  THEN [build[b] EXCEPT !.pc = "compile", !.data = data]
                  ELSE [build[b] EXCEPT !.pc = "unread"])

\* Everything that can throw on the input does so before the first file is written.
Compile(b) ==
    /\ build[b].pc = "compile"
    /\ LET s == build[b].data IN
       Becomes(b, [build[b] EXCEPT !.pc =
          IF \/ PublicationThrows(s) \/ PagesThrow(s) \/ ManifestThrows(s) \/ RedirectsThrow(s)
             \/ GrowthThrows(s) \/ DatesThrow(s)
          THEN "thrown" ELSE "pages"])

\* (mutation: the marker is made from latest.json as it is by then)
MadeFromLatest(b, part) ==
    IF part = "marker" /\ latest # None THEN latest.sha ELSE build[b].data

MadeFrom(b, part) == build[b].data

Write(b, part, next) ==
    /\ build[b].pc = part
    /\ Becomes(b, [build[b] EXCEPT !.pc = next, !.dist[part] = MadeFrom(b, part)])

\* astro build, then the files beside the pages, then the index of the search.
WriteSite(b) ==
    \/ Write(b, "pages", "redirects") \/ Write(b, "redirects", "manifest")
    \/ Write(b, "manifest", "marker") \/ Write(b, "marker", IF scenario.fixture THEN "gate" ELSE "built")

Gate(b) ==
    /\ build[b].pc = "gate"
    /\ Becomes(b, [build[b] EXCEPT !.pc = IF GatePasses(build[b].dist["pages"]) THEN "checked" ELSE "refused"])

\* A process that dies, or a file or an object that cannot be read or written.
Dies(b) ==
    /\ build[b].pc \notin {"idle", "built", "thrown", "refused", "unread", "checked", "over"}
    /\ scenario.faults > 0
    /\ scenario' = [scenario EXCEPT !.faults = @ - 1]
    /\ build' = [build EXCEPT ![b] = [Idle EXCEPT !.pc = "over"]]
    /\ UNCHANGED <<wanted, objects, latest, site, question>>

Deploy(b) ==
    /\ build[b].pc = "built"
    /\ site' = build[b].dist
    /\ build' = [build EXCEPT ![b] = [Idle EXCEPT !.pc = "over"]]
    /\ UNCHANGED <<scenario, wanted, objects, latest, question>>

-----------------------------------------------------------------------------
(* Status: the wanted generation in a transaction, the marker outside of it.*)

Ask ==
    /\ scenario.asks
    /\ scenario' = [scenario EXCEPT !.asks = FALSE]
    /\ question' = [question EXCEPT !.open = TRUE, !.wanted = wanted]
    /\ UNCHANGED <<wanted, objects, latest, build, site>>

\* (mutation: the comparison the wrong way round)
CompareReversed(marker, asked) ==
    IF marker = asked THEN "live" ELSE IF marker > asked THEN "pending" ELSE "behind"

Compare(marker, asked) ==
    IF marker = asked THEN "live" ELSE IF marker < asked THEN "pending" ELSE "behind"

\* A marker that cannot be read leaves the state unknown.
Answer ==
    /\ question.open
    /\ question' = [question EXCEPT !.open = FALSE, !.answer =
          IF site["marker"] = None THEN "unknown" ELSE Compare(site["marker"].generation, question.wanted)]
    /\ UNCHANGED <<scenario, wanted, objects, latest, build, site>>

Next ==
    \/ Publish \/ PutSnapshot \/ PutLatest \/ Damage \/ Ask \/ Answer
    \/ \E b \in Builds : \/ ReadFixture(b) \/ ReadLatest(b) \/ ReadSnapshot(b) \/ Compile(b) \/ WriteSite(b)
                         \/ Gate(b) \/ Dies(b) \/ Deploy(b)

Spec == Init /\ [][Next]_vars

-----------------------------------------------------------------------------
(* Properties.                                                              *)

\* A snapshot that loadSnapshot accepts builds: no later step throws on it and
\* no assertion of the gate fails, unless it has more redirects than the host
\* takes or dates a text beyond what the site can write down, which the schema
\* lets through (snapshot.mjs:31, indexes.ts:47, routes.ts:45,
\* stats/content.ts:35, check-public-build.mjs:95).
AcceptedSnapshotsBuild ==
    \A b \in Builds :
        /\ build[b].pc = "thrown" => \/ \E item \in build[b].data.content : item.last > LastLabel
                                     \/ TooManyRedirects(build[b].data)
        /\ build[b].pc # "refused"

\* What is deployed is one generation in all its parts, the one the CMS
\* exported under that number, whatever was published or damaged while the
\* build ran (snapshot.mjs:251, build-web.mjs:38).
SiteIsOneGeneration ==
    \A part \in Parts :
        /\ site[part] = site["pages"]
        /\ site[part] # None => site[part] = scenario.history[site[part].generation]

SearchableOnce(s) == \A p \in Outputs(s) : Searchable(s, p) => Canonical(s, p) = p

HangsTogether(s) ==
    LET out == Outputs(s) IN
    /\ \A r \in RedirectRules(s) :
          r.to \in out /\ r.from \notin out /\ \A q \in RedirectRules(s) : q.from = r.from => q = r
    /\ \A p \in out : \A a \in Alternates(s, p) :
          a \in out /\ Alternates(s, a) = Alternates(s, p) /\ ~Notice(s, a)
    /\ Sitemap(s) = {p \in out : Canonical(s, p) = p /\ ~Notice(s, p)}
    /\ SearchableOnce(s)
    /\ out \union {r.path : r \in Redirects(s)} = {m.path : m \in ManifestRows(s)}
    /\ \A m \in ManifestRows(s) : [path |-> m.target, target |-> m.target] \in ManifestRows(s)

\* A redirect ends at a page in one hop and hides none; a page names another
\* language only when that page names it back; the sitemap lists exactly the
\* pages that are their own canonical address, and the statistics count every
\* page and every old address under such a page (routes.ts:141, Layout.astro:87,
\* public-sitemap.mjs:31, stats-manifest.ts:13).
SiteHangsTogether ==
    \A b \in Builds : build[b].pc = "gate" => HangsTogether(build[b].dist["pages"])

\* The CMS never hears of a site ahead of what it asked for unless it published
\* while the question was open (service.go:116).
AheadOnlyWhenRaced == question.answer = "behind" => wanted > question.wanted
=============================================================================
