-------------------------- MODULE SiteBuildProofs ---------------------------
(***************************************************************************)
(* What is deployed is always one exported generation, and the CMS is      *)
(* never told of a site ahead of what it asked for but in a race: for any  *)
(* history of the site, any number of overlapping builds, and any damage.  *)
(***************************************************************************)
EXTENDS SiteBuild, SequenceTheorems, FiniteSetTheorems, TLAPS

\* A snapshot as the CMS exported it, of a generation its database has reached.
Exported(data) ==
    /\ data.generation \in Generations
    /\ data.generation <= wanted
    /\ data = scenario.history[data.generation]

\* What latest.json, or a copy of it, says: nothing, or a generation with its hash.
Names(pointer) ==
    \/ pointer = None
    \/ /\ pointer.generation \in Generations
       /\ pointer.generation <= wanted
       /\ pointer.sha = scenario.history[pointer.generation]

ScenarioInv ==
    /\ scenario = [history |-> scenario.history, fixture |-> scenario.fixture, damage |-> scenario.damage,
                   faults |-> scenario.faults, builds |-> scenario.builds, asks |-> scenario.asks]
    /\ 1 \in Generations
    /\ \A i \in Generations :
          i \in Nat /\ scenario.history[i].generation = i /\ WellFormed(scenario.history[i])

\* The CMS's side: what it has put and what it points at, it has reached.
CmsInv ==
    /\ wanted \in Nat
    /\ wanted > 0 => wanted \in Generations
    /\ \A g \in DOMAIN objects : g \in Generations /\ g <= wanted
    /\ Names(latest)

\* The stages of a build that has written its first part, its first two, ...
Wrote4 == {"gate", "built"}
Wrote3 == {"marker"} \union Wrote4
Wrote2 == {"manifest"} \union Wrote3
Wrote1 == {"redirects"} \union Wrote2

\* The stages in which it holds a snapshot.
Holding == {"compile", "pages"} \union Wrote1

Shaped(r) ==
    DOMAIN r = {"pc", "latest", "data", "dist"} /\ DOMAIN r.dist = Parts

\* A build holds what was exported and writes every part from it; one that ends
\* as "built", and so is deployed, was not of a fixture.
GoodBuild(r) ==
    /\ Shaped(r)
    /\ r.pc = "snapshot" => r.latest # None /\ Names(r.latest)
    /\ r.pc \in Holding /\ ~scenario.fixture => Exported(r.data)
    /\ r.pc \in Wrote1 => r.dist.pages = r.data
    /\ r.pc \in Wrote2 => r.dist.redirects = r.data
    /\ r.pc \in Wrote3 => r.dist.manifest = r.data
    /\ r.pc \in Wrote4 => r.dist.marker = r.data
    /\ r.pc = "built" => ~scenario.fixture

BuildsInv ==
    /\ build = [b \in Builds |-> build[b]]
    /\ \A b \in Builds : GoodBuild(build[b])

SiteInv ==
    /\ \A part \in Parts : site[part] = site["pages"]
    /\ site["pages"] = None \/ Exported(site["pages"])

QuestionInv ==
    /\ question = [open |-> question.open, wanted |-> question.wanted, answer |-> question.answer]
    /\ question.wanted \in Nat
    /\ scenario.asks => ~question.open /\ question.answer = "none"
    /\ AheadOnlyWhenRaced

\* The inductive invariant.
IInv == ScenarioInv /\ CmsInv /\ BuildsInv /\ SiteInv /\ QuestionInv

-----------------------------------------------------------------------------
(* Init.                                                                    *)

LEMMA InitIInv == Init => IInv
<1> SUFFICES ASSUME Init PROVE IInv
    OBVIOUS
<1> USE DEF Init
<1>1. ScenarioInv
    BY ScenariosAssumption DEF ScenarioInv, Generations
<1>2. CmsInv
    BY DEF CmsInv, Names
<1>3. BuildsInv
    <2>1. \A b \in Builds : build[b] = Idle
        OBVIOUS
    <2>2. GoodBuild(Idle)
        BY DEF GoodBuild, Shaped, Idle, Written, Parts, Holding, Wrote1, Wrote2, Wrote3, Wrote4
    <2> QED  BY <2>1, <2>2 DEF BuildsInv
<1>4. SiteInv
    BY DEF SiteInv, Written, Parts
<1>5. QuestionInv
    BY DEF QuestionInv, AheadOnlyWhenRaced
<1> QED  BY <1>1, <1>2, <1>3, <1>4, <1>5 DEF IInv

-----------------------------------------------------------------------------
(* The CMS moves on: what was exported stays exported.                      *)

\* Nothing that was exported, or pointed at, is lost while the history stays and
\* the generation does not go back.
LEMMA Keeps ==
    ASSUME IInv, scenario'.history = scenario.history, wanted' \in Nat, wanted <= wanted'
    PROVE  /\ \A data : Exported(data) => Exported(data)'
           /\ \A pointer : Names(pointer) => Names(pointer)'
<1> USE DEF IInv, ScenarioInv, CmsInv, Generations
<1>1. \A i \in Generations : i \in Nat
    OBVIOUS
<1>2. ASSUME NEW data, Exported(data) PROVE Exported(data)'
    BY <1>1, <1>2 DEF Exported
<1>3. ASSUME NEW pointer, Names(pointer) PROVE Names(pointer)'
    BY <1>1, <1>3 DEF Names
<1> QED  BY <1>2, <1>3

\* The conjuncts about builds, site and question survive a step that leaves those
\* variables alone.
LEMMA Rest ==
    ASSUME IInv, wanted' \in Nat, wanted <= wanted',
           scenario'.history = scenario.history, scenario'.fixture = scenario.fixture,
           scenario'.asks => scenario.asks
    PROVE  /\ \A r : GoodBuild(r) => GoodBuild(r)'
           /\ UNCHANGED build => BuildsInv'
           /\ UNCHANGED site => SiteInv'
           /\ UNCHANGED question => QuestionInv'
<1>1. /\ \A data : Exported(data) => Exported(data)'
      /\ \A pointer : Names(pointer) => Names(pointer)'
    BY Keeps
<1>2. ASSUME NEW r, GoodBuild(r) PROVE GoodBuild(r)'
    BY <1>1, <1>2 DEF GoodBuild, Shaped
<1>3. ASSUME UNCHANGED build PROVE BuildsInv'
    BY <1>2, <1>3 DEF IInv, BuildsInv
<1>4. ASSUME UNCHANGED site PROVE SiteInv'
    BY <1>1, <1>4 DEF IInv, SiteInv
<1>5. ASSUME UNCHANGED question PROVE QuestionInv'
    BY <1>5 DEF IInv, CmsInv, QuestionInv, AheadOnlyWhenRaced
<1> QED  BY <1>2, <1>3, <1>4, <1>5

-----------------------------------------------------------------------------
(* The CMS's steps.                                                         *)

LEMMA PublishKeeps == ASSUME IInv, Publish PROVE IInv'
<1> USE DEF Publish
<1>1. /\ wanted' \in Nat /\ wanted <= wanted' /\ UNCHANGED <<scenario, objects, latest, build, site, question>>
    BY DEF IInv, CmsInv
<1>2. ScenarioInv'
    BY <1>1 DEF IInv, ScenarioInv, Generations
<1>3. CmsInv'
    <2>1. Names(latest)'
        BY <1>1, Keeps DEF IInv, CmsInv
    <2>2. \A g \in DOMAIN objects' : (g \in Generations)' /\ g <= wanted'
        BY <1>1 DEF IInv, CmsInv, ScenarioInv, Generations
    <2> QED  BY <1>1, <2>1, <2>2 DEF CmsInv, Generations
<1> QED  BY <1>1, <1>2, <1>3, Rest DEF IInv

LEMMA PutSnapshotKeeps == ASSUME IInv, PutSnapshot PROVE IInv'
<1> USE DEF PutSnapshot
<1>1. UNCHANGED <<scenario, wanted, latest, build, site, question>> /\ wanted \in Nat
    BY DEF IInv, CmsInv
<1>2. wanted \in Generations
    BY DEF IInv, CmsInv
<1>3. DOMAIN objects' = DOMAIN objects \union {wanted}
    OBVIOUS
<1>4. CmsInv'
    BY <1>1, <1>2, <1>3 DEF IInv, CmsInv, Names, Generations
<1> QED  BY <1>1, <1>4, Rest DEF IInv, ScenarioInv, Generations

LEMMA PutLatestKeeps == ASSUME IInv, PutLatest PROVE IInv'
<1> USE DEF PutLatest
<1>1. UNCHANGED <<scenario, wanted, objects, build, site, question>> /\ wanted \in Nat
    BY DEF IInv, CmsInv
<1>2. PICK g \in DOMAIN objects : latest' = [generation |-> g, sha |-> scenario.history[g]]
    OBVIOUS
<1>3. CmsInv'
    BY <1>1, <1>2 DEF IInv, CmsInv, Names, Generations
<1> QED  BY <1>1, <1>3, Rest DEF IInv, ScenarioInv, Generations

LEMMA DamageKeeps == ASSUME IInv, Damage PROVE IInv'
<1> USE DEF Damage
<1>1. UNCHANGED <<wanted, latest, build, site, question>> /\ wanted \in Nat
    BY DEF IInv, CmsInv
<1>2. /\ scenario'.history = scenario.history /\ scenario'.fixture = scenario.fixture
      /\ scenario'.asks = scenario.asks /\ ScenarioInv'
    BY DEF IInv, ScenarioInv, Generations
<1>3. DOMAIN objects' = DOMAIN objects
    OBVIOUS
<1>4. CmsInv'
    BY <1>1, <1>2, <1>3 DEF IInv, CmsInv, Names, Generations
<1> QED  BY <1>1, <1>2, <1>4, Rest DEF IInv

LEMMA AskKeeps == ASSUME IInv, Ask PROVE IInv'
<1> USE DEF Ask
<1>1. UNCHANGED <<wanted, objects, latest, build, site>> /\ wanted \in Nat
    BY DEF IInv, CmsInv
<1>2. /\ scenario'.history = scenario.history /\ scenario'.fixture = scenario.fixture
      /\ ~scenario'.asks /\ ScenarioInv'
    BY DEF IInv, ScenarioInv, Generations
<1>3. CmsInv'
    BY <1>1, <1>2 DEF IInv, CmsInv, Names, Generations
<1>4. question' = [open |-> TRUE, wanted |-> wanted, answer |-> "none"]
    <2>1. question.answer = "none"
        BY DEF IInv, QuestionInv
    <2>2. question = [open |-> question.open, wanted |-> question.wanted, answer |-> question.answer]
        BY DEF IInv, QuestionInv
    <2> QED  BY <2>1, <2>2
<1>5. QuestionInv'
    <2> HIDE DEF Ask
    <2> DEFINE q == [open |-> TRUE, wanted |-> wanted, answer |-> "none"]
    <2>1. q.wanted \in Nat /\ q.answer # "behind" /\ q = [open |-> q.open, wanted |-> q.wanted, answer |-> q.answer]
        BY <1>1
    <2>2. question' = q
        BY <1>4
    <2> HIDE DEF q
    <2> QED  BY <1>2, <2>1, <2>2 DEF QuestionInv, AheadOnlyWhenRaced
<1> QED  BY <1>1, <1>2, <1>3, <1>5, Rest DEF IInv

LEMMA AnswerKeeps == ASSUME IInv, Answer PROVE IInv'
<1> USE DEF Answer
<1>1. UNCHANGED <<scenario, wanted, objects, latest, build, site>> /\ wanted \in Nat
    BY DEF IInv, CmsInv
<1>2. PICK answer : /\ question' = [open |-> FALSE, wanted |-> question.wanted, answer |-> answer]
                    /\ answer = IF site["marker"] = None THEN "unknown"
                                ELSE Compare(site["marker"].generation, question.wanted)
    BY DEF IInv, QuestionInv
<1>3. answer = "behind" => wanted > question.wanted
    <2>1. SUFFICES ASSUME answer = "behind" PROVE wanted > question.wanted
        OBVIOUS
    <2>2. site["marker"] # None /\ site["marker"] = site["pages"]
        BY <1>2, <2>1 DEF IInv, SiteInv, Parts
    <2>3. Exported(site["marker"])
        BY <2>2 DEF IInv, SiteInv
    <2>4. site["marker"].generation \in Nat /\ site["marker"].generation <= wanted
        BY <2>3 DEF IInv, ScenarioInv, Exported
    <2>5. site["marker"].generation > question.wanted
        BY <1>2, <2>1, <2>2, <2>4 DEF Compare, IInv, QuestionInv
    <2> QED  BY <1>1, <2>4, <2>5 DEF IInv, QuestionInv
<1>4. ~scenario.asks
    BY DEF IInv, QuestionInv
<1>5. QuestionInv'
    BY <1>1, <1>2, <1>3, <1>4 DEF IInv, QuestionInv, AheadOnlyWhenRaced
<1> QED  BY <1>1, <1>5, Rest DEF IInv, ScenarioInv, CmsInv, Generations, Names

-----------------------------------------------------------------------------
(* The steps of a build.                                                    *)

\* A build that becomes a good one leaves everything else as it was.
LEMMA BecomesKeeps ==
    ASSUME IInv, NEW b \in Builds, NEW r, Becomes(b, r), GoodBuild(r)
    PROVE  IInv'
<1>1. UNCHANGED <<scenario, wanted, objects, latest, site, question>> /\ wanted \in Nat
    BY DEF Becomes, IInv, CmsInv
<1>2. \A q : GoodBuild(q) => GoodBuild(q)'
    BY <1>1, Rest
<1>3. build' = [c \in Builds |-> IF c = b THEN r ELSE build[c]]
    BY DEF Becomes, IInv, BuildsInv
<1>4. BuildsInv'
    BY <1>2, <1>3 DEF IInv, BuildsInv
<1> QED  BY <1>1, <1>4, Rest DEF IInv, ScenarioInv, CmsInv, Generations, Names

LEMMA OldIsGood == ASSUME IInv, NEW b \in Builds PROVE GoodBuild(build[b])
BY DEF IInv, BuildsInv

LEMMA ReadFixtureKeeps == ASSUME IInv, NEW b \in Builds, ReadFixture(b) PROVE IInv'
<1> DEFINE r == IF SnapshotValid(scenario.history[1])
                THEN [build[b] EXCEPT !.pc = "compile", !.data = scenario.history[1]]
                ELSE [build[b] EXCEPT !.pc = "unread"]
<1>1. Becomes(b, r) /\ scenario.fixture
    BY DEF ReadFixture
<1>2. GoodBuild(r)
    BY <1>1, OldIsGood DEF GoodBuild, Shaped, Parts, Holding, Wrote1, Wrote2, Wrote3, Wrote4
<1> QED  BY <1>1, <1>2, BecomesKeeps

LEMMA ReadLatestKeeps == ASSUME IInv, NEW b \in Builds, ReadLatest(b) PROVE IInv'
<1> DEFINE r == [build[b] EXCEPT !.pc = "snapshot", !.latest = latest]
<1>1. Becomes(b, r) /\ latest.generation > 0
    BY DEF ReadLatest
<1>2. latest # None /\ Names(latest)
    BY <1>1 DEF IInv, CmsInv, None
<1>3. GoodBuild(r)
    BY <1>2, OldIsGood DEF GoodBuild, Shaped, Parts, Holding, Wrote1, Wrote2, Wrote3, Wrote4
<1> QED  BY <1>1, <1>3, BecomesKeeps

LEMMA ReadSnapshotKeeps == ASSUME IInv, NEW b \in Builds, ReadSnapshot(b) PROVE IInv'
<1> DEFINE old  == build[b]
           data == objects[old.latest.generation]
           r    == IF Accepted(old.latest, data) THEN [old EXCEPT !.pc = "compile", !.data = data]
                   ELSE [old EXCEPT !.pc = "unread"]
<1>1. Becomes(b, r) /\ old.pc = "snapshot"
    BY DEF ReadSnapshot
<1>2. GoodBuild(old)
    BY OldIsGood
<1>3. Accepted(old.latest, data) => Exported(data)
    <2>1. old.latest # None /\ Names(old.latest)
        BY <1>1, <1>2 DEF GoodBuild
    <2> QED  BY <2>1 DEF Accepted, Names, Exported
<1> HIDE DEF data
<1>4. GoodBuild(r)
    BY <1>1, <1>2, <1>3 DEF GoodBuild, Shaped, Parts, Holding, Wrote1, Wrote2, Wrote3, Wrote4
<1> QED  BY <1>1, <1>4, BecomesKeeps

\* A step that changes nothing but the stage, to one before the first part is
\* written or to one that holds nothing.
LEMMA StageKeeps ==
    ASSUME IInv, NEW b \in Builds, NEW pc, Becomes(b, [build[b] EXCEPT !.pc = pc]),
           \/ pc \in {"thrown", "checked", "refused"}
           \/ pc = "pages" /\ build[b].pc = "compile"
    PROVE  IInv'
<1>1. GoodBuild([build[b] EXCEPT !.pc = pc])
    BY OldIsGood DEF GoodBuild, Shaped, Parts, Holding, Wrote1, Wrote2, Wrote3, Wrote4
<1> QED  BY <1>1, BecomesKeeps

LEMMA CompileKeeps == ASSUME IInv, NEW b \in Builds, Compile(b) PROVE IInv'
<1>1. PICK pc \in {"thrown", "pages"} : Becomes(b, [build[b] EXCEPT !.pc = pc])
    BY Zenon DEF Compile
<1>2. build[b].pc = "compile"
    BY DEF Compile
<1> QED  BY <1>1, <1>2, StageKeeps

LEMMA GateKeeps == ASSUME IInv, NEW b \in Builds, Gate(b) PROVE IInv'
<1>1. PICK pc \in {"checked", "refused"} : Becomes(b, [build[b] EXCEPT !.pc = pc])
    BY Zenon DEF Gate
<1> QED  BY <1>1, StageKeeps

\* Every part is written from the snapshot the build holds.
LEMMA WriteKeeps == ASSUME IInv, NEW b \in Builds, WriteSite(b) PROVE IInv'
<1>1. GoodBuild(build[b])
    BY OldIsGood
<1> USE DEF GoodBuild, Shaped, Parts, Holding, Wrote1, Wrote2, Wrote3, Wrote4
<1>2. CASE Write(b, "pages", "redirects")
    <2> DEFINE r == [build[b] EXCEPT !.pc = "redirects", !.dist["pages"] = build[b].data]
    <2>1. Becomes(b, r) /\ build[b].pc = "pages"
        BY <1>2 DEF Write, MadeFrom
    <2>2. GoodBuild(r)
        BY <1>1, <2>1
    <2> QED  BY <2>1, <2>2, BecomesKeeps
<1>3. CASE Write(b, "redirects", "manifest")
    <2> DEFINE r == [build[b] EXCEPT !.pc = "manifest", !.dist["redirects"] = build[b].data]
    <2>1. Becomes(b, r) /\ build[b].pc = "redirects"
        BY <1>3 DEF Write, MadeFrom
    <2>2. GoodBuild(r)
        BY <1>1, <2>1
    <2> QED  BY <2>1, <2>2, BecomesKeeps
<1>4. CASE Write(b, "manifest", "marker")
    <2> DEFINE r == [build[b] EXCEPT !.pc = "marker", !.dist["manifest"] = build[b].data]
    <2>1. Becomes(b, r) /\ build[b].pc = "manifest"
        BY <1>4 DEF Write, MadeFrom
    <2>2. GoodBuild(r)
        BY <1>1, <2>1
    <2> QED  BY <2>1, <2>2, BecomesKeeps
<1>5. CASE Write(b, "marker", IF scenario.fixture THEN "gate" ELSE "built")
    <2> DEFINE pc == IF scenario.fixture THEN "gate" ELSE "built"
               r  == [build[b] EXCEPT !.pc = pc, !.dist["marker"] = build[b].data]
    <2>1. Becomes(b, r) /\ build[b].pc = "marker"
        BY <1>5 DEF Write, MadeFrom
    <2>2. pc \in {"gate", "built"} /\ (pc = "built" => ~scenario.fixture)
        OBVIOUS
    <2> HIDE DEF pc
    <2>3. GoodBuild(r)
        BY <1>1, <2>1, <2>2
    <2> QED  BY <2>1, <2>3, BecomesKeeps
<1> QED  BY <1>2, <1>3, <1>4, <1>5 DEF WriteSite

\* A build that is over holds nothing.
LEMMA OverIsGood == GoodBuild([Idle EXCEPT !.pc = "over"])
BY DEF GoodBuild, Shaped, Parts, Idle, Written, Holding, Wrote1, Wrote2, Wrote3, Wrote4

LEMMA DiesKeeps == ASSUME IInv, NEW b \in Builds, Dies(b) PROVE IInv'
<1> DEFINE over == [Idle EXCEPT !.pc = "over"]
<1>1. UNCHANGED <<wanted, objects, latest, site, question>> /\ wanted \in Nat
    BY DEF Dies, IInv, CmsInv
<1>2. /\ scenario'.history = scenario.history /\ scenario'.fixture = scenario.fixture
      /\ scenario'.asks = scenario.asks /\ ScenarioInv'
    BY DEF Dies, IInv, ScenarioInv, Generations
<1>3. build' = [c \in Builds |-> IF c = b THEN over ELSE build[c]]
    BY DEF Dies, IInv, BuildsInv
<1>4. BuildsInv'
    BY <1>1, <1>2, <1>3, OverIsGood, Rest DEF IInv, BuildsInv
<1>5. CmsInv'
    BY <1>1, <1>2 DEF IInv, CmsInv, Names, Generations
<1> QED  BY <1>1, <1>2, <1>4, <1>5, Rest DEF IInv

LEMMA DeployKeeps == ASSUME IInv, NEW b \in Builds, Deploy(b) PROVE IInv'
<1> DEFINE over == [Idle EXCEPT !.pc = "over"]
<1>1. UNCHANGED <<scenario, wanted, objects, latest, question>> /\ wanted \in Nat
    BY DEF Deploy, IInv, CmsInv
<1>2. build' = [c \in Builds |-> IF c = b THEN over ELSE build[c]]
    BY DEF Deploy, IInv, BuildsInv
<1>3. BuildsInv'
    BY <1>1, <1>2, OverIsGood, Rest DEF IInv, BuildsInv
<1>4. SiteInv'
    <2>1. GoodBuild(build[b]) /\ build[b].pc = "built" /\ site' = build[b].dist
        BY OldIsGood DEF Deploy
    <2>2. /\ Exported(build[b].data)
          /\ \A part \in Parts : site'[part] = build[b].data
        BY <2>1 DEF GoodBuild, Parts, Holding, Wrote1, Wrote2, Wrote3, Wrote4
    <2>3. Exported(site["pages"])'
        BY <1>1, <2>2 DEF Exported, Generations, Parts
    <2> QED  BY <2>2, <2>3 DEF SiteInv, Parts
<1> QED  BY <1>1, <1>3, <1>4, Rest DEF IInv, ScenarioInv, CmsInv, Generations, Names

-----------------------------------------------------------------------------
(* The theorems.                                                            *)

LEMMA Step == IInv /\ [Next]_vars => IInv'
<1> SUFFICES ASSUME IInv, [Next]_vars PROVE IInv'
    OBVIOUS
<1>1. CASE Publish BY <1>1, PublishKeeps
<1>2. CASE PutSnapshot BY <1>2, PutSnapshotKeeps
<1>3. CASE PutLatest BY <1>3, PutLatestKeeps
<1>4. CASE Damage BY <1>4, DamageKeeps
<1>5. CASE Ask BY <1>5, AskKeeps
<1>6. CASE Answer BY <1>6, AnswerKeeps
<1>7. ASSUME NEW b \in Builds,
             \/ ReadFixture(b) \/ ReadLatest(b) \/ ReadSnapshot(b) \/ Compile(b) \/ WriteSite(b)
             \/ Gate(b) \/ Dies(b) \/ Deploy(b)
      PROVE  IInv'
    BY <1>7, ReadFixtureKeeps, ReadLatestKeeps, ReadSnapshotKeeps, CompileKeeps, WriteKeeps,
       GateKeeps, DiesKeeps, DeployKeeps
<1>8. CASE UNCHANGED vars
    BY <1>8, Rest DEF vars, IInv, ScenarioInv, CmsInv, Generations, Names
<1> QED  BY <1>1, <1>2, <1>3, <1>4, <1>5, <1>6, <1>7, <1>8 DEF Next

\* The inductive invariant: everything that waits between two steps - the pointer a
\* build read, the snapshot it holds, the parts it wrote - is of one generation.
THEOREM Invariance == Spec => []IInv
<1>1. Init => IInv
    BY InitIInv
<1>2. IInv /\ [Next]_vars => IInv'
    BY Step
<1> QED  BY <1>1, <1>2, PTL DEF Spec

\* Whatever the CMS publishes meanwhile, whatever the bucket loses, however many
\* builds overlap: what is deployed is one exported generation in all its parts.
THEOREM DeployedIsOneGeneration == Spec => []SiteIsOneGeneration
<1>1. IInv => SiteIsOneGeneration
    BY DEF IInv, SiteInv, Exported, SiteIsOneGeneration, Parts
<1> QED  BY <1>1, Invariance, PTL

\* Status says "behind" only when the site advanced while the question was open.
THEOREM StatusIsHonest == Spec => []AheadOnlyWhenRaced
<1>1. IInv => AheadOnlyWhenRaced
    BY DEF IInv, QuestionInv
<1> QED  BY <1>1, Invariance, PTL

-----------------------------------------------------------------------------
(* Sorted lists.                                                            *)

\* The elements of S, each once.
Lists(q, S) ==
    /\ Cardinality(S) \in Nat /\ q \in [1..Cardinality(S) -> S]
    /\ \A x \in S : \E k \in 1..Cardinality(S) : q[k] = x
    /\ \A i, j \in 1..Cardinality(S) : q[i] = q[j] => i = j

\* below is a strict order in which any two are comparable.
Strict(S, below) ==
    /\ below \in [S -> SUBSET S]
    /\ \A x \in S : x \notin below[x]
    /\ \A x, y \in S : x \in below[y] => below[x] \subseteq below[y]
    /\ \A x, y \in S : x # y => x \in below[y] \/ y \in below[x]

\* Everything has a place, and its own.
LEMMA PlacesList ==
    ASSUME NEW S, IsFiniteSet(S), NEW below, Strict(S, below)
    PROVE  /\ Lists(Places(S, below), S)
           /\ \A i, j \in 1..Cardinality(S) : i < j => Places(S, below)[i] \in below[Places(S, below)[j]]
<1> DEFINE n == Cardinality(S)
           rank == [x \in S |-> Cardinality(below[x]) + 1]
           q == Places(S, below)
<1>1. n \in Nat
    BY FS_CardinalityType
<1>2. \A x \in S : IsFiniteSet(below[x]) /\ Cardinality(below[x]) \in Nat
    <2>1. \A x \in S : below[x] \in SUBSET S
        BY DEF Strict
    <2>2. \A T \in SUBSET S : IsFiniteSet(T)
        BY FS_Subset
    <2> QED  BY <2>1, <2>2, FS_CardinalityType
<1>3. ASSUME NEW x \in S PROVE rank[x] \in 1..n
    <2>1. below[x] \in SUBSET S /\ below[x] # S
        BY DEF Strict
    <2>2. Cardinality(below[x]) <= n /\ Cardinality(below[x]) # n
        BY <2>1, FS_Subset
    <2> QED  BY <1>1, <1>2, <2>2
<1>4. ASSUME NEW x \in S, NEW y \in S, x \in below[y] PROVE rank[x] < rank[y]
    <2>1. below[x] \in SUBSET below[y] /\ below[x] # below[y]
        BY <1>4 DEF Strict
    <2>2. Cardinality(below[x]) <= Cardinality(below[y]) /\ Cardinality(below[x]) # Cardinality(below[y])
        BY <1>2, <2>1, FS_Subset
    <2> QED  BY <1>2, <2>2
<1>5. \A x, y \in S : rank[x] = rank[y] => x = y
    <2>1. \A x \in S : rank[x] \in Nat
        BY <1>2
    <2> HIDE DEF rank
    <2> QED  BY <1>4, <2>1 DEF Strict
<1>6. \A k \in 1..n : \E x \in S : rank[x] = k
    <2>1. rank \in [S -> 1..n]
        BY <1>3
    <2>2. IsFiniteSet(1..n) /\ Cardinality(1..n) = n
        BY <1>1, FS_Interval
    <2> HIDE DEF rank
    <2>3. rank \in Injection(S, 1..n)
        BY <1>5, <2>1 DEF Injection, IsInjective
    <2>4. rank \in Surjection(S, 1..n)
        BY <2>2, <2>3, FS_Injection
    <2> QED  BY <2>4 DEF Surjection
<1>7. ASSUME NEW k \in 1..n PROVE q[k] \in S /\ rank[q[k]] = k
    <2>1. q[k] = CHOOSE x \in S : Cardinality(below[x]) = k - 1
        BY DEF Places
    <2>2. PICK x \in S : rank[x] = k
        BY <1>6
    <2>3. Cardinality(below[x]) = k - 1
        BY <1>1, <1>2, <2>2
    <2>4. q[k] \in S /\ Cardinality(below[q[k]]) = k - 1
        <3> HIDE DEF q
        <3> QED  BY <2>1, <2>3
    <2> QED  BY <1>1, <2>4
<1>8. q = [k \in 1..n |-> q[k]]
    BY DEF Places
<1> HIDE DEF q, rank
<1>9. Lists(q, S)
    <2>1. q \in [1..n -> S]
        BY <1>7, <1>8
    <2>2. \A x \in S : q[rank[x]] = x
        BY <1>3, <1>5, <1>7
    <2> QED  BY <1>1, <1>3, <1>7, <2>1, <2>2 DEF Lists
<1>10. ASSUME NEW i \in 1..n, NEW j \in 1..n, i < j PROVE q[i] \in below[q[j]]
    <2>1. q[i] # q[j]
        BY <1>7, <1>10
    <2>2. ~(q[j] \in below[q[i]])
        BY <1>1, <1>4, <1>7, <1>10
    <2> QED  BY <1>7, <2>1, <2>2 DEF Strict
<1> QED  BY <1>9, <1>10 DEF q

\* What is listed, and how many.
LEMMA ListsAll ==
    ASSUME NEW S, NEW q, Lists(q, S)
    PROVE  /\ DOMAIN q = 1..Cardinality(S) /\ Cardinality(S) \in Nat
           /\ q \in Seq(S) /\ Len(q) = Cardinality(S) /\ Range(q) = S
           /\ q = <<>> <=> S = {}
<1>1. q \in [1..Cardinality(S) -> S] /\ Cardinality(S) \in Nat
    BY DEF Lists
<1>2. q \in Seq(S) /\ Len(q) = Cardinality(S)
    BY <1>1
<1>3. Range(q) = S
    BY <1>1 DEF Lists, Range
<1>4. q = <<>> <=> S = {}
    BY <1>1, <1>2, <1>3 DEF Range, Lists
<1> QED  BY <1>1, <1>2, <1>3, <1>4

\* Texts that can be sorted: they are told apart by their identities.
Texts(C) ==
    /\ IsFiniteSet(C) /\ \A item \in C : ItemPattern(item)
    /\ \A i, j \in C : i.id = j.id => i = j

LEMMA RecentLists ==
    ASSUME NEW C, Texts(C)
    PROVE  LET q == Sorted(C, Recent) IN
           Lists(q, C) /\ \A i, j \in 1..Cardinality(C) : i < j => q[i].last >= q[j].last
<1> DEFINE below == [x \in C |-> {y \in C : Recent(y, x)}]
<1>1. \A x \in C : x.id \in Nat /\ x.last \in Nat
    BY DEF Texts, ItemPattern
<1>2. Strict(C, below)
    <2>1. \A x, y \in C : y \in below[x] <=> Recent(y, x)
        OBVIOUS
    <2>2. below \in [C -> SUBSET C]
        OBVIOUS
    <2> HIDE DEF below
    <2>3. \A x \in C : x \notin below[x]
        BY <1>1, <2>1 DEF Recent
    <2>4. \A x, y \in C : x \in below[y] => below[x] \subseteq below[y]
        <3> SUFFICES ASSUME NEW x \in C, NEW y \in C, NEW z \in C, Recent(z, x), Recent(x, y)
                     PROVE  Recent(z, y)
            BY <2>1, <2>2
        <3> QED  BY <1>1 DEF Recent
    <2>5. \A x, y \in C : x # y => x \in below[y] \/ y \in below[x]
        BY <1>1, <2>1 DEF Recent, Texts
    <2> QED  BY <2>2, <2>3, <2>4, <2>5 DEF Strict
<1>3. Sorted(C, Recent) = Places(C, below)
    BY DEF Sorted
<1>4. \A x, y \in C : x \in below[y] => x.last >= y.last
    BY <1>1 DEF Recent
<1> HIDE DEF below
<1>5. /\ Lists(Places(C, below), C)
      /\ \A i, j \in 1..Cardinality(C) : i < j => Places(C, below)[i] \in below[Places(C, below)[j]]
    BY <1>2, PlacesList DEF Texts
<1> QED  BY <1>3, <1>4, <1>5 DEF Lists

LEMMA FeaturedLists ==
    ASSUME NEW C, Texts(C)
    PROVE  Lists(Sorted(C, FeaturedRecent), C)
<1> DEFINE below == [x \in C |-> {y \in C : FeaturedRecent(y, x)}]
<1>1. \A x \in C : x.id \in Nat /\ x.last \in Nat /\ x.featured \in BOOLEAN
    BY DEF Texts, ItemPattern
<1>2. Strict(C, below)
    <2>1. \A x, y \in C : y \in below[x] <=> FeaturedRecent(y, x)
        OBVIOUS
    <2>2. below \in [C -> SUBSET C]
        OBVIOUS
    <2> HIDE DEF below
    <2>3. \A x \in C : x \notin below[x]
        BY <1>1, <2>1 DEF FeaturedRecent, Recent
    <2>4. \A x, y \in C : x \in below[y] => below[x] \subseteq below[y]
        <3> SUFFICES ASSUME NEW x \in C, NEW y \in C, NEW z \in C, FeaturedRecent(z, x), FeaturedRecent(x, y)
                     PROVE  FeaturedRecent(z, y)
            BY <2>1, <2>2
        <3> QED  BY <1>1 DEF FeaturedRecent, Recent
    <2>5. \A x, y \in C : x # y => x \in below[y] \/ y \in below[x]
        BY <1>1, <2>1 DEF FeaturedRecent, Recent, Texts
    <2> QED  BY <2>2, <2>3, <2>4, <2>5 DEF Strict
<1>3. Sorted(C, FeaturedRecent) = Places(C, below)
    BY DEF Sorted
<1> HIDE DEF below
<1> QED  BY <1>2, <1>3, PlacesList DEF Texts

\* The reading order is one among texts of a type.
LEMMA ReadingLists ==
    ASSUME NEW C, Texts(C), \A i, j \in C : i.type = j.type
    PROVE  Lists(Sorted(C, Reading), C)
<1> DEFINE below == [x \in C |-> {y \in C : Reading(y, x)}]
<1>1. \A x \in C : /\ x.id \in Nat /\ x.last \in Nat /\ x.featured \in BOOLEAN
                    /\ x.order \in Nat /\ x.title \in Nat
    BY DEF Texts, ItemPattern
<1>2. Strict(C, below)
    <2>1. \A x, y \in C : y \in below[x] <=> Reading(y, x)
        OBVIOUS
    <2>2. below \in [C -> SUBSET C]
        OBVIOUS
    <2> HIDE DEF below
    <2>3. \A x \in C : x \notin below[x]
        BY <1>1, <2>1 DEF Reading, FeaturedRecent, Recent
    <2>4. \A x, y \in C : x \in below[y] => below[x] \subseteq below[y]
        <3> SUFFICES ASSUME NEW x \in C, NEW y \in C, NEW z \in C, Reading(z, x), Reading(x, y)
                     PROVE  Reading(z, y)
            BY <2>1, <2>2
        <3> QED  BY <1>1 DEF Reading, FeaturedRecent, Recent
    <2>5. \A x, y \in C : x # y => x \in below[y] \/ y \in below[x]
        BY <1>1, <2>1 DEF Reading, FeaturedRecent, Recent, Texts
    <2> QED  BY <2>2, <2>3, <2>4, <2>5 DEF Strict
<1>3. Sorted(C, Reading) = Places(C, below)
    BY DEF Sorted
<1> HIDE DEF below
<1> QED  BY <1>2, <1>3, PlacesList DEF Texts

\* The entries of a topic, of which no two have one position.
LEMMA EntriesList ==
    ASSUME NEW s, NEW t, IsFiniteSet(t.entries),
           \A e \in t.entries : e.position \in Nat,
           \A e, f \in t.entries : e.position = f.position => e = f
    PROVE  /\ Cardinality(t.entries) \in Nat
           /\ Len(Entries(s, t)) = Cardinality(t.entries)
           /\ Range(Entries(s, t)) = {e.target : e \in t.entries}
<1> DEFINE C == t.entries
           below == [x \in C |-> {y \in C : y.position < x.position}]
           q == Sorted(t.entries, LAMBDA e, f : e.position < f.position)
<1>1. q = Places(C, below)
    BY DEF Sorted
<1>2. Strict(C, below)
    <2>1. \A x, y \in C : y \in below[x] <=> y.position < x.position
        OBVIOUS
    <2>2. below \in [C -> SUBSET C]
        OBVIOUS
    <2> HIDE DEF below
    <2> QED  BY <2>1, <2>2 DEF Strict
<1>3. Entries(s, t) = [i \in DOMAIN q |-> q[i].target]
    BY DEF Entries
<1> HIDE DEF below, q
<1>4. Lists(q, C)
    BY <1>1, <1>2, PlacesList
<1>5. DOMAIN q = 1..Cardinality(C) /\ Cardinality(C) \in Nat
    BY <1>4, ListsAll
<1>6. Len(Entries(s, t)) = Cardinality(C)
    BY <1>3, <1>5
<1>7. Range(Entries(s, t)) = {e.target : e \in C}
    BY <1>3, <1>4, <1>5 DEF Lists, Range
<1> QED  BY <1>5, <1>6, <1>7

-----------------------------------------------------------------------------
(* A snapshot that is accepted makes a publication.                         *)

\* What validateSnapshot takes.
Good(s) == WellFormed(s) /\ SnapshotValid(s)

\* As many identities as rows: no two rows have one.
LEMMA IdsUnique ==
    ASSUME NEW rows, IsFiniteSet(rows)
    PROVE  UniqueIds(rows) <=> \A x, y \in rows : x.id = y.id => x = y
<1> DEFINE f == [x \in rows |-> x.id]
<1>1. f \in Surjection(rows, Ids(rows))
    BY DEF Surjection, Ids
<1>2. \A x \in rows : f[x] = x.id
    OBVIOUS
<1> HIDE DEF f
<1>3. Cardinality(Ids(rows)) = Cardinality(rows) <=> f \in Injection(rows, Ids(rows))
    BY <1>1, FS_Surjection
<1>4. f \in Injection(rows, Ids(rows)) <=> \A x, y \in rows : f[x] = f[y] => x = y
    BY <1>1 DEF Injection, IsInjective, Surjection
<1> QED  BY <1>2, <1>3, <1>4 DEF UniqueIds

LEMMA SlugsUnique ==
    ASSUME NEW rows, IsFiniteSet(rows)
    PROVE  UniqueSlugs(rows) <=> \A x, y \in rows : x.slug = y.slug => x = y
<1> DEFINE f == [x \in rows |-> x.slug]
<1>1. f \in Surjection(rows, Slugs(rows))
    BY DEF Surjection, Slugs
<1>2. \A x \in rows : f[x] = x.slug
    OBVIOUS
<1> HIDE DEF f
<1>3. Cardinality(Slugs(rows)) = Cardinality(rows) <=> f \in Injection(rows, Slugs(rows))
    BY <1>1, FS_Surjection
<1>4. f \in Injection(rows, Slugs(rows)) <=> \A x, y \in rows : f[x] = f[y] => x = y
    BY <1>1 DEF Injection, IsInjective, Surjection
<1> QED  BY <1>2, <1>3, <1>4 DEF UniqueSlugs

\* The tables are finite, and keyed by what they should be.
LEMMA TablesKeyed ==
    ASSUME NEW s, Good(s)
    PROVE  /\ Texts(s.content) /\ Cardinality(s.content) \in Nat /\ Cardinality(s.content) <= MaxItems
           /\ \A i \in s.content : ItemValid(s, i) /\ EntriesValid(s, i) /\ ItemPattern(i)
           /\ \A a, b \in s.authors : (a.id = b.id \/ a.slug = b.slug) => a = b
           /\ \A a, b \in s.tags : (a.id = b.id \/ a.slug = b.slug) => a = b
           /\ \A r \in s.routes : RoutePattern(r.path) /\ r.content \in Ids(s.content)
           /\ \A r, q \in s.routes : r.path = q.path => r = q
<1>1. /\ IsFiniteSet(s.content) /\ IsFiniteSet(s.authors) /\ IsFiniteSet(s.tags)
      /\ Cardinality(s.content) <= MaxItems
      /\ \A i \in s.content : ItemPattern(i)
      /\ \A r \in s.routes : RoutePattern(r.path)
    BY DEF Good, WellFormed
<1>2. /\ UniqueIds(s.content) /\ UniqueIds(s.authors) /\ UniqueSlugs(s.authors) /\ UniqueIds(s.tags) /\ UniqueSlugs(s.tags)
      /\ \A i \in s.content : ItemValid(s, i) /\ EntriesValid(s, i)
      /\ RoutesValid(s)
    BY DEF Good, SnapshotValid
<1>3. \A i, j \in s.content : i.id = j.id => i = j
    BY <1>1, <1>2, IdsUnique
<1>4. Cardinality(s.content) \in Nat
    BY <1>1, FS_CardinalityType
<1>5. \A a, b \in s.authors : (a.id = b.id \/ a.slug = b.slug) => a = b
    BY <1>1, <1>2, IdsUnique, SlugsUnique
<1>6. \A a, b \in s.tags : (a.id = b.id \/ a.slug = b.slug) => a = b
    BY <1>1, <1>2, IdsUnique, SlugsUnique
<1>7. Texts(s.content)
    BY <1>1, <1>3 DEF Texts
<1> QED  BY <1>1, <1>2, <1>4, <1>5, <1>6, <1>7 DEF RoutesValid

\* Some of the texts can be sorted, too, and are no more than all.
LEMMA SomeTexts ==
    ASSUME NEW s, Good(s), NEW C \in SUBSET s.content
    PROVE  Texts(C) /\ Cardinality(C) \in Nat /\ Cardinality(C) <= MaxItems
<1>1. Texts(s.content) /\ Cardinality(s.content) <= MaxItems /\ Cardinality(s.content) \in Nat
    BY TablesKeyed
<1>2. IsFiniteSet(C) /\ Cardinality(C) <= Cardinality(s.content)
    BY <1>1, FS_Subset DEF Texts
<1>3. Cardinality(C) \in Nat
    BY <1>2, FS_CardinalityType
<1> QED  BY <1>1, <1>2, <1>3, SiteAssumption DEF Texts

\* Groups are keyed by their slug, whatever the version, and each has a note.
LEMMA GroupsKeyed ==
    ASSUME NEW s, Good(s)
    PROVE  /\ IsFiniteSet(GroupTable(s)) /\ UniqueSlugs(GroupTable(s))
           /\ \A g, h \in GroupTable(s) : g.slug = h.slug => g = h
           /\ Slugs(GroupTable(s)) = {n.group.slug : n \in Notes(s)}
           /\ s.version = 1 => \A n, k \in Notes(s) : n.group.slug = k.group.slug => n.group = k.group
<1>1. GroupsValid(s) /\ GroupSlugs(s) = {n.group.slug : n \in Notes(s)}
    BY DEF Good, SnapshotValid, NothingUnused
<1>2. IsFiniteSet(s.groups) /\ IsFiniteSet(Notes(s))
    <2>1. IsFiniteSet(s.groups) /\ IsFiniteSet(s.content)
        BY DEF Good, WellFormed
    <2>2. Notes(s) \in SUBSET s.content
        BY DEF Notes
    <2> QED  BY <2>1, <2>2, FS_Subset
<1>3. s.version = 1 => \A n, k \in Notes(s) : n.group.slug = k.group.slug => n.group = k.group
    BY <1>1 DEF GroupsValid
<1>4. IsFiniteSet(GroupTable(s))
    <2> DEFINE T1 == {n.group : n \in Notes(s)}
               T2 == {[slug |-> g.slug, order |-> g.order] : g \in s.groups}
               f1 == [n \in Notes(s) |-> n.group]
               f2 == [g \in s.groups |-> [slug |-> g.slug, order |-> g.order]]
    <2>1. IsFiniteSet(T1)
        <3>1. f1 \in Surjection(Notes(s), T1)
            BY DEF Surjection
        <3> HIDE DEF f1, T1
        <3> QED  BY <1>2, <3>1, FS_Surjection
    <2>2. IsFiniteSet(T2)
        <3>1. f2 \in Surjection(s.groups, T2)
            BY DEF Surjection
        <3> HIDE DEF f2, T2
        <3> QED  BY <1>2, <3>1, FS_Surjection
    <2> QED  BY <2>1, <2>2 DEF GroupTable
<1>5. \A g, h \in GroupTable(s) : g.slug = h.slug => g = h
    <2>1. CASE s.version = 1
        BY <1>3, <2>1 DEF GroupTable
    <2>2. CASE s.version # 1
        <3>1. \A g, h \in s.groups : g.slug = h.slug => g = h
            BY <1>1, <1>2, <2>2, SlugsUnique DEF GroupsValid
        <3> QED  BY <2>2, <3>1 DEF GroupTable
    <2> QED  BY <2>1, <2>2
<1>6. Slugs(GroupTable(s)) = GroupSlugs(s)
    <2>1. CASE s.version = 1
        BY <2>1 DEF GroupTable, GroupSlugs, Slugs
    <2>2. CASE s.version # 1
        <3>1. \A x : x \in Slugs(GroupTable(s)) <=> \E g \in s.groups : x = g.slug
            <4>1. \A row : row \in GroupTable(s) <=> \E g \in s.groups : row = [slug |-> g.slug, order |-> g.order]
                BY <2>2 DEF GroupTable
            <4>2. ASSUME NEW g \in s.groups PROVE \E row \in GroupTable(s) : row.slug = g.slug
                <5>1. [slug |-> g.slug, order |-> g.order] \in GroupTable(s)
                    BY <4>1
                <5> QED  BY <5>1
            <4>3. ASSUME NEW row \in GroupTable(s) PROVE \E g \in s.groups : row.slug = g.slug
                BY <4>1
            <4> QED  BY <4>2, <4>3 DEF Slugs
        <3>2. \A x : x \in GroupSlugs(s) <=> \E g \in s.groups : x = g.slug
            BY <2>2 DEF GroupSlugs, Slugs
        <3> QED  BY <3>1, <3>2
    <2> QED  BY <2>1, <2>2
<1> QED  BY <1>1, <1>3, <1>4, <1>5, <1>6, SlugsUnique

\* The one canonical address of a text.
LEMMA CanonicalOf ==
    ASSUME NEW s, Good(s), NEW item \in s.content
    PROVE  /\ Canonicals(s, item.id) # {} /\ item.path = PathOf(item)
           /\ \A r \in Canonicals(s, item.id) : r \in s.routes /\ r.path = item.path
           /\ ~(Cardinality(Canonicals(s, item.id)) > 1)
<1>1. item.path = PathOf(item) /\ {r.path : r \in Canonicals(s, item.id)} = {item.path}
    BY TablesKeyed DEF ItemValid
<1>2. IsFiniteSet(Canonicals(s, item.id)) /\ Canonicals(s, item.id) \subseteq s.routes
    <2>1. IsFiniteSet(s.routes)
        BY DEF Good, WellFormed
    <2>2. Canonicals(s, item.id) \in SUBSET s.routes
        BY DEF Canonicals
    <2> QED  BY <2>1, <2>2, FS_Subset
<1>3. Cardinality(Canonicals(s, item.id)) <= 1
    BY DEF Good, SnapshotValid, RoutesValid
<1>4. Cardinality(Canonicals(s, item.id)) \in Nat
    BY <1>2, FS_CardinalityType
<1> QED  BY <1>1, <1>2, <1>3, <1>4

\* createPublication throws on no snapshot that was accepted.
LEMMA AcceptedPublishes == ASSUME NEW s, Good(s) PROVE ~PublicationThrows(s)
<1>1. ~\E n, k \in Notes(s) : s.version = 1 /\ n.group.slug = k.group.slug /\ n.group # k.group
    BY GroupsKeyed
<1>2. /\ ~\E rows \in {s.content, s.authors, s.assets, s.tags} : ~UniqueIds(rows)
      /\ UniqueSlugs(s.authors) /\ UniqueSlugs(s.tags)
    BY DEF Good, SnapshotValid
<1>3. UniqueSlugs(GroupTable(s))
    BY GroupsKeyed
<1>4. ASSUME NEW r \in s.routes
      PROVE  /\ ItemsOf(s, {r.content}) # {}
             /\ \A q \in s.routes : r # q => r.path # q.path
             /\ r.kind = "canonical" => /\ ~(Cardinality(Canonicals(s, r.content)) > 1)
                                        /\ \A item \in ItemsOf(s, {r.content}) : r.path = item.path
    <2>1. PICK item \in s.content : item.id = r.content
        BY TablesKeyed DEF Ids
    <2>2. \A j \in ItemsOf(s, {r.content}) : j \in s.content /\ j.id = r.content
        BY DEF ItemsOf
    <2>3. ItemsOf(s, {r.content}) # {}
        BY <2>1 DEF ItemsOf
    <2>4. ~(Cardinality(Canonicals(s, r.content)) > 1)
        BY <2>1, CanonicalOf
    <2>5. ASSUME r.kind = "canonical", NEW j \in ItemsOf(s, {r.content}) PROVE r.path = j.path
        <3>1. r \in Canonicals(s, j.id)
            BY <2>2, <2>5 DEF Canonicals
        <3> QED  BY <2>2, <3>1, CanonicalOf, ZenonT(60)
    <2> QED  BY <2>3, <2>4, <2>5, TablesKeyed
<1>5. ASSUME NEW item \in s.content
      PROVE  /\ item.author \in Ids(s.authors) /\ Canonicals(s, item.id) # {}
             /\ item.cover # 0 => item.cover \in Ids(s.assets)
             /\ item.tags \subseteq Ids(s.tags)
             /\ item.type = "note" => item.group.slug \in Slugs(GroupTable(s))
    <2>1. ItemValid(s, item)
        BY TablesKeyed
    <2>2. item.type = "note" => item.group.slug \in {n.group.slug : n \in Notes(s)}
        BY DEF Notes
    <2> QED  BY <2>1, <2>2, CanonicalOf, GroupsKeyed DEF ItemValid
<1>6. ASSUME NEW g \in GroupTable(s) PROVE NotesOf(s, g.slug) # {}
    <2>1. g.slug \in {n.group.slug : n \in Notes(s)}
        BY GroupsKeyed DEF Slugs
    <2> QED  BY <2>1 DEF NotesOf
<1>7. ASSUME NEW t \in s.content, t.type = "topic"
      PROVE  /\ ~(t.recommended > Cardinality(t.entries))
             /\ \A e \in t.entries :
                   /\ e.target # t.id
                   /\ \A f \in t.entries : ~(e # f /\ (e.position = f.position \/ e.target = f.target))
                   /\ \E a \in ItemsOf(s, {e.target}) : a.type = "curated_article"
    <2>1. ItemValid(s, t) /\ EntriesValid(s, t) /\ ItemPattern(t)
        BY TablesKeyed
    <2>2. Cardinality(t.entries) \in Nat /\ t.recommended \in Nat
        BY <2>1, FS_CardinalityType DEF ItemPattern
    <2>3. ~(t.recommended > Cardinality(t.entries))
        BY <1>7, <2>1, <2>2 DEF ItemValid
    <2>4. \A e \in t.entries : \E a \in ItemsOf(s, {e.target}) : a.type = "curated_article"
        BY <2>1 DEF EntriesValid, ItemsOf
    <2> QED  BY <2>1, <2>3, <2>4 DEF EntriesValid
<1> QED  BY <1>1, <1>2, <1>3, <1>4, <1>5, <1>6, <1>7 DEF PublicationThrows

-----------------------------------------------------------------------------
(* Whatever a snapshot holds: once it is accepted and nothing throws on it, *)
(* the addresses of the site made of it hang together.                      *)

\* What the build knows of a snapshot when it writes the first page.
Compiled(s) ==
    WellFormed(s) /\ SnapshotValid(s) /\ ~PublicationThrows(s) /\ ~PagesThrow(s)

-----------------------------------------------------------------------------
(* Addresses and their language.                                            *)

\* An address that says no language.
Plain(p) == (\E S : p \in Seq(S)) /\ (p = <<>> \/ Head(p) # "en")

\* Such an address is the Chinese one; the English one is another, and leads back.
LEMMA Locales ==
    ASSUME NEW p, Plain(p)
    PROVE  /\ Localized(p, "zh") = p
           /\ ~InEnglish(p) /\ WithoutLocale(p) = p
           /\ InEnglish(Localized(p, "en")) /\ WithoutLocale(Localized(p, "en")) = p
<1>1. PICK S : p \in Seq(S)
    BY DEF Plain
<1>2. p \in Seq(S \union {"en"}) /\ <<"en">> \in Seq(S \union {"en"})
    BY <1>1
<1> DEFINE q == <<"en">> \o p
<1>3. q \in Seq(S \union {"en"}) /\ q # <<>> /\ Head(q) = "en"
    BY <1>2
<1>4. Tail(q) = p
    BY <1>2
<1>5. Localized(p, "zh") = p /\ Localized(p, "en") = q
    BY DEF Localized
<1>6. ~InEnglish(p)
    BY DEF Plain, InEnglish
<1> HIDE DEF q
<1> QED  BY <1>3, <1>4, <1>5, <1>6 DEF InEnglish, WithoutLocale

\* So two of them are the same address only in the same language.
LEMMA LocalesDiffer ==
    ASSUME NEW p, Plain(p), NEW q, Plain(q)
    PROVE  /\ Localized(p, "en") # Localized(q, "zh")
           /\ Localized(p, "en") = Localized(q, "en") => p = q
BY Locales

LEMMA TuplesPlain ==
    ASSUME NEW a, a # "en", NEW b, NEW c, NEW d
    PROVE  Plain(<<a>>) /\ Plain(<<a, b>>) /\ Plain(<<a, b, c>>) /\ Plain(<<a, b, c, d>>)
<1> DEFINE S == {a, b, c, d}
<1>1. <<a>> \in Seq(S) /\ <<a, b>> \in Seq(S) /\ <<a, b, c>> \in Seq(S) /\ <<a, b, c, d>> \in Seq(S)
    OBVIOUS
<1>2. /\ <<a>> # <<>> /\ <<a, b>> # <<>> /\ <<a, b, c>> # <<>> /\ <<a, b, c, d>> # <<>>
      /\ Head(<<a>>) = a /\ Head(<<a, b>>) = a /\ Head(<<a, b, c>>) = a /\ Head(<<a, b, c, d>>) = a
    OBVIOUS
<1> QED  BY <1>1, <1>2 DEF Plain

\* What is below such an address is one, too.
LEMMA BelowPlain ==
    ASSUME NEW p, Plain(p), p # <<>>, NEW T, NEW q \in Seq(T)
    PROVE  Plain(p \o q)
<1>1. PICK S : p \in Seq(S)
    BY DEF Plain
<1>2. p \in Seq(S \union T) /\ q \in Seq(S \union T)
    BY <1>1
<1>3. p \o q \in Seq(S \union T) /\ p \o q # <<>> /\ Head(p \o q) = Head(p)
    BY <1>2
<1> QED  BY <1>3 DEF Plain

LEMMA ChromePlain == \A p \in ChromePaths \union Directories : Plain(p)
<1>1. Plain(<<>>)
    <2>1. <<>> \in Seq({})
        OBVIOUS
    <2> QED  BY <2>1 DEF Plain
<1>2. \A p \in ChromePaths \union Directories : p = <<>> \/ \E a : a # "en" /\ p = <<a>>
    BY DEF ChromePaths, Directories
<1>3. \A a : a # "en" => Plain(<<a>>)
    BY TuplesPlain
<1> QED  BY <1>1, <1>2, <1>3

-----------------------------------------------------------------------------
(* The pages of an accepted snapshot are in nobody's way.                   *)

\* The pages of a list: where the i-th is, and how many there are.
At(path, i)    == IF i = 1 THEN path ELSE path \o <<"page", PageNames[i]>>
PagesOf(items) == IF items = <<>> THEN 1 ELSE (Len(items) + PageSize - 1) \div PageSize
PageAt(path, items, i) ==
    [path |-> At(path, i), kind |-> "collection",
     items |-> {items[j] : j \in {j \in DOMAIN items : (j - 1) \div PageSize = i - 1}},
     near |-> {At(path, j) : j \in {i - 1, i + 1} \intersect 1..PagesOf(items)}]

LEMMA PagedAre ==
    ASSUME NEW path, NEW items, NEW page
    PROVE  page \in Paged(path, items) <=> \E i \in 1..PagesOf(items) : page = PageAt(path, items, i)
<1>1. Paged(path, items) = {PageAt(path, items, i) : i \in 1..PagesOf(items)}
    BY Zenon DEF Paged, PageAt, PagesOf, At
<1> HIDE DEF PageAt
<1> QED  BY <1>1

\* The lists: what is listed below which address.
ListAt(s, path, items) ==
    \/ path = <<"posts">> /\ items = OfType(s, "post")
    \/ \E g \in GroupTable(s) : path = <<"notes", g.slug>> /\ items = Sorted(NotesOf(s, g.slug), Reading)
    \/ \E a \in s.authors :
          path = <<"authors", a.slug>> /\ items = Sorted({i \in s.content : i.author = a.id}, FeaturedRecent)
    \/ \E t \in s.tags :
          path = <<"tags", t.slug>> /\ items = Sorted({i \in s.content : t.id \in i.tags}, FeaturedRecent)

DetailPage(item)  == [path |-> item.path, kind |-> "detail", items |-> {item}, near |-> {}]
TypePage(s, type) == [path |-> <<Prefix[type]>>, kind |-> "collection", items |-> Range(OfType(s, type)), near |-> {}]

OfText(s, page) == \E item \in s.content : page = DetailPage(item)
OfType1(s, page) == \E type \in {"curated_article", "topic"} : page = TypePage(s, type)
OfList(s, page) == \E path, items : ListAt(s, path, items) /\ \E i \in 1..PagesOf(items) : page = PageAt(path, items, i)

LEMMA PagesAre ==
    ASSUME NEW s, NEW page
    PROVE  /\ page \in Collections(s) <=> OfType1(s, page) \/ OfList(s, page)
           /\ page \in PublicPages(s) <=> OfText(s, page) \/ OfType1(s, page) \/ OfList(s, page)
<1> DEFINE OfGroup(g)  == Paged(<<"notes", g.slug>>, Sorted(NotesOf(s, g.slug), Reading))
           OfAuthor(a) == Paged(<<"authors", a.slug>>, Sorted({i \in s.content : i.author = a.id}, FeaturedRecent))
           OfTag(t)    == Paged(<<"tags", t.slug>>, Sorted({i \in s.content : t.id \in i.tags}, FeaturedRecent))
           OnPage(path, items) == \E i \in 1..PagesOf(items) : page = PageAt(path, items, i)
<1>1. page \in Collections(s) <=>
          \/ page \in {TypePage(s, type) : type \in {"curated_article", "topic"}}
          \/ page \in Paged(<<"posts">>, OfType(s, "post"))
          \/ page \in UNION {OfGroup(g) : g \in GroupTable(s)}
          \/ page \in UNION {OfAuthor(a) : a \in s.authors}
          \/ page \in UNION {OfTag(t) : t \in s.tags}
    BY Zenon DEF Collections, TypePage
<1>2. page \in {TypePage(s, type) : type \in {"curated_article", "topic"}} <=> OfType1(s, page)
    BY DEF OfType1
<1>3. page \in Paged(<<"posts">>, OfType(s, "post")) <=> OnPage(<<"posts">>, OfType(s, "post"))
    BY PagedAre
<1>4. \A g : page \in OfGroup(g) <=> OnPage(<<"notes", g.slug>>, Sorted(NotesOf(s, g.slug), Reading))
    BY PagedAre
<1>5. \A a : page \in OfAuthor(a) <=>
                OnPage(<<"authors", a.slug>>, Sorted({i \in s.content : i.author = a.id}, FeaturedRecent))
    BY PagedAre
<1>6. \A t : page \in OfTag(t) <=>
                OnPage(<<"tags", t.slug>>, Sorted({i \in s.content : t.id \in i.tags}, FeaturedRecent))
    BY PagedAre
<1>7. OfList(s, page) <=> \E path, items : ListAt(s, path, items) /\ OnPage(path, items)
    BY DEF OfList
<1> HIDE DEF OnPage, OfGroup, OfAuthor, OfTag
<1>8. OfList(s, page) <=>
          \/ OnPage(<<"posts">>, OfType(s, "post"))
          \/ \E g \in GroupTable(s) : OnPage(<<"notes", g.slug>>, Sorted(NotesOf(s, g.slug), Reading))
          \/ \E a \in s.authors :
                OnPage(<<"authors", a.slug>>, Sorted({i \in s.content : i.author = a.id}, FeaturedRecent))
          \/ \E t \in s.tags :
                OnPage(<<"tags", t.slug>>, Sorted({i \in s.content : t.id \in i.tags}, FeaturedRecent))
    BY <1>7, Zenon DEF ListAt
<1>9. page \in Collections(s) <=> OfType1(s, page) \/ OfList(s, page)
    BY <1>1, <1>2, <1>3, <1>4, <1>5, <1>6, <1>8
<1>10. page \in Details(s) <=> OfText(s, page)
    BY DEF Details, OfText, DetailPage
<1> QED  BY <1>9, <1>10 DEF PublicPages

\* What is listed are texts, each once.
LEMMA ListAtTexts ==
    ASSUME NEW s, Good(s), NEW path, NEW items, ListAt(s, path, items)
    PROVE  \E C \in SUBSET s.content : Lists(items, C)
<1>1. CASE path = <<"posts">> /\ items = OfType(s, "post")
    <2> DEFINE C == {item \in s.content : item.type = "post"}
    <2>1. Lists(Sorted(C, Reading), C)
        BY SomeTexts, ReadingLists
    <2> QED  BY <1>1, <2>1 DEF OfType
<1>2. ASSUME NEW g \in GroupTable(s), items = Sorted(NotesOf(s, g.slug), Reading) PROVE \E C \in SUBSET s.content : Lists(items, C)
    <2>1. NotesOf(s, g.slug) \in SUBSET s.content /\ \A n \in NotesOf(s, g.slug) : n.type = "note"
        BY DEF NotesOf, Notes
    <2>2. Lists(Sorted(NotesOf(s, g.slug), Reading), NotesOf(s, g.slug))
        BY <2>1, SomeTexts, ReadingLists
    <2> QED  BY <1>2, <2>1, <2>2
<1>3. ASSUME NEW C \in SUBSET s.content, items = Sorted(C, FeaturedRecent) PROVE \E D \in SUBSET s.content : Lists(items, D)
    BY <1>3, SomeTexts, FeaturedLists
<1>4. ASSUME NEW a \in s.authors, items = Sorted({i \in s.content : i.author = a.id}, FeaturedRecent)
      PROVE  \E C \in SUBSET s.content : Lists(items, C)
    <2> DEFINE C == {i \in s.content : i.author = a.id}
    <2>1. C \in SUBSET s.content
        OBVIOUS
    <2> QED  BY <1>3, <1>4, <2>1
<1>5. ASSUME NEW t \in s.tags, items = Sorted({i \in s.content : t.id \in i.tags}, FeaturedRecent)
      PROVE  \E C \in SUBSET s.content : Lists(items, C)
    <2> DEFINE C == {i \in s.content : t.id \in i.tags}
    <2>1. C \in SUBSET s.content
        OBVIOUS
    <2> QED  BY <1>3, <1>5, <2>1
<1> QED  BY <1>1, <1>2, <1>4, <1>5 DEF ListAt

\* A list has a page, and no more than there are numbers for.
LEMMA PagesOfList ==
    ASSUME NEW s, Good(s), NEW items, NEW C \in SUBSET s.content, Lists(items, C)
    PROVE  /\ PagesOf(items) \in Nat /\ PagesOf(items) >= 1
           /\ PagesOf(items) = 1 \/ PagesOf(items) <= Len(PageNames)
<1>1. Len(items) \in Nat /\ Len(items) <= MaxItems /\ (items = <<>> <=> Len(items) = 0)
    <2>1. Len(items) = Cardinality(C) /\ (items = <<>> <=> C = {})
        BY ListsAll
    <2>2. Cardinality(C) \in Nat /\ Cardinality(C) <= MaxItems /\ IsFiniteSet(C)
        BY SomeTexts DEF Texts
    <2> QED  BY <2>1, <2>2, FS_EmptySet
<1>2. PageSize \in Nat /\ PageSize >= 1 /\ MaxItems \in Nat /\ Len(PageNames) \in Nat /\ MaxItems <= PageSize * Len(PageNames)
    BY SiteAssumption
<1>3. CASE items = <<>>
    BY <1>3 DEF PagesOf
<1>4. CASE items # <<>>
    <2> DEFINE n == Len(items)  P == PageSize  N == Len(PageNames)  k == (n + P - 1) \div P
    <2>1. n \in Nat /\ n >= 1 /\ P \in Nat /\ P >= 1 /\ N \in Nat /\ n <= P * N
        <3>1. P * N \in Nat
            BY <1>2
        <3> QED  BY <1>1, <1>2, <1>4, <3>1
    <2> HIDE DEF n, P, N
    <2>2. k \in Nat /\ P * k <= n + P - 1 /\ n + P - 1 < P * k + P
        BY <2>1
    <2> HIDE DEF k
    <2>3. k >= 1
        <3>1. k = 0 => P * k = 0
            BY <2>1
        <3> QED  BY <2>1, <2>2, <3>1
    <2>4. k <= N
        <3> SUFFICES ASSUME k >= N + 1 PROVE FALSE
            BY <2>1, <2>2
        <3>1. P * k >= P * (N + 1)
            BY <2>1, <2>2
        <3>2. P * (N + 1) = P * N + P /\ P * N \in Nat /\ P * k \in Nat
            BY <2>1, <2>2
        <3> QED  BY <2>1, <2>2, <3>1, <3>2
    <2>5. PagesOf(items) = k
        BY <1>4 DEF PagesOf, n, P, k
    <2> QED  BY <2>2, <2>3, <2>4, <2>5 DEF N
<1> QED  BY <1>3, <1>4

\* Where a page of a list is.
LEMMA AtIs ==
    ASSUME NEW a, NEW b, NEW i
    PROVE  /\ At(<<a>>, i) = IF i = 1 THEN <<a>> ELSE <<a, "page", PageNames[i]>>
           /\ At(<<a, b>>, i) = IF i = 1 THEN <<a, b>> ELSE <<a, b, "page", PageNames[i]>>
<1> DEFINE S == {a, b, "page", PageNames[i]}
<1>0. <<a>> \in Seq(S) /\ <<a, b>> \in Seq(S) /\ <<"page", PageNames[i]>> \in Seq(S)
    OBVIOUS
<1>1. <<a>> \o <<"page", PageNames[i]>> = <<a, "page", PageNames[i]>>
    <2> DEFINE q == <<a>> \o <<"page", PageNames[i]>>  t == <<a, "page", PageNames[i]>>
    <2>1. q \in Seq(S) /\ Len(q) = 3 /\ q[1] = a /\ q[2] = "page" /\ q[3] = PageNames[i]
        BY <1>0, ConcatProperties
    <2>2. t \in Seq(S) /\ Len(t) = 3 /\ t[1] = a /\ t[2] = "page" /\ t[3] = PageNames[i]
        OBVIOUS
    <2> HIDE DEF q, t, S
    <2>3. \A k \in 1..Len(q) : q[k] = t[k]
        BY <2>1, <2>2
    <2>4. q = t
        BY <2>1, <2>2, <2>3, SeqEqual
    <2> QED  BY <2>4 DEF q, t
<1>2. <<a, b>> \o <<"page", PageNames[i]>> = <<a, b, "page", PageNames[i]>>
    <2> DEFINE q == <<a, b>> \o <<"page", PageNames[i]>>  t == <<a, b, "page", PageNames[i]>>
    <2>1. q \in Seq(S) /\ Len(q) = 4 /\ q[1] = a /\ q[2] = b /\ q[3] = "page" /\ q[4] = PageNames[i]
        BY <1>0, ConcatProperties
    <2>2. t \in Seq(S) /\ Len(t) = 4 /\ t[1] = a /\ t[2] = b /\ t[3] = "page" /\ t[4] = PageNames[i]
        OBVIOUS
    <2> HIDE DEF q, t, S
    <2>3. \A k \in 1..Len(q) : q[k] = t[k]
        BY <2>1, <2>2
    <2>4. q = t
        BY <2>1, <2>2, <2>3, SeqEqual
    <2> QED  BY <2>4 DEF q, t
<1> QED  BY <1>1, <1>2 DEF At

\* How a path begins and how long it is.
LEMMA Tuples ==
    ASSUME NEW a, NEW b, NEW c, NEW d
    PROVE  /\ Head(<<a>>) = a /\ Head(<<a, b>>) = a /\ Head(<<a, b, c>>) = a /\ Head(<<a, b, c, d>>) = a
           /\ Len(<<a>>) = 1 /\ Len(<<a, b>>) = 2 /\ Len(<<a, b, c>>) = 3 /\ Len(<<a, b, c, d>>) = 4
OBVIOUS

\* A list is at an address of one or two segments.
Roots == {"notes", "authors", "tags"}

LEMMA ListAtPath ==
    ASSUME NEW s, NEW path, NEW items, ListAt(s, path, items)
    PROVE  path = <<"posts">> \/ \E a \in Roots : \E b : path = <<a, b>>
BY DEF ListAt, Roots

\* A page of a list is where no other page of it is.
LEMMA PagesOfListApart ==
    ASSUME NEW s, Good(s), NEW path, NEW items, ListAt(s, path, items),
           NEW i \in 1..PagesOf(items), NEW j \in 1..PagesOf(items), At(path, i) = At(path, j)
    PROVE  i = j
<1>1. /\ PagesOf(items) \in Nat
      /\ PagesOf(items) = 1 \/ PagesOf(items) <= Len(PageNames)
    BY ListAtTexts, PagesOfList
<1>2. SUFFICES ASSUME i # j PROVE FALSE
    OBVIOUS
<1>3. i \in 1..Len(PageNames) /\ j \in 1..Len(PageNames)
    BY <1>1, <1>2, SiteAssumption
<1>4. PageNames[i] # PageNames[j]
    BY <1>2, <1>3, SiteAssumption DEF IsInjective
<1>5. CASE path = <<"posts">>
    <2>1. \A k : At(path, k) = IF k = 1 THEN <<"posts">> ELSE <<"posts", "page", PageNames[k]>>
        BY <1>5, AtIs
    <2> QED  BY <1>2, <1>4, <2>1
<1>6. ASSUME NEW a, NEW b, path = <<a, b>> PROVE FALSE
    <2>1. \A k : At(path, k) = IF k = 1 THEN <<a, b>> ELSE <<a, b, "page", PageNames[k]>>
        BY <1>6, AtIs
    <2> QED  BY <1>2, <1>4, <2>1
<1> QED  BY <1>5, <1>6, ListAtPath

\* The pages of two lists are apart, too.
LEMMA ListsApart ==
    ASSUME NEW s, Good(s), NEW p, NEW x, ListAt(s, p, x), NEW q, NEW y, ListAt(s, q, y),
           NEW i, NEW j, At(p, i) = At(q, j)
    PROVE  p = q /\ x = y
<1>1. p = q
    <2>1. CASE p = <<"posts">> /\ q = <<"posts">>
        BY <2>1
    <2>2. ASSUME NEW a \in Roots, NEW b, p = <<a, b>> \/ q = <<a, b>>, p = <<"posts">> \/ q = <<"posts">>
          PROVE  FALSE
        <3>1. ASSUME NEW k PROVE Head(At(<<a, b>>, k)) = a
            <4>1. At(<<a, b>>, k) = <<a, b>> \/ At(<<a, b>>, k) = <<a, b, "page", PageNames[k]>>
                BY AtIs
            <4> QED  BY <4>1, Tuples
        <3>2. ASSUME NEW k PROVE Head(At(<<"posts">>, k)) = "posts"
            <4>1. At(<<"posts">>, k) = <<"posts">> \/ At(<<"posts">>, k) = <<"posts", "page", PageNames[k]>>
                BY AtIs
            <4> QED  BY <4>1, Tuples
        <3>3. a # "posts"
            BY DEF Roots
        <3> QED  BY <2>2, <3>1, <3>2, <3>3
    <2>3. ASSUME NEW a, NEW b, p = <<a, b>>, NEW c, NEW d, q = <<c, d>> PROVE p = q
        <3>1. /\ At(p, i) = IF i = 1 THEN <<a, b>> ELSE <<a, b, "page", PageNames[i]>>
              /\ At(q, j) = IF j = 1 THEN <<c, d>> ELSE <<c, d, "page", PageNames[j]>>
            BY <2>3, AtIs
        <3>2. CASE i = 1 /\ j = 1
            BY <2>3, <3>1, <3>2
        <3>3. CASE i # 1 /\ j # 1
            <4>1. <<a, b, "page", PageNames[i]>> = <<c, d, "page", PageNames[j]>>
                BY <3>1, <3>3
            <4> QED  BY <2>3, <4>1
        <3>4. CASE i = 1 /\ j # 1
            <4>1. <<a, b>> = <<c, d, "page", PageNames[j]>>
                BY <3>1, <3>4
            <4> QED  BY <4>1, Tuples
        <3>5. CASE i # 1 /\ j = 1
            <4>1. <<a, b, "page", PageNames[i]>> = <<c, d>>
                BY <3>1, <3>5
            <4> QED  BY <4>1, Tuples
        <3> QED  BY <3>2, <3>3, <3>4, <3>5
    <2> QED  BY <2>1, <2>2, <2>3, ListAtPath
<1>2. x = y
    <2>1. CASE p = <<"posts">>
        BY <1>1, <2>1 DEF ListAt
    <2>2. ASSUME NEW g \in GroupTable(s), p = <<"notes", g.slug>> PROVE x = y
        <3>1. \A h \in GroupTable(s) : p = <<"notes", h.slug>> => h = g
            BY <2>2, GroupsKeyed
        <3>2. \A z : ListAt(s, p, z) => z = Sorted(NotesOf(s, g.slug), Reading)
            BY <2>2, <3>1 DEF ListAt
        <3> QED  BY <1>1, <3>2
    <2>3. ASSUME NEW a \in s.authors, p = <<"authors", a.slug>> PROVE x = y
        <3>1. \A b \in s.authors : p = <<"authors", b.slug>> => b = a
            BY <2>3, TablesKeyed
        <3>2. \A z : ListAt(s, p, z) => z = Sorted({k \in s.content : k.author = a.id}, FeaturedRecent)
            BY <2>3, <3>1 DEF ListAt
        <3> QED  BY <1>1, <3>2
    <2>4. ASSUME NEW t \in s.tags, p = <<"tags", t.slug>> PROVE x = y
        <3>1. \A u \in s.tags : p = <<"tags", u.slug>> => u = t
            BY <2>4, TablesKeyed
        <3>2. \A z : ListAt(s, p, z) => z = Sorted({k \in s.content : t.id \in k.tags}, FeaturedRecent)
            BY <2>4, <3>1 DEF ListAt
        <3> QED  BY <1>1, <3>2
    <2> QED  BY <2>1, <2>2, <2>3, <2>4 DEF ListAt
<1> QED  BY <1>1, <1>2

\* The addresses of texts, of types and of lists differ in how they begin or how long they are.
TextShape(p) == \/ Head(p) \in {"posts", "articles", "topics"} /\ Len(p) = 2
                \/ Head(p) = "notes" /\ Len(p) = 3
TypeShape(p) == p \in {<<"articles">>, <<"topics">>}
ListShape(p) == \/ Head(p) = "posts" /\ Len(p) \in {1, 3}
                \/ Head(p) \in Roots /\ Len(p) \in {2, 4}

LEMMA TextAt ==
    ASSUME NEW s, Good(s), NEW item \in s.content
    PROVE  /\ TextShape(item.path)
           /\ \E a, b, c : a # "en" /\ item.path \in {<<a, b>>, <<a, b, c>>}
<1>1. item.path = PathOf(item) /\ item.type \in Types
    BY TablesKeyed DEF ItemValid, ItemPattern
<1>2. CASE item.type = "note"
    <2>1. item.path = <<"notes", item.group.slug, item.slug>>
        BY <1>1, <1>2 DEF PathOf
    <2> QED  BY <2>1, Tuples DEF TextShape
<1>3. CASE item.type # "note"
    <2>1. item.path = <<Prefix[item.type], item.slug>>
        BY <1>1, <1>3 DEF PathOf
    <2>2. Prefix[item.type] \in {"posts", "articles", "topics"}
        BY <1>1, <1>3 DEF Types, Prefix
    <2> QED  BY <2>1, <2>2, Tuples DEF TextShape
<1> QED  BY <1>2, <1>3

LEMMA TypeAt ==
    ASSUME NEW s, NEW type \in {"curated_article", "topic"}
    PROVE  /\ TypePage(s, type).path = <<Prefix[type]>> /\ TypeShape(<<Prefix[type]>>)
           /\ type = "topic" <=> <<Prefix[type]>> = <<"topics">>
BY DEF TypePage, TypeShape, Prefix

LEMMA ListShaped ==
    ASSUME NEW s, NEW path, NEW items, ListAt(s, path, items), NEW i
    PROVE  /\ ListShape(At(path, i)) /\ PageAt(path, items, i).path = At(path, i)
           /\ \E a, b, c, d : a # "en" /\ At(path, i) \in {<<a>>, <<a, b>>, <<a, b, c>>, <<a, b, c, d>>}
<1>1. PageAt(path, items, i).path = At(path, i)
    BY DEF PageAt
<1>2. CASE path = <<"posts">>
    <2>1. At(path, i) = <<"posts">> \/ At(path, i) = <<"posts", "page", PageNames[i]>>
        BY <1>2, AtIs
    <2> QED  BY <1>1, <2>1, Tuples DEF ListShape
<1>3. ASSUME NEW a \in Roots, NEW b, path = <<a, b>>
      PROVE  /\ ListShape(At(path, i))
             /\ \E x, y, z, w : x # "en" /\ At(path, i) \in {<<x>>, <<x, y>>, <<x, y, z>>, <<x, y, z, w>>}
    <2>1. At(path, i) = <<a, b>> \/ At(path, i) = <<a, b, "page", PageNames[i]>>
        BY <1>3, AtIs
    <2>2. a # "en"
        BY DEF Roots
    <2> QED  BY <2>1, <2>2, Tuples DEF ListShape
<1> QED  BY <1>1, <1>2, <1>3, ListAtPath

LEMMA ShapesApart ==
    /\ \A p : ~(TextShape(p) /\ TypeShape(p))
    /\ \A p : ~(TextShape(p) /\ ListShape(p))
    /\ \A p : ~(TypeShape(p) /\ ListShape(p))
<1>1. \A p : TypeShape(p) => Head(p) \in {"articles", "topics"} /\ Len(p) = 1
    BY Tuples DEF TypeShape
<1> QED  BY <1>1 DEF TextShape, ListShape, Roots

\* Two texts are at two addresses.
LEMMA TextsAtTwo ==
    ASSUME NEW s, Good(s), NEW i \in s.content, NEW j \in s.content, i.path = j.path
    PROVE  i = j
<1>1. PICK r \in Canonicals(s, i.id) : r \in s.routes /\ r.path = i.path
    BY CanonicalOf
<1>2. PICK q \in Canonicals(s, j.id) : q \in s.routes /\ q.path = j.path
    BY CanonicalOf
<1>3. r = q
    BY <1>1, <1>2, TablesKeyed
<1>4. i.id = j.id
    BY <1>1, <1>2, <1>3 DEF Canonicals
<1> QED  BY <1>4, TablesKeyed DEF Texts

\* No two pages are at one address.
LEMMA PagesAtTwo ==
    ASSUME NEW s, Good(s), NEW page \in PublicPages(s), NEW other \in PublicPages(s), page.path = other.path
    PROVE  page = other
<1>1. \A item : DetailPage(item).path = item.path
    BY DEF DetailPage
<1>2. \A m \in PublicPages(s) :
         /\ OfText(s, m) \/ OfType1(s, m) \/ OfList(s, m)
         /\ OfText(s, m) => TextShape(m.path)
         /\ OfType1(s, m) => TypeShape(m.path)
         /\ OfList(s, m) => ListShape(m.path)
    <2>1. ASSUME NEW m, OfText(s, m) PROVE TextShape(m.path)
        BY <1>1, <2>1, TextAt DEF OfText
    <2>2. ASSUME NEW m, OfType1(s, m) PROVE TypeShape(m.path)
        BY <2>2, TypeAt DEF OfType1
    <2>3. ASSUME NEW m, OfList(s, m) PROVE ListShape(m.path)
        <3>1. PICK path, items : ListAt(s, path, items) /\ \E i \in 1..PagesOf(items) : m = PageAt(path, items, i)
            BY <2>3 DEF OfList
        <3>2. PICK i \in 1..PagesOf(items) : m = PageAt(path, items, i)
            BY <3>1
        <3> QED  BY <3>1, <3>2, ListShaped
    <2> QED  BY <2>1, <2>2, <2>3, PagesAre
<1>3. CASE OfText(s, page) /\ OfText(s, other)
    <2>1. PICK i \in s.content, j \in s.content : page = DetailPage(i) /\ other = DetailPage(j)
        BY <1>3 DEF OfText
    <2> QED  BY <1>1, <2>1, TextsAtTwo
<1>4. CASE OfType1(s, page) /\ OfType1(s, other)
    <2>1. PICK a \in {"curated_article", "topic"}, b \in {"curated_article", "topic"} :
             page = TypePage(s, a) /\ other = TypePage(s, b)
        BY <1>4 DEF OfType1
    <2>2. <<Prefix[a]>> = <<Prefix[b]>>
        BY <2>1, TypeAt
    <2>3. a = b
        BY <2>2, TypeAt
    <2> QED  BY <2>1, <2>3
<1>5. CASE OfList(s, page) /\ OfList(s, other)
    <2>1. PICK p, x : ListAt(s, p, x) /\ \E i \in 1..PagesOf(x) : page = PageAt(p, x, i)
        BY <1>5 DEF OfList
    <2>2. PICK q, y : ListAt(s, q, y) /\ \E j \in 1..PagesOf(y) : other = PageAt(q, y, j)
        BY <1>5 DEF OfList
    <2>3. PICK i \in 1..PagesOf(x) : page = PageAt(p, x, i)
        BY <2>1
    <2>4. PICK j \in 1..PagesOf(y) : other = PageAt(q, y, j)
        BY <2>2
    <2>5. At(p, i) = At(q, j)
        BY <2>1, <2>2, <2>3, <2>4, ListShaped
    <2>6. p = q /\ x = y
        BY <2>1, <2>2, <2>5, ListsApart
    <2>7. i = j
        BY <2>1, <2>5, <2>6, PagesOfListApart
    <2> QED  BY <2>3, <2>4, <2>6, <2>7
<1> QED  BY <1>2, <1>3, <1>4, <1>5, ShapesApart

\* Where the pages are, no language is said and nothing else is.
LEMMA PagesFree ==
    ASSUME NEW s, Good(s), NEW page \in PublicPages(s)
    PROVE  /\ Plain(page.path) /\ page.path \notin Reserved
           /\ TextShape(page.path) \/ TypeShape(page.path) \/ ListShape(page.path)
           /\ TextShape(page.path) => \E item \in s.content : page = DetailPage(item)
<1>1. \A p : Plain(p) => p \notin {Localized(q, "en") : q \in ChromePaths}
    <2>1. \A q \in ChromePaths : InEnglish(Localized(q, "en"))
        BY ChromePlain, Locales
    <2> QED  BY <2>1, Locales
<1> DEFINE Chrome == {<<a>> : a \in {"about", "contribute", "legal", "stats", "search", "notes", "tags", "authors", "404"}}
<1>2. Reserved = Chrome \union {<<>>} \union {Localized(q, "en") : q \in ChromePaths}
    BY Zenon DEF Reserved
<1>3. \A p : TextShape(p) \/ TypeShape(p) \/ ListShape(p) => p \notin Chrome \union {<<>>}
    <2>1. \A p \in Chrome : Len(p) = 1 /\ Head(p) \notin {"articles", "topics", "posts"}
        BY Tuples
    <2>2. \A p : TypeShape(p) => Len(p) = 1 /\ Head(p) \in {"articles", "topics"}
        BY Tuples DEF TypeShape
    <2>3. Len(<<>>) = 0
        OBVIOUS
    <2> HIDE DEF Chrome
    <2> QED  BY <2>1, <2>2, <2>3 DEF TextShape, ListShape
<1>4. CASE OfText(s, page)
    <2>1. PICK item \in s.content : page = DetailPage(item)
        BY <1>4 DEF OfText
    <2>2. page.path = item.path
        BY <2>1 DEF DetailPage
    <2>3. TextShape(page.path) /\ Plain(page.path)
        <3>1. PICK a, b, c : a # "en" /\ item.path \in {<<a, b>>, <<a, b, c>>}
            BY TextAt
        <3> QED  BY <2>2, <3>1, TextAt, TuplesPlain
    <2> HIDE DEF Chrome
    <2> QED  BY <1>1, <1>2, <1>3, <2>1, <2>3
<1>5. CASE OfType1(s, page)
    <2>1. PICK type \in {"curated_article", "topic"} : page = TypePage(s, type)
        BY <1>5 DEF OfType1
    <2>2. TypeShape(page.path)
        BY <2>1, TypeAt
    <2>3. Plain(page.path)
        BY <2>2, TuplesPlain DEF TypeShape
    <2> HIDE DEF Chrome
    <2> QED  BY <1>1, <1>2, <1>3, <2>2, <2>3, ShapesApart
<1>6. CASE OfList(s, page)
    <2>1. PICK path, items : ListAt(s, path, items) /\ \E i \in 1..PagesOf(items) : page = PageAt(path, items, i)
        BY <1>6 DEF OfList
    <2>2. PICK i \in 1..PagesOf(items) : page = PageAt(path, items, i)
        BY <2>1
    <2>3. ListShape(page.path) /\ page.path = At(path, i)
        BY <2>1, <2>2, ListShaped
    <2>4. Plain(page.path)
        <3>1. PICK a, b, c, d : a # "en" /\ At(path, i) \in {<<a>>, <<a, b>>, <<a, b, c>>, <<a, b, c, d>>}
            BY <2>1, ListShaped
        <3> QED  BY <2>3, <3>1, TuplesPlain
    <2> HIDE DEF Chrome
    <2> QED  BY <1>1, <1>2, <1>3, <2>3, <2>4, ShapesApart
<1> QED  BY <1>4, <1>5, <1>6, PagesAre

\* An old address is where no page is.
LEMMA OldIsFree ==
    ASSUME NEW s, Good(s), NEW r \in Redirects(s)
    PROVE  Plain(r.path) /\ r.path \notin Reserved /\ r.path \notin PagePaths(s)
<1>1. RoutePattern(r.path) /\ r \in s.routes /\ r.kind = "redirect"
    BY TablesKeyed DEF Redirects
<1>2. TextShape(r.path) /\ Plain(r.path)
    <2>1. CASE \E a, b : a \in {"posts", "articles", "topics"} /\ r.path = <<a, b>>
        <3>1. PICK a, b : a \in {"posts", "articles", "topics"} /\ r.path = <<a, b>>
            BY <2>1
        <3>2. Head(<<a, b>>) = a /\ Len(<<a, b>>) = 2
            BY Tuples
        <3>3. Plain(<<a, b>>)
            BY <3>1, TuplesPlain
        <3> QED  BY <3>1, <3>2, <3>3 DEF TextShape
    <2>2. CASE \E b, c : r.path = <<"notes", b, c>>
        <3>1. PICK b, c : r.path = <<"notes", b, c>>
            BY <2>2
        <3>2. Head(<<"notes", b, c>>) = "notes" /\ Len(<<"notes", b, c>>) = 3
            BY Tuples
        <3>3. Plain(<<"notes", b, c>>)
            BY TuplesPlain
        <3> QED  BY <3>1, <3>2, <3>3 DEF TextShape
    <2> QED  BY <1>1, <2>1, <2>2 DEF RoutePattern
<1>3. r.path \notin Reserved
    <2>1. \A q \in ChromePaths : InEnglish(Localized(q, "en"))
        BY ChromePlain, Locales
    <2>2. ~InEnglish(r.path)
        BY <1>2, Locales
    <2>3. \A a : Len(<<a>>) = 1
        BY Tuples
    <2>4. Len(<<>>) = 0 /\ Len(r.path) \in {2, 3}
        BY <1>2 DEF TextShape
    <2> QED  BY <2>1, <2>2, <2>3, <2>4 DEF Reserved
<1>4. ASSUME NEW page \in PublicPages(s), page.path = r.path PROVE FALSE
    <2>1. PICK item \in s.content : page = DetailPage(item)
        BY <1>2, <1>4, PagesFree
    <2>2. PICK q \in Canonicals(s, item.id) : q \in s.routes /\ q.path = item.path
        BY CanonicalOf
    <2>3. item.path = r.path
        BY <1>4, <2>1 DEF DetailPage
    <2>4. q = r
        BY <1>1, <2>2, <2>3, TablesKeyed
    <2> QED  BY <1>1, <2>2, <2>4 DEF Canonicals
<1> QED  BY <1>2, <1>3, <1>4 DEF PagePaths

\* publicPages throws on no snapshot that was accepted.
LEMMA AcceptedPages == ASSUME NEW s, Good(s) PROVE ~PagesThrow(s)
<1>1. \A page \in PublicPages(s) : page.path \notin Reserved
    BY PagesFree
<1>2. \A page, other \in PublicPages(s) : page.path = other.path => page = other
    BY PagesAtTwo
<1>3. ASSUME NEW p \in Twinned(s) PROVE Localized(p, "en") \notin Reserved \union PagePaths(s)
    <2>1. Plain(p) /\ p \notin ChromePaths
        BY ChromePlain, PagesFree DEF Twinned, PagePaths
    <2>2. \A q : Plain(q) => Localized(p, "en") # q
        BY <2>1, Locales
    <2>3. \A q \in ChromePaths : Localized(p, "en") # Localized(q, "en")
        BY <2>1, ChromePlain, LocalesDiffer
    <2>4. \A a : a # "en" => Plain(<<a>>)
        BY TuplesPlain
    <2>5. Plain(<<>>)
        BY ChromePlain DEF ChromePaths
    <2>6. Localized(p, "en") \notin Reserved
        BY <2>2, <2>3, <2>4, <2>5 DEF Reserved
    <2>7. Localized(p, "en") \notin PagePaths(s)
        BY <2>2, PagesFree DEF PagePaths
    <2> QED  BY <2>6, <2>7
<1>4. ASSUME NEW r \in Redirects(s)
      PROVE  r.path \notin Reserved \union PagePaths(s) \union {Localized(p, "en") : p \in Twinned(s)}
    <2>1. \A p \in Twinned(s) : InEnglish(Localized(p, "en"))
        BY ChromePlain, PagesFree, Locales DEF Twinned, PagePaths
    <2> QED  BY <2>1, OldIsFree, Locales
<1> QED  BY <1>1, <1>2, <1>3, <1>4 DEF PagesThrow

LEMMA AcceptedCompiles == ASSUME NEW s, Good(s) PROVE Compiled(s)
BY AcceptedPublishes, AcceptedPages DEF Compiled, Good

-----------------------------------------------------------------------------
(* Where the pages are.                                                     *)

LEMMA CompiledIsGood == ASSUME NEW s, Compiled(s) PROVE Good(s)
BY DEF Compiled, Good

LEMMA TextsPlain ==
    ASSUME NEW s, Compiled(s), NEW item \in s.content
    PROVE  Plain(item.path) /\ item.path \notin ChromePaths \union Directories
<1>1. PICK a, b, c : a # "en" /\ item.path \in {<<a, b>>, <<a, b, c>>}
    BY CompiledIsGood, TextAt
<1>2. Plain(item.path)
    BY <1>1, TuplesPlain
<1>3. item.path \notin ChromePaths \union Directories
    BY <1>1 DEF ChromePaths, Directories
<1> QED  BY <1>2, <1>3

LEMMA PagesPlain ==
    ASSUME NEW s, Compiled(s), NEW page \in PublicPages(s)
    PROVE  Plain(page.path)
BY CompiledIsGood, PagesFree

LEMMA TextsApart ==
    ASSUME NEW s, Compiled(s), NEW i \in s.content, NEW j \in s.content, i.path = j.path
    PROVE  i = j
BY CompiledIsGood, TextsAtTwo

\* The addresses without a language, of which every one has a page in each.
Bases(s) == ChromePaths \union Directories \union PagePaths(s)

LEMMA BasesPlain == ASSUME NEW s, Compiled(s), NEW p \in Bases(s) PROVE Plain(p)
BY ChromePlain, PagesPlain DEF Bases, PagePaths

LEMMA TextsAreBases == ASSUME NEW s, NEW item \in s.content PROVE item.path \in PagePaths(s)
<1>1. [path |-> item.path, kind |-> "detail", items |-> {item}, near |-> {}] \in PublicPages(s)
    BY DEF PublicPages, Details
<1> QED  BY <1>1 DEF PagePaths

\* What is put out: each of them in Chinese and in English.
LEMMA OutputsAre ==
    ASSUME NEW s, Compiled(s), NEW p
    PROVE  p \in Outputs(s) <=> \E q \in Bases(s) : Plain(q) /\ (p = q \/ p = Localized(q, "en"))
<1>1. p \in Outputs(s) <=> \E q \in Bases(s), l \in {"zh", "en"} : p = Localized(q, l)
    BY DEF Outputs, Bases
<1>2. \A q \in Bases(s) : Plain(q) /\ Localized(q, "zh") = q
    BY BasesPlain, Locales
<1> QED  BY <1>1, <1>2

LEMMA InOutputs ==
    ASSUME NEW s, Compiled(s), NEW q \in Bases(s), NEW l \in {"zh", "en"}
    PROVE  Localized(q, l) \in Outputs(s)
BY DEF Outputs, Bases

\* Whose page an address is.
LEMMA ItemsAt ==
    ASSUME NEW s, Compiled(s), NEW q, Plain(q)
    PROVE  /\ ItemAt(s, q) = {i \in s.content : i.path = q}
           /\ ItemAt(s, Localized(q, "en")) = {i \in s.content : i.path = q}
BY Locales DEF ItemAt

-----------------------------------------------------------------------------
(* Languages: a notice, a canonical address and the alternates of a page.   *)

\* There is no notice where there is an English edition, nor in the site's own pages.
LEMMA NoNotice ==
    ASSUME NEW s, Compiled(s), NEW q, Plain(q), NEW l \in {"zh", "en"},
           q \in ChromePaths \/ \E i \in s.content : i.path = q /\ HasEnglish(i)
    PROVE  ~Notice(s, Localized(q, l))
<1> SUFFICES ASSUME NEW i \in ItemAt(s, Localized(q, l)), Editorial(i), ~HasEnglish(i) PROVE FALSE
    BY DEF Notice
<1>1. i \in s.content /\ i.path = q
    BY ItemsAt, Locales
<1>2. q \notin ChromePaths
    BY <1>1, TextsPlain
<1>3. PICK j \in s.content : j.path = q /\ HasEnglish(j)
    BY <1>2
<1> QED  BY <1>1, <1>3, TextsApart

LEMMA AlternatesOf ==
    ASSUME NEW s, Compiled(s), NEW q, Plain(q), NEW l \in {"zh", "en"}
    PROVE  Alternates(s, Localized(q, l)) =
              IF q \in ChromePaths \/ \E i \in s.content : i.path = q /\ HasEnglish(i)
              THEN {Localized(q, "zh"), Localized(q, "en")} ELSE {}
<1>1. WithoutLocale(Localized(q, l)) = q /\ ItemAt(s, Localized(q, l)) = {i \in s.content : i.path = q}
    BY Locales, ItemsAt
<1>2. {Localized(q, k) : k \in {"zh", "en"}} = {Localized(q, "zh"), Localized(q, "en")}
    OBVIOUS
<1> QED  BY <1>1, <1>2 DEF Alternates

\* An alternate of a page is a page, has the same alternates, and is no notice.
LEMMA AlternatesAnswer ==
    ASSUME NEW s, Compiled(s), NEW p \in Outputs(s), NEW a \in Alternates(s, p)
    PROVE  a \in Outputs(s) /\ Alternates(s, a) = Alternates(s, p) /\ ~Notice(s, a)
<1>1. PICK q \in Bases(s), l \in {"zh", "en"} : Plain(q) /\ p = Localized(q, l)
    BY OutputsAre, Locales
<1>2. /\ q \in ChromePaths \/ \E i \in s.content : i.path = q /\ HasEnglish(i)
      /\ a \in {Localized(q, "zh"), Localized(q, "en")}
    BY <1>1, AlternatesOf
<1>3. PICK k \in {"zh", "en"} : a = Localized(q, k)
    BY <1>2
<1>4. a \in Outputs(s)
    BY <1>3, InOutputs
<1>5. Alternates(s, a) = Alternates(s, p)
    BY <1>1, <1>3, AlternatesOf
<1>6. ~Notice(s, a)
    BY <1>1, <1>2, <1>3, NoNotice
<1> QED  BY <1>4, <1>5, <1>6

\* The sitemap lists the pages that are canonical and no notice.
LEMMA SitemapExact ==
    ASSUME NEW s, Compiled(s)
    PROVE  Sitemap(s) = {p \in Outputs(s) : Canonical(s, p) = p /\ ~Notice(s, p)}
<1> SUFFICES ASSUME NEW p \in Outputs(s)
             PROVE  p \in Sitemap(s) <=> Canonical(s, p) = p /\ ~Notice(s, p)
    BY DEF Sitemap
<1>1. PICK q \in Bases(s) : Plain(q) /\ (p = q \/ p = Localized(q, "en"))
    BY OutputsAre
<1>2. CASE p = q
    BY <1>1, <1>2, Locales DEF Sitemap, Canonical, Notice
<1>3. CASE p = Localized(q, "en")
    <2>1. InEnglish(p) /\ WithoutLocale(p) = q /\ ItemAt(s, p) = {i \in s.content : i.path = q} /\ p # q
        BY <1>1, <1>3, Locales, ItemsAt
    <2> DEFINE Own == q \in ChromePaths \/ \E i \in s.content : i.path = q /\ HasEnglish(i)
    <2>2. p \in Sitemap(s) <=> Own
        <3>1. \A i \in s.content : p = Localized(i.path, "en") <=> i.path = q
            BY <1>1, <1>3, TextsPlain, LocalesDiffer
        <3> QED  BY <2>1, <3>1 DEF Sitemap
    <2>3. Canonical(s, p) = p <=> Own
        BY <2>1 DEF Canonical
    <2>4. Own => ~Notice(s, p)
        BY <1>1, <1>3, NoNotice
    <2> QED  BY <2>2, <2>3, <2>4
<1> QED  BY <1>1, <1>2, <1>3

\* The search indexes no text twice.
LEMMA SearchesOnce ==
    ASSUME NEW s, Compiled(s), NEW p \in Outputs(s), Searchable(s, p)
    PROVE  Canonical(s, p) = p
<1>1. PICK q \in Bases(s) : Plain(q) /\ (p = q \/ p = Localized(q, "en"))
    BY OutputsAre
<1>2. CASE p = q
    BY <1>1, <1>2, Locales DEF Canonical
<1>3. CASE p = Localized(q, "en")
    <2>1. InEnglish(p) /\ WithoutLocale(p) = q
        BY <1>1, <1>3, Locales
    <2>2. <<"about">> \in ChromePaths /\ <<"contribute">> \in ChromePaths
        BY DEF ChromePaths
    <2> QED  BY <2>1, <2>2 DEF Searchable, Canonical
<1> QED  BY <1>1, <1>2, <1>3

-----------------------------------------------------------------------------
(* Old addresses.                                                           *)

\* The text an old address leads to.
LEMMA TargetOf ==
    ASSUME NEW s, Compiled(s), NEW r \in Redirects(s)
    PROVE  LET target == CHOOSE i \in s.content : i.id = r.content
           IN  target \in s.content /\ target.id = r.content
<1>1. ItemsOf(s, {r.content}) # {}
    BY DEF Compiled, PublicationThrows, Redirects
<1> QED  BY <1>1 DEF ItemsOf

\* An old address says no language and is no page's, in either language.
LEMMA OldAddress ==
    ASSUME NEW s, Compiled(s), NEW r \in Redirects(s)
    PROVE  Plain(r.path) /\ r.path \notin Bases(s) /\ r.path \notin Outputs(s) /\ Localized(r.path, "en") \notin Outputs(s)
<1>1. RoutePattern(r.path)
    BY DEF Compiled, WellFormed, Redirects
<1>2. PICK a, b, c : a # "en" /\ r.path \in {<<a, b>>, <<a, b, c>>}
    BY <1>1 DEF RoutePattern
<1>3. Plain(r.path)
    BY <1>2, TuplesPlain
<1>4. r.path \notin ChromePaths \union Directories
    BY <1>2 DEF ChromePaths, Directories
<1>5. r.path \notin PagePaths(s)
    BY DEF Compiled, PagesThrow
<1>6. r.path \notin Bases(s)
    BY <1>4, <1>5 DEF Bases
<1>7. r.path \notin Outputs(s)
    BY <1>3, <1>6, OutputsAre, Locales
<1>8. Localized(r.path, "en") \notin Outputs(s)
    BY <1>3, <1>6, OutputsAre, Locales
<1> QED  BY <1>3, <1>6, <1>7, <1>8

\* A rule is of an old address, for one language or the other.
RuleOf(s, r, rule) ==
    LET target == CHOOSE i \in s.content : i.id = r.content IN
    \/ rule = [from |-> r.path, to |-> target.path]
    \/ Bilingual(s, r.content) /\ rule = [from |-> Localized(r.path, "en"), to |-> Localized(target.path, "en")]

LEMMA RulesAre ==
    ASSUME NEW s, NEW rule
    PROVE  rule \in RedirectRules(s) <=> \E r \in Redirects(s) : RuleOf(s, r, rule)
BY DEF RedirectRules, RuleOf

LEMMA RulesAim ==
    ASSUME NEW s, Compiled(s), NEW rule \in RedirectRules(s)
    PROVE  /\ rule.to \in Outputs(s) /\ rule.from \notin Outputs(s)
           /\ \A other \in RedirectRules(s) : other.from = rule.from => other = rule
<1>1. PICK r \in Redirects(s) : RuleOf(s, r, rule)
    BY RulesAre
<1> DEFINE target == CHOOSE i \in s.content : i.id = r.content
<1>2. target \in s.content
    BY TargetOf
<1> HIDE DEF target
<1>3. Localized(target.path, "zh") \in Outputs(s) /\ Localized(target.path, "en") \in Outputs(s)
    BY <1>2, TextsAreBases, InOutputs DEF Bases
<1>4. rule.to \in Outputs(s)
    BY <1>1, <1>2, <1>3, TextsPlain, Locales DEF RuleOf, target
<1>5. rule.from \notin Outputs(s)
    BY <1>1, OldAddress DEF RuleOf
<1>6. ASSUME NEW other \in RedirectRules(s), other.from = rule.from PROVE other = rule
    <2>1. PICK q \in Redirects(s) : RuleOf(s, q, other)
        BY RulesAre
    <2>2. Plain(r.path) /\ Plain(q.path)
        BY OldAddress
    <2>3. /\ rule.from = r.path \/ rule.from = Localized(r.path, "en")
          /\ other.from = q.path \/ other.from = Localized(q.path, "en")
        BY <1>1, <2>1 DEF RuleOf
    <2>4. r.path = q.path
        BY <1>6, <2>2, <2>3, Locales, LocalesDiffer
    <2>5. r = q
        BY <2>4 DEF Compiled, PublicationThrows, Redirects
    <2>6. r.path # Localized(r.path, "en")
        BY <2>2, Locales
    <2> QED  BY <1>1, <1>6, <2>1, <2>5, <2>6 DEF RuleOf
<1> QED  BY <1>4, <1>5, <1>6

-----------------------------------------------------------------------------
(* The manifest of the statistics.                                          *)

Row(p, t) == [path |-> p, target |-> t]

ChromeRow(m)  == \E p \in ChromePaths, l \in {"zh", "en"} : m = Row(Localized(p, l), Localized(p, l))
ListRow(m)    == \E p \in Directories, l \in {"zh", "en"} : m = Row(Localized(p, l), p)
PageRow(s, m) == \E p \in PagePaths(s) : m = Row(p, p)
TwinRow(s, m) == \E p \in PagePaths(s) \ ChromePaths : m = Row(Localized(p, "en"), p)
OldRow(s, m)  == \E r \in Redirects(s) : \E i \in ItemsOf(s, {r.content}) : m = Row(r.path, i.path)

LEMMA RowsAre ==
    ASSUME NEW s, NEW m
    PROVE  m \in ManifestRows(s) <=> ChromeRow(m) \/ ListRow(m) \/ PageRow(s, m) \/ TwinRow(s, m) \/ OldRow(s, m)
<1> DEFINE A == {[path |-> Localized(p, l), target |-> Localized(p, l)] : p \in ChromePaths, l \in {"zh", "en"}}
           B == {[path |-> Localized(p, l), target |-> p] : p \in Directories, l \in {"zh", "en"}}
           C == {[path |-> p, target |-> p] : p \in PagePaths(s)}
           D == {[path |-> Localized(p, "en"), target |-> p] : p \in PagePaths(s) \ ChromePaths}
           E(r) == {[path |-> r.path, target |-> i.path] : i \in ItemsOf(s, {r.content})}
<1>1. m \in A <=> ChromeRow(m)
    BY DEF ChromeRow, Row
<1>2. m \in B <=> ListRow(m)
    BY DEF ListRow, Row
<1>3. m \in C <=> PageRow(s, m)
    BY DEF PageRow, Row
<1>4. m \in D <=> TwinRow(s, m)
    BY DEF TwinRow, Row
<1>5. m \in UNION {E(r) : r \in Redirects(s)} <=> OldRow(s, m)
    <2>1. \A r : m \in E(r) <=> \E i \in ItemsOf(s, {r.content}) : m = [path |-> r.path, target |-> i.path]
        OBVIOUS
    <2> HIDE DEF E
    <2> QED  BY <2>1 DEF OldRow, Row
<1>6. m \in ManifestRows(s) <=> m \in A \/ m \in B \/ m \in C \/ m \in D \/ m \in UNION {E(r) : r \in Redirects(s)}
    BY DEF ManifestRows
<1> HIDE DEF A, B, C, D, E
<1> QED  BY <1>1, <1>2, <1>3, <1>4, <1>5, <1>6

LEMMA OldHasText ==
    ASSUME NEW s, Compiled(s), NEW r \in Redirects(s)
    PROVE  ItemsOf(s, {r.content}) # {} /\ ItemsOf(s, {r.content}) \subseteq s.content
BY DEF Compiled, PublicationThrows, Redirects, ItemsOf

\* A row is of a page or of an old address, and its target has a row of its own.
LEMMA RowsCount ==
    ASSUME NEW s, Compiled(s), NEW m \in ManifestRows(s)
    PROVE  /\ m.path \in Outputs(s) \union {r.path : r \in Redirects(s)}
           /\ Row(m.target, m.target) \in ManifestRows(s)
<1>1. CASE ChromeRow(m)
    <2>1. PICK p \in ChromePaths, l \in {"zh", "en"} : m = Row(Localized(p, l), Localized(p, l))
        BY <1>1 DEF ChromeRow
    <2>2. m.path = Localized(p, l) /\ m.target = Localized(p, l)
        BY <2>1 DEF Row
    <2>3. Localized(p, l) \in Outputs(s)
        BY InOutputs DEF Bases
    <2>4. ChromeRow(Row(m.target, m.target))
        BY <2>2 DEF ChromeRow
    <2> QED  BY <2>2, <2>3, <2>4, RowsAre
<1>2. CASE ListRow(m)
    <2>1. PICK p \in Directories, l \in {"zh", "en"} : m = Row(Localized(p, l), p)
        BY <1>2 DEF ListRow
    <2>2. m.path = Localized(p, l) /\ m.target = p
        BY <2>1 DEF Row
    <2>3. Localized(p, l) \in Outputs(s) /\ Localized(p, "zh") = p
        BY InOutputs, BasesPlain, Locales DEF Bases
    <2>4. ListRow(Row(m.target, m.target))
        BY <2>2, <2>3 DEF ListRow
    <2> QED  BY <2>2, <2>3, <2>4, RowsAre
<1>3. CASE PageRow(s, m) \/ TwinRow(s, m)
    <2>1. PICK p \in PagePaths(s) : m.target = p /\ (m.path = p \/ m.path = Localized(p, "en"))
        BY <1>3 DEF PageRow, TwinRow, Row
    <2>2. p \in Outputs(s) /\ Localized(p, "en") \in Outputs(s)
        BY OutputsAre, BasesPlain DEF Bases
    <2>3. PageRow(s, Row(m.target, m.target))
        BY <2>1 DEF PageRow
    <2> QED  BY <2>1, <2>2, <2>3, RowsAre
<1>4. CASE OldRow(s, m)
    <2>1. PICK r \in Redirects(s) : \E i \in ItemsOf(s, {r.content}) : m = Row(r.path, i.path)
        BY <1>4 DEF OldRow
    <2>2. PICK i \in ItemsOf(s, {r.content}) : m.path = r.path /\ m.target = i.path
        BY <2>1 DEF Row
    <2>3. i.path \in PagePaths(s)
        BY OldHasText, TextsAreBases
    <2>4. PageRow(s, Row(m.target, m.target))
        BY <2>2, <2>3 DEF PageRow
    <2> QED  BY <2>2, <2>4, RowsAre
<1> QED  BY <1>1, <1>2, <1>3, <1>4, RowsAre

\* Every page and every old address has a row.
LEMMA AllCounted ==
    ASSUME NEW s, Compiled(s)
    PROVE  /\ \A p \in Outputs(s) : \E m \in ManifestRows(s) : m.path = p
           /\ \A r \in Redirects(s) : \E m \in ManifestRows(s) : m.path = r.path
<1>0. \A p, t : Row(p, t).path = p
    BY DEF Row
<1>1. ASSUME NEW p \in Outputs(s) PROVE \E m \in ManifestRows(s) : m.path = p
    <2>1. PICK q \in Bases(s), l \in {"zh", "en"} : p = Localized(q, l) /\ Localized(q, "zh") = q
        BY OutputsAre, Locales
    <2>2. CASE q \in ChromePaths
        <3>1. ChromeRow(Row(p, p))
            BY <2>1, <2>2 DEF ChromeRow
        <3> QED  BY <1>0, <3>1, RowsAre
    <2>3. CASE q \in Directories
        <3>1. ListRow(Row(p, q))
            BY <2>1, <2>3 DEF ListRow
        <3> QED  BY <1>0, <3>1, RowsAre
    <2>4. CASE q \in PagePaths(s) \ ChromePaths
        <3>1. PageRow(s, Row(p, q)) \/ TwinRow(s, Row(p, q))
            BY <2>1, <2>4 DEF PageRow, TwinRow
        <3> QED  BY <1>0, <3>1, RowsAre
    <2> QED  BY <2>1, <2>2, <2>3, <2>4 DEF Bases
<1>2. ASSUME NEW r \in Redirects(s) PROVE \E m \in ManifestRows(s) : m.path = r.path
    <2>1. PICK i : i \in ItemsOf(s, {r.content})
        BY OldHasText
    <2>2. OldRow(s, Row(r.path, i.path))
        BY <2>1 DEF OldRow
    <2> QED  BY <1>0, <2>2, RowsAre
<1> QED  BY <1>1, <1>2

LEMMA ManifestCounts ==
    ASSUME NEW s, Compiled(s)
    PROVE  /\ Outputs(s) \union {r.path : r \in Redirects(s)} = {m.path : m \in ManifestRows(s)}
           /\ \A m \in ManifestRows(s) : [path |-> m.target, target |-> m.target] \in ManifestRows(s)
<1>1. \A m \in ManifestRows(s) : Row(m.target, m.target) \in ManifestRows(s)
    BY RowsCount
<1>2. \A p : p \in Outputs(s) \union {r.path : r \in Redirects(s)} <=> p \in {m.path : m \in ManifestRows(s)}
    BY RowsCount, AllCounted
<1> QED  BY <1>1, <1>2 DEF Row

-----------------------------------------------------------------------------
(* What an accepted snapshot makes passes the gate.                         *)

\* What the manifest counts the views of a page as.
CountedAs(q, l) == IF q \in ChromePaths THEN Localized(q, l) ELSE q

LEMMA RowTargets ==
    ASSUME NEW s, Compiled(s), NEW m \in ManifestRows(s)
    PROVE  \/ \E q \in Bases(s), l \in {"zh", "en"} : m.path = Localized(q, l) /\ m.target = CountedAs(q, l)
           \/ \E r \in Redirects(s) : \E i \in ItemsOf(s, {r.content}) : m.path = r.path /\ m.target = i.path
<1>0. \A p, t : Row(p, t).path = p /\ Row(p, t).target = t
    BY DEF Row
<1>1. ASSUME ChromeRow(m)
      PROVE  \E q \in Bases(s), l \in {"zh", "en"} : m.path = Localized(q, l) /\ m.target = CountedAs(q, l)
    BY <1>0, <1>1 DEF ChromeRow, Bases, CountedAs
<1>2. ASSUME ListRow(m)
      PROVE  \E q \in Bases(s), l \in {"zh", "en"} : m.path = Localized(q, l) /\ m.target = CountedAs(q, l)
    <2>1. \A p \in Directories : p \notin ChromePaths
        BY DEF Directories, ChromePaths
    <2> QED  BY <1>0, <1>2, <2>1 DEF ListRow, Bases, CountedAs
<1>3. ASSUME PageRow(s, m)
      PROVE  \E q \in Bases(s), l \in {"zh", "en"} : m.path = Localized(q, l) /\ m.target = CountedAs(q, l)
    <2>1. PICK p \in PagePaths(s) : m = Row(p, p)
        BY <1>3 DEF PageRow
    <2>2. p \in Bases(s) /\ Localized(p, "zh") = p
        BY BasesPlain, Locales DEF Bases
    <2> QED  BY <1>0, <2>1, <2>2 DEF CountedAs
<1>4. ASSUME TwinRow(s, m)
      PROVE  \E q \in Bases(s), l \in {"zh", "en"} : m.path = Localized(q, l) /\ m.target = CountedAs(q, l)
    BY <1>0, <1>4 DEF TwinRow, Bases, CountedAs
<1>5. OldRow(s, m) => \E r \in Redirects(s) : \E i \in ItemsOf(s, {r.content}) : m.path = r.path /\ m.target = i.path
    BY <1>0 DEF OldRow
<1> QED  BY <1>1, <1>2, <1>3, <1>4, <1>5, RowsAre

\* A base and a language give an address, and it gives them back.
LEMMA BaseOf ==
    ASSUME NEW s, Compiled(s), NEW q \in Bases(s), NEW l \in {"zh", "en"}
    PROVE  /\ Plain(q) /\ WithoutLocale(Localized(q, l)) = q /\ LocaleOf(Localized(q, l)) = l
           /\ InEnglish(Localized(q, l)) <=> l = "en"
           /\ Localized(q, "zh") = q
<1>1. Plain(q)
    BY BasesPlain
<1> QED  BY <1>1, Locales DEF LocaleOf

\* buildStatsManifest finds no two targets for an address.
LEMMA AcceptedManifest == ASSUME NEW s, Good(s) PROVE ~ManifestThrows(s)
<1>1. Compiled(s)
    BY AcceptedCompiles
<1>2. SUFFICES ASSUME NEW m \in ManifestRows(s), NEW n \in ManifestRows(s), m.path = n.path
               PROVE  m.target = n.target
    BY DEF ManifestThrows
<1>3. ASSUME NEW q \in Bases(s), NEW l \in {"zh", "en"}, m.path = Localized(q, l), m.target = CountedAs(q, l),
             NEW p \in Bases(s), NEW k \in {"zh", "en"}, n.path = Localized(p, k), n.target = CountedAs(p, k)
      PROVE  m.target = n.target
    <2>1. Localized(q, l) = Localized(p, k)
        BY <1>2, <1>3
    <2>2. WithoutLocale(Localized(q, l)) = q /\ LocaleOf(Localized(q, l)) = l
        BY <1>1, BaseOf
    <2>3. WithoutLocale(Localized(p, k)) = p /\ LocaleOf(Localized(p, k)) = k
        BY <1>1, BaseOf
    <2>4. q = p /\ l = k
        BY <2>1, <2>2, <2>3
    <2> QED  BY <1>3, <2>4
<1>4. \A r \in Redirects(s), q \in Bases(s), l \in {"zh", "en"} : r.path # Localized(q, l)
    BY <1>1, OldAddress, InOutputs
<1>5. ASSUME NEW r \in Redirects(s), NEW i \in ItemsOf(s, {r.content}), m.path = r.path, m.target = i.path,
             NEW q \in Redirects(s), NEW j \in ItemsOf(s, {q.content}), n.path = q.path, n.target = j.path
      PROVE  m.target = n.target
    <2>1. r = q
        BY <1>2, <1>5, TablesKeyed DEF Redirects
    <2>2. i \in s.content /\ j \in s.content /\ i.id = j.id
        BY <2>1 DEF ItemsOf
    <2>3. i = j
        BY <2>2, TablesKeyed DEF Texts
    <2> QED  BY <1>5, <2>3
<1>6. CASE \E q \in Bases(s), l \in {"zh", "en"} : m.path = Localized(q, l) /\ m.target = CountedAs(q, l)
    <2>1. PICK q \in Bases(s), l \in {"zh", "en"} : m.path = Localized(q, l) /\ m.target = CountedAs(q, l)
        BY <1>6
    <2>2. \A r \in Redirects(s) : n.path # r.path
        BY <1>2, <1>4, <2>1
    <2>3. PICK p \in Bases(s), k \in {"zh", "en"} : n.path = Localized(p, k) /\ n.target = CountedAs(p, k)
        BY <1>1, <2>2, RowTargets
    <2> QED  BY <1>3, <2>1, <2>3
<1>7. CASE \E r \in Redirects(s) : \E i \in ItemsOf(s, {r.content}) : m.path = r.path /\ m.target = i.path
    <2>1. PICK r \in Redirects(s) : \E i \in ItemsOf(s, {r.content}) : m.path = r.path /\ m.target = i.path
        BY <1>7
    <2>2. PICK i \in ItemsOf(s, {r.content}) : m.path = r.path /\ m.target = i.path
        BY <2>1
    <2>3. \A q \in Bases(s), l \in {"zh", "en"} : n.path # Localized(q, l)
        BY <1>2, <1>4, <2>2
    <2>4. PICK q \in Redirects(s) : \E j \in ItemsOf(s, {q.content}) : n.path = q.path /\ n.target = j.path
        <3> DEFINE page == \E q \in Bases(s), l \in {"zh", "en"} : n.path = Localized(q, l) /\ n.target = CountedAs(q, l)
                   old  == \E q \in Redirects(s) : \E j \in ItemsOf(s, {q.content}) : n.path = q.path /\ n.target = j.path
        <3>1. page \/ old
            BY <1>1, RowTargets, Zenon
        <3>2. ~page
            BY <2>3, Zenon
        <3> HIDE DEF page
        <3> QED  BY <3>1, <3>2
    <2>5. PICK j \in ItemsOf(s, {q.content}) : n.path = q.path /\ n.target = j.path
        BY <2>4
    <2> QED  BY <1>5, <2>2, <2>5
<1> QED  BY <1>1, <1>6, <1>7, RowTargets

\* redirects finds the page of every old address.
LEMMA AcceptedRedirects == ASSUME NEW s, Good(s), RedirectsThrow(s) PROVE TooManyRedirects(s)
<1>1. ASSUME NEW r \in Redirects(s), \A c \in Canonicals(s, r.content) : \A i \in ItemsOf(s, {r.content}) :
                                        c.path # i.path \/ r.path = i.path
      PROVE  FALSE
    <2>1. r \in s.routes /\ r.kind = "redirect"
        BY DEF Redirects
    <2>2. PICK i \in s.content : i.id = r.content
        BY <2>1, TablesKeyed DEF Ids
    <2>3. i \in ItemsOf(s, {r.content})
        BY <2>2 DEF ItemsOf
    <2>4. PICK c \in Canonicals(s, i.id) : c \in s.routes /\ c.path = i.path
        BY CanonicalOf
    <2>5. r.path = i.path
        BY <1>1, <2>2, <2>3, <2>4
    <2>6. r = c
        BY <2>1, <2>4, <2>5, TablesKeyed
    <2> QED  BY <2>1, <2>4, <2>6 DEF Canonicals
<1> QED  BY <1>1 DEF RedirectsThrow

\* Every list has its first page, and every number of a page is of one.
LEMMA ListPages ==
    ASSUME NEW s, Good(s), NEW path, NEW items, ListAt(s, path, items)
    PROVE  path \in PagePaths(s) /\ \A i \in 1..PagesOf(items) : At(path, i) \in PagePaths(s)
<1>1. ASSUME NEW i \in 1..PagesOf(items) PROVE At(path, i) \in PagePaths(s)
    <2>1. OfList(s, PageAt(path, items, i))
        BY DEF OfList
    <2>2. PageAt(path, items, i) \in PublicPages(s)
        BY <2>1, PagesAre
    <2>3. PageAt(path, items, i).path = At(path, i)
        BY ListShaped
    <2> QED  BY <2>2, <2>3 DEF PagePaths
<1>2. 1 \in 1..PagesOf(items)
    BY ListAtTexts, PagesOfList
<1>3. At(path, 1) = path
    BY DEF At
<1> QED  BY <1>1, <1>2, <1>3

LEMMA ListsThere ==
    ASSUME NEW s, Good(s)
    PROVE  /\ <<"posts">> \in PagePaths(s)
           /\ \A g \in GroupTable(s) : <<"notes", g.slug>> \in PagePaths(s)
           /\ \A a \in s.authors : <<"authors", a.slug>> \in PagePaths(s)
           /\ \A t \in s.tags : <<"tags", t.slug>> \in PagePaths(s)
<1>1. ListAt(s, <<"posts">>, OfType(s, "post"))
    BY DEF ListAt
<1>2. \A g \in GroupTable(s) : ListAt(s, <<"notes", g.slug>>, Sorted(NotesOf(s, g.slug), Reading))
    BY Zenon DEF ListAt
<1>3. \A a \in s.authors :
         ListAt(s, <<"authors", a.slug>>, Sorted({i \in s.content : i.author = a.id}, FeaturedRecent))
    BY Zenon DEF ListAt
<1>4. \A t \in s.tags :
         ListAt(s, <<"tags", t.slug>>, Sorted({i \in s.content : t.id \in i.tags}, FeaturedRecent))
    BY Zenon DEF ListAt
<1> QED  BY <1>1, <1>2, <1>3, <1>4, ListPages

\* A link to a text leads to a page.
LEMMA TextLinked ==
    ASSUME NEW s, Good(s), NEW item \in s.content, NEW l \in {"zh", "en"}
    PROVE  ContentPath(item, l) \in Outputs(s)
<1>1. Compiled(s) /\ item.path \in Bases(s)
    BY AcceptedCompiles, TextsAreBases DEF Bases
<1>2. Localized(item.path, l) \in Outputs(s) /\ Localized(item.path, "zh") \in Outputs(s)
    BY <1>1, InOutputs
<1>3. Localized(item.path, "zh") = item.path
    BY <1>1, BaseOf
<1> QED  BY <1>2, <1>3 DEF ContentPath

\* Where a page is, and whose it is.
LEMMA AddressOf ==
    ASSUME NEW s, Good(s), NEW q \in Bases(s), NEW l \in {"zh", "en"}
    PROVE  /\ Plain(q) /\ WithoutLocale(Localized(q, l)) = q /\ LocaleOf(Localized(q, l)) = l
           /\ InEnglish(Localized(q, l)) <=> l = "en"
           /\ Localized(q, "zh") = q
           /\ ItemAt(s, Localized(q, l)) = {i \in s.content : i.path = q}
<1>1. Compiled(s)
    BY AcceptedCompiles
<1>2. /\ Plain(q) /\ WithoutLocale(Localized(q, l)) = q /\ LocaleOf(Localized(q, l)) = l
      /\ InEnglish(Localized(q, l)) <=> l = "en"
      /\ Localized(q, "zh") = q
    BY <1>1, BaseOf
<1>3. ItemAt(s, Localized(q, l)) = {i \in s.content : i.path = q}
    BY <1>2 DEF ItemAt
<1> QED  BY <1>2, <1>3

\* Every page has such an address.
LEMMA AddressIs ==
    ASSUME NEW s, Good(s), NEW p \in Outputs(s)
    PROVE  \E q \in Bases(s), l \in {"zh", "en"} : p = Localized(q, l)
BY DEF Outputs, Bases

\* A page that is its own canonical address in English.
OwnEnglish(s, q) == q \in ChromePaths \/ \E i \in s.content : i.path = q /\ HasEnglish(i)

LEMMA CanonicalsAre ==
    ASSUME NEW s, Good(s), NEW q \in Bases(s), NEW l \in {"zh", "en"}
    PROVE  /\ Localized(q, l) \in CanonicalPaths(s) <=> (l = "zh" \/ OwnEnglish(s, q))
           /\ Localized(q, l) \in Sitemap(s) <=> (l = "zh" \/ OwnEnglish(s, q))
<1>1. Compiled(s) /\ Localized(q, l) \in Outputs(s)
    BY AcceptedCompiles, InOutputs
<1>2. \A i \in s.content : Plain(i.path)
    BY <1>1, TextsPlain
<1> DEFINE p == Localized(q, l)
<1>3. p \in CanonicalPaths(s) <=>
          p \in Bases(s) \/ (\E c \in ChromePaths : p = Localized(c, "en"))
          \/ (\E i \in s.content : HasEnglish(i) /\ p = Localized(i.path, "en"))
    BY DEF CanonicalPaths, Bases
<1>4. p \in Sitemap(s) <=>
          ~InEnglish(p) \/ WithoutLocale(p) \in ChromePaths
          \/ (\E i \in s.content : HasEnglish(i) /\ p = Localized(i.path, "en"))
    BY <1>1 DEF Sitemap
<1>5. Plain(q) /\ WithoutLocale(p) = q /\ (InEnglish(p) <=> l = "en") /\ Localized(q, "zh") = q
    BY AddressOf
<1>6. CASE l = "zh"
    BY <1>3, <1>4, <1>5, <1>6
<1>7. CASE l = "en"
    <2>1. p \notin Bases(s)
        BY <1>1, <1>5, <1>7, BasesPlain, Locales
    <2>2. \A c \in ChromePaths : p = Localized(c, "en") <=> q = c
        BY <1>5, <1>7, ChromePlain, LocalesDiffer
    <2>3. \A i \in s.content : p = Localized(i.path, "en") <=> i.path = q
        BY <1>2, <1>5, <1>7, LocalesDiffer
    <2> HIDE DEF p
    <2> QED  BY <1>3, <1>4, <1>5, <1>7, <2>1, <2>2, <2>3 DEF OwnEnglish, p
<1> QED  BY <1>6, <1>7

\* What the home page shows are texts.
LEMMA HomeShowsTexts == ASSUME NEW s, Good(s) PROVE HomeContent(s) \subseteq s.content
<1> DEFINE A == {i \in s.content : i.type = "curated_article"}
           T == {i \in s.content : i.type = "topic"}
<1>1. \A C, q : Lists(q, C) => FirstFour(q) \subseteq C
    BY DEF Lists, FirstFour
<1>2. Notes(s) \in SUBSET s.content /\ A \in SUBSET s.content /\ T \in SUBSET s.content
    BY DEF Notes
<1>3. Lists(Sorted(Notes(s), Recent), Notes(s)) /\ Lists(Sorted(A, Recent), A)
    BY <1>2, SomeTexts, RecentLists
<1>4. Lists(OfType(s, "topic"), T)
    BY <1>2, SomeTexts, ReadingLists DEF OfType
<1>5. HomeContent(s) = FirstFour(Sorted(Notes(s), Recent)) \union FirstFour(OfType(s, "topic")) \union FirstFour(Sorted(A, Recent))
    BY DEF HomeContent
<1> HIDE DEF A, T
<1> QED  BY <1>1, <1>2, <1>3, <1>4, <1>5

\* The links that every page has, and those of the site's own pages.
LEMMA ChromeLinked ==
    ASSUME NEW s, Good(s), NEW q, NEW l \in {"zh", "en"}
    PROVE  ChromeLinks(s, q, l) \subseteq Outputs(s)
<1>1. \A p \in Bases(s) : Localized(p, l) \in Outputs(s)
    BY AcceptedCompiles, InOutputs
<1>2. SUFFICES ASSUME NEW x \in ChromeLinks(s, q, l) PROVE x \in Outputs(s)
    OBVIOUS
<1>3. \/ x \in {Localized(p, l) : p \in ChromePaths}
      \/ x \in {ContentPath(i, l) : i \in HomeContent(s)}
      \/ x \in {Localized(<<"notes", g.slug>>, l) : g \in GroupTable(s)}
      \/ x \in {Localized(<<"tags", t.slug>>, l) : t \in s.tags}
      \/ x \in {Localized(<<"authors", a.slug>>, l) : a \in s.authors}
    BY <1>2 DEF ChromeLinks
<1>4. CASE x \in {Localized(p, l) : p \in ChromePaths}
    BY <1>1, <1>4 DEF Bases
<1>5. CASE x \in {ContentPath(i, l) : i \in HomeContent(s)}
    BY <1>5, HomeShowsTexts, TextLinked
<1>6. /\ \A g \in GroupTable(s) : <<"notes", g.slug>> \in Bases(s)
      /\ \A t \in s.tags : <<"tags", t.slug>> \in Bases(s)
      /\ \A a \in s.authors : <<"authors", a.slug>> \in Bases(s)
    BY ListsThere DEF Bases
<1> QED  BY <1>1, <1>3, <1>4, <1>5, <1>6

\* The links of a text: to its author, its tags, its topics, its list, or its entries.
LEMMA DetailLinked ==
    ASSUME NEW s, Good(s), NEW item \in s.content, NEW l \in {"zh", "en"}
    PROVE  DetailLinks(s, item, l) \subseteq Outputs(s)
<1>1. \A p \in Bases(s) : Localized(p, l) \in Outputs(s)
    BY AcceptedCompiles, InOutputs
<1>2. SUFFICES ASSUME NEW x \in DetailLinks(s, item, l) PROVE x \in Outputs(s)
    OBVIOUS
<1>3. CASE item.type = "topic"
    <2>1. x \in {ContentPath(i, l) : i \in ItemsOf(s, Range(Entries(s, item)))}
        BY <1>2, <1>3 DEF DetailLinks
    <2>2. PICK i \in s.content : x = ContentPath(i, l)
        BY <2>1 DEF ItemsOf
    <2> QED  BY <2>2, TextLinked
<1>4. CASE item.type # "topic"
    <2>1. \/ x \in {Localized(<<"authors", a.slug>>, l) : a \in {a \in s.authors : a.id = item.author}}
          \/ x \in {Localized(<<"tags", t.slug>>, l) : t \in {t \in s.tags : t.id \in item.tags}}
          \/ x \in {ContentPath(t, l) : t \in {t \in s.content : \E e \in t.entries : e.target = item.id}}
          \/ item.type # "note" /\ x = Localized(<<Prefix[item.type]>>, l)
          \/ /\ item.type = "note"
             /\ x \in {Localized(p, l) : p \in {<<"notes">>, <<"notes", item.group.slug>>} \union Neighbours(s, item)}
        BY <1>2, <1>4 DEF DetailLinks
    <2>2. CASE x \in {Localized(<<"authors", a.slug>>, l) : a \in {a \in s.authors : a.id = item.author}}
        <3>1. PICK a \in s.authors : x = Localized(<<"authors", a.slug>>, l)
            BY <2>2
        <3> QED  BY <1>1, <3>1, ListsThere DEF Bases
    <2>3. CASE x \in {Localized(<<"tags", t.slug>>, l) : t \in {t \in s.tags : t.id \in item.tags}}
        <3>1. PICK t \in s.tags : x = Localized(<<"tags", t.slug>>, l)
            BY <2>3
        <3> QED  BY <1>1, <3>1, ListsThere DEF Bases
    <2>4. CASE x \in {ContentPath(t, l) : t \in {t \in s.content : \E e \in t.entries : e.target = item.id}}
        <3>1. PICK t \in s.content : x = ContentPath(t, l)
            BY <2>4
        <3> QED  BY <3>1, TextLinked
    <2>5. CASE item.type # "note" /\ x = Localized(<<Prefix[item.type]>>, l)
        <3>1. item.type \in {"post", "curated_article"}
            BY <1>4, <2>5, TablesKeyed DEF ItemPattern, Types
        <3>2. <<Prefix[item.type]>> \in Bases(s)
            BY <3>1, ListsThere DEF Bases, Prefix, ChromePaths
        <3> QED  BY <1>1, <2>5, <3>2
    <2>6. CASE /\ item.type = "note"
               /\ x \in {Localized(p, l) : p \in {<<"notes">>, <<"notes", item.group.slug>>} \union Neighbours(s, item)}
        <3>1. PICK p : x = Localized(p, l) /\ (p \in {<<"notes">>, <<"notes", item.group.slug>>} \/ p \in Neighbours(s, item))
            BY <2>6
        <3>2. <<"notes">> \in Bases(s)
            BY DEF Bases, ChromePaths
        <3>3. <<"notes", item.group.slug>> \in Bases(s)
            <4>1. item.group.slug \in Slugs(GroupTable(s))
                BY <2>6, GroupsKeyed DEF Notes
            <4>2. PICK g \in GroupTable(s) : g.slug = item.group.slug
                BY <4>1 DEF Slugs
            <4>3. <<"notes", g.slug>> \in PagePaths(s)
                BY ListsThere
            <4> QED  BY <4>2, <4>3 DEF Bases
        <3>4. ASSUME p \in Neighbours(s, item) PROVE p \in Bases(s)
            <4> DEFINE C == NotesOf(s, item.group.slug)  notes == Sorted(C, Reading)
            <4>1. C \in SUBSET s.content /\ \A n \in C : n.type = "note"
                BY DEF NotesOf, Notes
            <4>2. Lists(notes, C)
                BY <4>1, SomeTexts, ReadingLists
            <4>3. PICK i \in DOMAIN notes : p = notes[i].path
                BY <3>4 DEF Neighbours
            <4> HIDE DEF C, notes
            <4>4. notes[i] \in s.content
                BY <4>1, <4>2, <4>3 DEF Lists
            <4> QED  BY <4>3, <4>4, TextsAreBases DEF Bases
        <3> QED  BY <1>1, <3>1, <3>2, <3>3, <3>4
    <2> QED  BY <2>1, <2>2, <2>3, <2>4, <2>5, <2>6
<1> QED  BY <1>3, <1>4

\* The links of a page of a list: to its texts, their authors, its neighbours and what it is a list of.
LEMMA ListingLinked ==
    ASSUME NEW s, Good(s), NEW page \in Collections(s), NEW l \in {"zh", "en"}
    PROVE  ListingLinks(s, page, l) \subseteq Outputs(s)
<1>1. \A p \in Bases(s) : Localized(p, l) \in Outputs(s)
    BY AcceptedCompiles, InOutputs
<1>2. page.items \subseteq s.content /\ page.near \subseteq PagePaths(s) /\ <<Head(page.path)>> \in Bases(s)
    <2>1. CASE OfType1(s, page)
        <3>1. PICK type \in {"curated_article", "topic"} : page = TypePage(s, type)
            BY <2>1 DEF OfType1
        <3>2. page.items = Range(OfType(s, type)) /\ page.near = {} /\ page.path = <<Prefix[type]>>
            BY <3>1 DEF TypePage
        <3>3. Range(OfType(s, type)) \subseteq s.content
            <4> DEFINE C == {i \in s.content : i.type = type}
            <4>1. Lists(Sorted(C, Reading), C)
                BY SomeTexts, ReadingLists
            <4>2. Range(Sorted(C, Reading)) = C
                BY <4>1, ListsAll
            <4> QED  BY <4>2 DEF OfType
        <3>4. <<Prefix[type]>> \in ChromePaths /\ Head(<<Prefix[type]>>) = Prefix[type]
            BY DEF ChromePaths, Prefix
        <3> QED  BY <3>2, <3>3, <3>4 DEF Bases
    <2>2. CASE OfList(s, page)
        <3>1. PICK path, items : ListAt(s, path, items) /\ \E i \in 1..PagesOf(items) : page = PageAt(path, items, i)
            BY <2>2 DEF OfList
        <3>2. PICK i \in 1..PagesOf(items) : page = PageAt(path, items, i)
            BY <3>1
        <3>3. PICK C \in SUBSET s.content : Lists(items, C)
            BY <3>1, ListAtTexts
        <3>4. /\ page.items = {items[j] : j \in {j \in DOMAIN items : (j - 1) \div PageSize = i - 1}}
              /\ page.near = {At(path, j) : j \in {i - 1, i + 1} \intersect 1..PagesOf(items)}
              /\ page.path = At(path, i)
            BY <3>2, Zenon DEF PageAt
        <3>5. page.items \subseteq s.content
            BY <3>3, <3>4 DEF Lists
        <3>6. page.near \subseteq PagePaths(s)
            BY <3>1, <3>4, ListPages
        <3>7. <<Head(page.path)>> \in Bases(s)
            <4>1. CASE path = <<"posts">>
                <5>1. At(path, i) = <<"posts">> \/ At(path, i) = <<"posts", "page", PageNames[i]>>
                    BY <4>1, AtIs
                <5>2. Head(page.path) = "posts"
                    BY <3>4, <5>1, Tuples
                <5> QED  BY <5>2, ListsThere DEF Bases
            <4>2. ASSUME NEW a \in Roots, NEW b, path = <<a, b>> PROVE <<Head(page.path)>> \in Bases(s)
                <5>1. At(path, i) = <<a, b>> \/ At(path, i) = <<a, b, "page", PageNames[i]>>
                    BY <4>2, AtIs
                <5>2. Head(page.path) = a
                    BY <3>4, <5>1, Tuples
                <5> QED  BY <5>2 DEF Bases, Roots, ChromePaths, Directories
            <4> QED  BY <3>1, <4>1, <4>2, ListAtPath
        <3> QED  BY <3>5, <3>6, <3>7
    <2> QED  BY <2>1, <2>2, PagesAre
<1>3. SUFFICES ASSUME NEW x \in ListingLinks(s, page, l) PROVE x \in Outputs(s)
    OBVIOUS
<1>4. \/ x \in {ContentPath(i, l) : i \in page.items}
      \/ x \in {Localized(p, l) : p \in page.near}
      \/ x \in {Localized(<<"authors", a.slug>>, l) : a \in {a \in s.authors : \E i \in page.items : i.author = a.id}}
      \/ x = Localized(<<Head(page.path)>>, l)
    BY <1>3 DEF ListingLinks
<1>5. CASE x \in {ContentPath(i, l) : i \in page.items}
    BY <1>2, <1>5, TextLinked
<1>6. CASE x \in {Localized(p, l) : p \in page.near}
    BY <1>1, <1>2, <1>6 DEF Bases
<1>7. CASE x \in {Localized(<<"authors", a.slug>>, l) : a \in {a \in s.authors : \E i \in page.items : i.author = a.id}}
    <2>1. PICK a \in s.authors : x = Localized(<<"authors", a.slug>>, l)
        BY <1>7
    <2> QED  BY <1>1, <2>1, ListsThere DEF Bases
<1> QED  BY <1>1, <1>2, <1>4, <1>5, <1>6, <1>7

\* No link of a page leads nowhere.
LEMMA PageLinked == ASSUME NEW s, Good(s), NEW p \in Outputs(s) PROVE Links(s, p) \subseteq Outputs(s)
<1>1. PICK q \in Bases(s), l \in {"zh", "en"} : p = Localized(q, l)
    BY AddressIs
<1>2. WithoutLocale(p) = q /\ LocaleOf(p) = l
    BY <1>1, AddressOf
<1>3. ChromeLinks(s, q, l) \subseteq Outputs(s)
    BY ChromeLinked
<1>4. LanguageLinks(s, p) \subseteq Outputs(s)
    <2>1. Other(l) \in {"zh", "en"}
        BY DEF Other
    <2>2. Localized(q, Other(l)) \in Outputs(s)
        BY <2>1, AcceptedCompiles, InOutputs
    <2> QED  BY <1>2, <2>2 DEF LanguageLinks
<1>5. q \in Outputs(s)
    <2>1. Localized(q, "zh") \in Outputs(s) /\ Localized(q, "zh") = q
        BY AcceptedCompiles, InOutputs, AddressOf
    <2> QED  BY <2>1
<1>6. UNION {DetailLinks(s, i, l) : i \in ItemAt(s, p)} \subseteq Outputs(s)
    BY DetailLinked DEF ItemAt
<1>7. UNION {ListingLinks(s, page, l) : page \in {c \in Collections(s) : c.path = q}} \subseteq Outputs(s)
    BY ListingLinked
<1>8. Links(s, p) = ChromeLinks(s, q, l) \union LanguageLinks(s, p)
         \union IF Notice(s, p) THEN {q}
                ELSE (UNION {DetailLinks(s, i, l) : i \in ItemAt(s, p)})
                     \union UNION {ListingLinks(s, page, l) : page \in {c \in Collections(s) : c.path = q}}
    BY <1>2, Zenon DEF Links
<1> QED  BY <1>3, <1>4, <1>5, <1>6, <1>7, <1>8

LEMMA AcceptedGatePages == ASSUME NEW s, Good(s) PROVE GatePages(s)
<1> SUFFICES ASSUME NEW p \in Outputs(s)
             PROVE  /\ Canonical(s, p) = IF p \in CanonicalPaths(s) THEN p ELSE WithoutLocale(p)
                    /\ LanguageLinks(s, p) =
                          IF \E i \in ItemAt(s, p) : Editorial(i) /\ InEnglish(p) /\ ~HasEnglish(i) THEN {}
                          ELSE {Localized(WithoutLocale(p), Other(LocaleOf(p)))}
                    /\ Links(s, p) \subseteq Outputs(s)
    BY DEF GatePages
<1>1. PICK q \in Bases(s), l \in {"zh", "en"} : p = Localized(q, l)
    BY AddressIs
<1>2. /\ WithoutLocale(p) = q /\ (InEnglish(p) <=> l = "en") /\ Localized(q, "zh") = q
      /\ ItemAt(s, p) = {i \in s.content : i.path = q}
      /\ p \in CanonicalPaths(s) <=> (l = "zh" \/ OwnEnglish(s, q))
    BY <1>1, AddressOf, CanonicalsAre
<1>3. Canonical(s, p) = IF p \in CanonicalPaths(s) THEN p ELSE WithoutLocale(p)
    BY <1>1, <1>2 DEF Canonical, OwnEnglish
<1>4. Notice(s, p) <=> \E i \in ItemAt(s, p) : Editorial(i) /\ InEnglish(p) /\ ~HasEnglish(i)
    BY DEF Notice
<1> QED  BY <1>3, <1>4, PageLinked DEF LanguageLinks

LEMMA AcceptedGateDetails == ASSUME NEW s, Good(s) PROVE GateDetails(s)
<1> SUFFICES ASSUME NEW item \in s.content
             PROVE  /\ Searchable(s, item.path) <=> item.type # "post"
                    /\ item.type = "topic" => Len(Entries(s, item)) = Cardinality(item.entries)
                    /\ item.type = "note" => <<"notes">> \in Links(s, item.path)
    BY DEF GateDetails
<1> DEFINE q == item.path
<1>1. q \in Bases(s) /\ q \notin ChromePaths
    BY AcceptedCompiles, TextsAreBases, TextsPlain DEF Bases
<1>2. /\ WithoutLocale(q) = q /\ ~InEnglish(q) /\ LocaleOf(q) = "zh"
      /\ ItemAt(s, q) = {i \in s.content : i.path = q}
    <2>1. Localized(q, "zh") = q
        BY <1>1, AddressOf
    <2> QED  BY <1>1, <2>1, AddressOf
<1>3. Searchable(s, q) <=> item.type # "post"
    <2>1. <<"about">> \in ChromePaths /\ <<"contribute">> \in ChromePaths
        BY DEF ChromePaths
    <2>2. \A i \in ItemAt(s, q) : i = item
        BY <1>2, TextsAtTwo
    <2>3. item \in ItemAt(s, q)
        BY <1>2
    <2> HIDE DEF q
    <2> QED  BY <1>1, <1>2, <2>1, <2>2, <2>3 DEF Searchable
<1>4. item.type = "topic" => Len(Entries(s, item)) = Cardinality(item.entries)
    <2>1. EntriesValid(s, item) /\ ItemPattern(item)
        BY TablesKeyed
    <2>2. \A e, f \in item.entries : e.position = f.position => e = f
        BY <2>1 DEF EntriesValid
    <2>3. IsFiniteSet(item.entries) /\ \A e \in item.entries : e.position \in Nat
        BY <2>1 DEF ItemPattern
    <2> QED  BY <2>2, <2>3, EntriesList
<1>5. <<"notes">> \in Links(s, q)
    <2>1. <<"notes">> \in ChromePaths /\ Localized(<<"notes">>, "zh") = <<"notes">>
        BY DEF ChromePaths, Localized
    <2>2. <<"notes">> \in {Localized(p, "zh") : p \in ChromePaths}
        BY <2>1
    <2>3. <<"notes">> \in ChromeLinks(s, q, "zh")
        BY <2>2 DEF ChromeLinks
    <2>4. ChromeLinks(s, q, "zh") \subseteq Links(s, q)
        BY <1>2 DEF Links
    <2> QED  BY <2>3, <2>4
<1> QED  BY <1>3, <1>4, <1>5

LEMMA AcceptedGateTwin == ASSUME NEW s, Good(s), NEW path \in Twinned(s) PROVE GateTwin(s, path)
<1> DEFINE twin == Localized(path, "en")
           editorial == {i \in ItemAt(s, path) : Editorial(i)}
<1>1. path \in Bases(s) /\ path \notin ChromePaths /\ Compiled(s)
    BY AcceptedCompiles DEF Twinned, Bases
<1>2. /\ Plain(path) /\ WithoutLocale(twin) = path /\ InEnglish(twin) /\ Localized(path, "zh") = path
      /\ ItemAt(s, twin) = {i \in s.content : i.path = path}
      /\ twin \in Sitemap(s) <=> OwnEnglish(s, path)
    BY <1>1, AddressOf, CanonicalsAre
<1>3. ItemAt(s, path) = {i \in s.content : i.path = path}
    BY <1>1, <1>2, AddressOf
<1>4. <<"about">> \in ChromePaths /\ <<"contribute">> \in ChromePaths
    BY DEF ChromePaths
<1>5. \A i \in s.content : HasEnglish(i) => Editorial(i) /\ i.type # "post"
    BY DEF HasEnglish, Editorial
<1>6. /\ Searchable(s, twin) <=> \E i \in s.content : i.path = path /\ HasEnglish(i)
      /\ Notice(s, twin) <=> \E i \in s.content : i.path = path /\ Editorial(i) /\ ~HasEnglish(i)
      /\ OwnEnglish(s, path) <=> \E i \in s.content : i.path = path /\ HasEnglish(i)
    <2> HIDE DEF twin
    <2> QED  BY <1>1, <1>2, <1>4, <1>5 DEF Searchable, Notice, OwnEnglish
<1>7. CASE editorial = {}
    <2>1. ~\E i \in s.content : i.path = path /\ Editorial(i)
        BY <1>3, <1>7
    <2>2. twin \notin Sitemap(s) /\ ~Searchable(s, twin) /\ ~Notice(s, twin)
        BY <1>2, <1>5, <1>6, <2>1
    <2> QED  BY <1>7, <2>2 DEF GateTwin
<1>8. CASE editorial # {}
    <2>1. ASSUME NEW i \in editorial, HasEnglish(i)
          PROVE  /\ Canonical(s, twin) = twin /\ Searchable(s, twin) /\ ~Notice(s, twin)
                 /\ twin \in Alternates(s, twin) \intersect Alternates(s, path)
        <3>1. i \in s.content /\ i.path = path
            BY <1>3
        <3>2. Canonical(s, twin) = twin
            BY <1>2, <2>1, <3>1 DEF Canonical
        <3>3. ~Notice(s, twin)
            BY <1>1, <1>2, <2>1, <3>1, NoNotice
        <3>4. /\ Alternates(s, twin) = {Localized(path, "zh"), twin}
              /\ Alternates(s, Localized(path, "zh")) = {Localized(path, "zh"), twin}
            BY <1>1, <1>2, <2>1, <3>1, AlternatesOf
        <3> HIDE DEF twin
        <3> QED  BY <1>2, <1>6, <2>1, <3>1, <3>2, <3>3, <3>4
    <2>2. ASSUME NEW i \in editorial, ~HasEnglish(i)
          PROVE  /\ Notice(s, twin) /\ ~Searchable(s, twin) /\ Alternates(s, twin) = {}
                 /\ path \in Links(s, twin) /\ twin \notin Sitemap(s)
        <3>1. i \in s.content /\ i.path = path /\ Editorial(i)
            BY <1>3
        <3>2. ~\E j \in s.content : j.path = path /\ HasEnglish(j)
            BY <2>2, <3>1, TextsAtTwo
        <3>3. Alternates(s, twin) = {}
            BY <1>1, <1>2, <3>2, AlternatesOf
        <3>4. Notice(s, twin)
            BY <1>6, <2>2, <3>1
        <3>5. path \in Links(s, twin)
            BY <1>2, <3>4 DEF Links
        <3> QED  BY <1>2, <1>6, <3>2, <3>3, <3>4, <3>5
    <2>3. GateTwin(s, path) <=>
            \A i \in editorial :
               IF HasEnglish(i)
               THEN /\ Canonical(s, twin) = twin /\ Searchable(s, twin) /\ ~Notice(s, twin)
                    /\ twin \in Alternates(s, twin) \intersect Alternates(s, path)
               ELSE /\ Notice(s, twin) /\ ~Searchable(s, twin) /\ Alternates(s, twin) = {}
                    /\ path \in Links(s, twin) /\ twin \notin Sitemap(s)
        BY <1>8, Zenon DEF GateTwin
    <2> HIDE DEF editorial, twin
    <2> QED  BY <2>1, <2>2, <2>3
<1> QED  BY <1>7, <1>8

LEMMA AcceptedGateLists == ASSUME NEW s, Good(s) PROVE GateLists(s)
<1> SUFFICES ASSUME NEW l \in {"zh", "en"}
             PROVE  /\ {Localized(<<"tags", t.slug>>, l) : t \in s.tags} \subseteq Links(s, Localized(<<"tags">>, l))
                    /\ {Localized(<<"notes", g.slug>>, l) : g \in GroupTable(s)}
                          \subseteq Links(s, Localized(<<"notes">>, l))
                    /\ {ContentPath(i, l) : i \in {i \in s.content : i.type = "curated_article"}}
                          \subseteq Links(s, Localized(<<"articles">>, l))
    BY DEF GateLists
<1>1. <<"tags">> \in Bases(s) /\ <<"notes">> \in Bases(s) /\ <<"articles">> \in Bases(s) /\ <<"articles">> \in ChromePaths
    BY DEF Bases, Directories, ChromePaths
<1>2. ASSUME NEW q \in Bases(s) PROVE ChromeLinks(s, q, l) \subseteq Links(s, Localized(q, l))
    <2>1. WithoutLocale(Localized(q, l)) = q /\ LocaleOf(Localized(q, l)) = l
        BY AddressOf
    <2> QED  BY <2>1 DEF Links
<1>3. {Localized(<<"tags", t.slug>>, l) : t \in s.tags} \subseteq ChromeLinks(s, <<"tags">>, l)
    BY DEF ChromeLinks
<1>4. {Localized(<<"notes", g.slug>>, l) : g \in GroupTable(s)} \subseteq ChromeLinks(s, <<"notes">>, l)
    BY DEF ChromeLinks
<1>5. ASSUME NEW i \in s.content, i.type = "curated_article"
      PROVE  ContentPath(i, l) \in Links(s, Localized(<<"articles">>, l))
    <2> DEFINE page == TypePage(s, "curated_article")
               C == {j \in s.content : j.type = "curated_article"}
               p == Localized(<<"articles">>, l)
    <2>1. page \in Collections(s)
        BY PagesAre DEF OfType1
    <2>2. page.path = <<"articles">> /\ page.items = Range(OfType(s, "curated_article"))
        BY DEF TypePage, Prefix
    <2>3. Lists(Sorted(C, Reading), C)
        BY SomeTexts, ReadingLists
    <2>4. Range(OfType(s, "curated_article")) = C
        BY <2>3, ListsAll DEF OfType
    <2>5. ContentPath(i, l) \in ListingLinks(s, page, l)
        BY <1>5, <2>2, <2>4 DEF ListingLinks
    <2>6. ~Notice(s, p)
        BY <1>1, AcceptedCompiles, AddressOf, NoNotice
    <2>7. WithoutLocale(p) = <<"articles">> /\ LocaleOf(p) = l
        BY <1>1, AddressOf
    <2> HIDE DEF page, p
    <2>8. UNION {ListingLinks(s, c, l) : c \in {c \in Collections(s) : c.path = <<"articles">>}} \subseteq Links(s, p)
        BY <2>6, <2>7 DEF Links
    <2> QED  BY <2>1, <2>2, <2>5, <2>8 DEF p
<1> QED  BY <1>1, <1>2, <1>3, <1>4, <1>5

LEMMA AcceptedGateRoutes == ASSUME NEW s, Good(s) PROVE GateRoutes(s)
<1>1. Compiled(s)
    BY AcceptedCompiles
<1>2. CanonicalPaths(s) \subseteq Outputs(s)
    <2>1. \A q \in Bases(s) : Localized(q, "zh") = q /\ Localized(q, "zh") \in Outputs(s) /\ Localized(q, "en") \in Outputs(s)
        BY <1>1, AddressOf, InOutputs
    <2>2. \A i \in s.content : i.path \in Bases(s)
        BY TextsAreBases DEF Bases
    <2> QED  BY <2>1, <2>2 DEF CanonicalPaths, Bases
<1>3. CanonicalPaths(s) \subseteq Sitemap(s)
    <2> SUFFICES ASSUME NEW p \in CanonicalPaths(s) PROVE p \in Sitemap(s)
        OBVIOUS
    <2>1. PICK q \in Bases(s), l \in {"zh", "en"} : p = Localized(q, l)
        BY <1>2, AddressIs
    <2> QED  BY <2>1, CanonicalsAre
<1>4. \A r \in Redirects(s) : r.path \notin Sitemap(s) \union Outputs(s)
    BY <1>1, OldAddress DEF Sitemap
<1> QED  BY <1>3, <1>4 DEF GateRoutes

LEMMA AcceptedGateFeed == ASSUME NEW s, Good(s) PROVE GateFeed(s)
<1> DEFINE C == {item \in s.content : item.type \in {"note", "curated_article"}}
           q == Sorted(C, Recent)
<1>1. Lists(q, C) /\ \A i, j \in 1..Cardinality(C) : i < j => q[i].last >= q[j].last
    BY SomeTexts, RecentLists
<1>2. DOMAIN q = 1..Cardinality(C)
    BY <1>1, ListsAll
<1>3. Feed(s) = q
    BY DEF Feed
<1> HIDE DEF C, q
<1> QED  BY <1>1, <1>2, <1>3 DEF GateFeed

\* As many addresses as texts, when no two texts have one.
LEMMA OneEach ==
    ASSUME NEW C, IsFiniteSet(C), NEW f, f = [x \in C |-> f[x]], \A x, y \in C : f[x] = f[y] => x = y
    PROVE  IsFiniteSet({f[x] : x \in C}) /\ Cardinality({f[x] : x \in C}) = Cardinality(C)
<1> DEFINE T == {f[x] : x \in C}
<1>1. f \in Surjection(C, T)
    BY DEF Surjection
<1>2. f \in Injection(C, T)
    BY <1>1 DEF Surjection, Injection, IsInjective
<1> QED  BY <1>1, <1>2, FS_Surjection

\* The pages that are searched and no text's.
Indexed == {Localized(<<p>>, l) : p \in {"about", "contribute"}, l \in {"zh", "en"}}

LEMMA IndexedAreFour == IsFiniteSet(Indexed) /\ Cardinality(Indexed) = 4
<1> DEFINE a == Localized(<<"about">>, "zh")  b == Localized(<<"about">>, "en")
           c == Localized(<<"contribute">>, "zh")  d == Localized(<<"contribute">>, "en")
<1>1. Indexed = {a, b, c, d}
    BY DEF Indexed
<1>2. a # b /\ a # c /\ a # d /\ b # c /\ b # d /\ c # d
    <2>1. Plain(<<"about">>) /\ Plain(<<"contribute">>) /\ <<"about">> # <<"contribute">>
        BY TuplesPlain
    <2> QED  BY <2>1, Locales
<1> HIDE DEF a, b, c, d
<1>3. IsFiniteSet({a}) /\ Cardinality({a}) = 1
    BY FS_Singleton
<1>4. IsFiniteSet({a} \cup {b}) /\ Cardinality({a} \cup {b}) = 2
    BY <1>2, <1>3, FS_AddElement
<1>5. IsFiniteSet(({a} \cup {b}) \cup {c}) /\ Cardinality(({a} \cup {b}) \cup {c}) = 3
    <2>1. c \notin {a} \cup {b}
        BY <1>2
    <2> QED  BY <1>4, <2>1, FS_AddElement
<1>6. IsFiniteSet((({a} \cup {b}) \cup {c}) \cup {d}) /\ Cardinality((({a} \cup {b}) \cup {c}) \cup {d}) = 4
    <2>1. d \notin ({a} \cup {b}) \cup {c}
        BY <1>2
    <2> QED  BY <1>5, <2>1, FS_AddElement
<1>7. Indexed = (({a} \cup {b}) \cup {c}) \cup {d}
    BY <1>1
<1> QED  BY <1>6, <1>7

\* The search indexes every text but posts, every English edition, and four pages of the site's own.
LEMMA AcceptedGateSearch == ASSUME NEW s, Good(s) PROVE GateSearch(s)
<1> DEFINE N == {i \in s.content : i.type # "post"}
           H == {i \in s.content : HasEnglish(i)}
           f == [i \in N |-> i.path]
           h == [i \in H |-> Localized(i.path, "en")]
           A == {f[i] : i \in N}
           B == {h[i] : i \in H}
           S == {p \in Outputs(s) : Searchable(s, p)}
<1>1. IsFiniteSet(N) /\ IsFiniteSet(H) /\ Cardinality(N) \in Nat /\ Cardinality(H) \in Nat
    <2>1. N \in SUBSET s.content /\ H \in SUBSET s.content
        OBVIOUS
    <2> QED  BY <2>1, SomeTexts DEF Texts
<1>2. \A i \in s.content : i.path \in Bases(s) /\ i.path \notin ChromePaths /\ Plain(i.path)
    BY AcceptedCompiles, TextsAreBases, TextsPlain DEF Bases
<1>3. <<"about">> \in ChromePaths /\ <<"contribute">> \in ChromePaths /\ ChromePaths \subseteq Bases(s)
    BY DEF ChromePaths, Bases
<1>4. \A i \in N : f[i] = i.path
    OBVIOUS
<1>5. \A i \in H : h[i] = Localized(i.path, "en")
    OBVIOUS
<1>6. IsFiniteSet(A) /\ Cardinality(A) = Cardinality(N)
    <2>1. \A i, j \in N : f[i] = f[j] => i = j
        BY <1>4, TextsAtTwo
    <2>2. f = [i \in N |-> f[i]]
        OBVIOUS
    <2> HIDE DEF f, N
    <2> QED  BY <1>1, <2>1, <2>2, OneEach
<1>7. IsFiniteSet(B) /\ Cardinality(B) = Cardinality(H)
    <2>1. \A i, j \in H : h[i] = h[j] => i = j
        BY <1>2, <1>5, LocalesDiffer, TextsAtTwo
    <2>2. h = [i \in H |-> h[i]]
        OBVIOUS
    <2> HIDE DEF h, H
    <2> QED  BY <1>1, <2>1, <2>2, OneEach
<1>8. \A x : /\ x \in A <=> \E i \in s.content : i.type # "post" /\ x = i.path
             /\ x \in B <=> \E i \in s.content : HasEnglish(i) /\ x = Localized(i.path, "en")
             /\ x \in Indexed <=> \E q \in {<<"about">>, <<"contribute">>}, l \in {"zh", "en"} : x = Localized(q, l)
    <2>1. \A x : x \in A <=> \E i \in s.content : i.type # "post" /\ x = i.path
        BY <1>4
    <2>2. \A x : x \in B <=> \E i \in s.content : HasEnglish(i) /\ x = Localized(i.path, "en")
        BY <1>5
    <2>3. \A x : x \in Indexed <=> \E q \in {<<"about">>, <<"contribute">>}, l \in {"zh", "en"} : x = Localized(q, l)
        BY DEF Indexed
    <2> HIDE DEF A, B
    <2> QED  BY <2>1, <2>2, <2>3
<1> HIDE DEF A, B, f, h
<1>9. \A i \in s.content : HasEnglish(i) => i.type # "post"
    BY DEF HasEnglish, Editorial
<1>10. ASSUME NEW q \in Bases(s), NEW l \in {"zh", "en"}
       PROVE  Localized(q, l) \in S <=> Localized(q, l) \in A \cup B \cup Indexed
    <2> DEFINE p == Localized(q, l)
    <2>1. /\ Plain(q) /\ WithoutLocale(p) = q /\ (InEnglish(p) <=> l = "en") /\ Localized(q, "zh") = q
          /\ ItemAt(s, p) = {i \in s.content : i.path = q} /\ p \in Outputs(s)
        BY AcceptedCompiles, InOutputs, AddressOf
    <2>2. p \in S <=> \/ \E i \in s.content : i.path = q /\ i.type # "post" /\ (l = "zh" \/ HasEnglish(i))
                      \/ q \in {<<"about">>, <<"contribute">>}
        <3> HIDE DEF p
        <3> QED  BY <2>1 DEF Searchable
    <2>3. p \in Indexed <=> q \in {<<"about">>, <<"contribute">>}
        <3>1. \A c \in {<<"about">>, <<"contribute">>}, k \in {"zh", "en"} : p = Localized(c, k) => c = q
            BY <1>3, <2>1, AddressOf
        <3> QED  BY <1>8, <3>1
    <2>4. CASE l = "zh"
        <3>1. p = q
            BY <2>1, <2>4
        <3>2. p \notin B
            BY <1>2, <1>8, <2>1, <3>1, Locales
        <3>3. p \in A <=> \E i \in s.content : i.path = q /\ i.type # "post"
            BY <1>8, <3>1
        <3> QED  BY <2>2, <2>3, <2>4, <3>2, <3>3
    <2>5. CASE l = "en"
        <3>1. p \notin A
            BY <1>2, <1>8, <2>1, <2>5, Locales
        <3>2. p \in B <=> \E i \in s.content : i.path = q /\ HasEnglish(i)
            BY <1>2, <1>8, <2>1, <2>5, LocalesDiffer
        <3> QED  BY <1>9, <2>2, <2>3, <2>5, <3>1, <3>2
    <2> QED  BY <2>4, <2>5
<1>11. S = A \cup B \cup Indexed
    <2>1. ASSUME NEW x \in S PROVE x \in A \cup B \cup Indexed
        <3>1. PICK q \in Bases(s), l \in {"zh", "en"} : x = Localized(q, l)
            BY AddressIs
        <3> QED  BY <1>10, <2>1, <3>1
    <2>2. ASSUME NEW x \in A \cup B \cup Indexed PROVE x \in S
        <3>1. PICK q \in Bases(s), l \in {"zh", "en"} : x = Localized(q, l)
            <4>1. CASE x \in A
                <5>1. PICK i \in s.content : x = i.path
                    BY <1>8, <4>1
                <5>2. x = Localized(i.path, "zh")
                    BY <1>2, <5>1, AddressOf
                <5> QED  BY <1>2, <5>2
            <4>2. CASE x \in B
                BY <1>2, <1>8, <4>2
            <4>3. CASE x \in Indexed
                BY <1>3, <1>8, <4>3
            <4> QED  BY <2>2, <4>1, <4>2, <4>3
        <3> QED  BY <1>10, <2>2, <3>1
    <2> HIDE DEF S
    <2> QED  BY <2>1, <2>2
<1>12. A \cap B = {} /\ (A \cup B) \cap Indexed = {}
    <2>1. ASSUME NEW x \in A, x \in B PROVE FALSE
        BY <1>2, <1>8, <2>1, Locales
    <2>2. ASSUME NEW x \in A \cup B, x \in Indexed PROVE FALSE
        <3>1. PICK q \in {<<"about">>, <<"contribute">>}, l \in {"zh", "en"} : x = Localized(q, l)
            BY <1>8, <2>2
        <3>2. WithoutLocale(x) \in ChromePaths
            BY <1>3, <3>1, AddressOf
        <3>3. PICK i \in s.content : WithoutLocale(x) = i.path
            BY <1>2, <1>8, <2>2, Locales
        <3> QED  BY <1>2, <3>2, <3>3
    <2> QED  BY <2>1, <2>2
<1> HIDE DEF S, N, H
<1>13. IsFiniteSet(A \cup B) /\ Cardinality(A \cup B) = Cardinality(N) + Cardinality(H)
    <2>1. /\ IsFiniteSet(A \cup B)
          /\ Cardinality(A \cup B) = Cardinality(A) + Cardinality(B) - Cardinality(A \cap B)
        BY <1>6, <1>7, FS_Union
    <2>2. Cardinality(A \cap B) = 0
        BY <1>12, FS_EmptySet, Zenon
    <2> QED  BY <1>1, <1>6, <1>7, <2>1, <2>2
<1>14. Cardinality(S) = Cardinality(N) + Cardinality(H) + 4
    <2>1. Cardinality((A \cup B) \cup Indexed) = Cardinality(A \cup B) + Cardinality(Indexed) - Cardinality((A \cup B) \cap Indexed)
        BY <1>13, IndexedAreFour, FS_Union
    <2>2. Cardinality(Indexed) = 4 /\ Cardinality((A \cup B) \cap Indexed) = 0
        BY <1>12, IndexedAreFour, FS_EmptySet, Zenon
    <2>3. Cardinality(S) = Cardinality((A \cup B) \cup Indexed)
        BY <1>11, Zenon
    <2> QED  BY <1>1, <1>13, <2>1, <2>2, <2>3
<1> QED  BY <1>14 DEF GateSearch, S, N, H

\* No later step throws on a snapshot that validateSnapshot took, but on too many
\* redirects or on a date that cannot be written down, and the gate finds nothing.
THEOREM AcceptedBuilds ==
    ASSUME NEW s, Good(s)
    PROVE  /\ ~PublicationThrows(s) /\ ~PagesThrow(s) /\ ~ManifestThrows(s)
           /\ RedirectsThrow(s) => TooManyRedirects(s)
           /\ GrowthThrows(s) \/ DatesThrow(s) => \E item \in s.content : item.last > LastLabel
           /\ GatePasses(s)
<1>1. ~PublicationThrows(s) /\ ~PagesThrow(s) /\ ~ManifestThrows(s) /\ (RedirectsThrow(s) => TooManyRedirects(s))
    BY AcceptedPublishes, AcceptedPages, AcceptedManifest, AcceptedRedirects
<1>2. ASSUME GrowthThrows(s) \/ DatesThrow(s) PROVE \E item \in s.content : item.last > LastLabel
    <2>1. \A item \in s.content : item.first \in Nat /\ item.last \in Nat /\ item.first <= item.last
        BY TablesKeyed DEF ItemValid, ItemPattern
    <2>2. LastLabel \in Nat /\ LastDate \in Nat /\ LastLabel <= LastDate
        BY SiteAssumption
    <2>3. CASE GrowthThrows(s)
        <3>1. PICK item \in s.content : item.first > LastLabel
            BY <2>3 DEF GrowthThrows
        <3>2. item.last > LastLabel
            BY <2>1, <2>2, <3>1
        <3> QED  BY <3>2
    <2>4. CASE DatesThrow(s)
        <3>1. PICK item \in s.content : item.last > LastDate
            BY <2>4 DEF DatesThrow
        <3>2. item.last > LastLabel
            BY <2>1, <2>2, <3>1
        <3> QED  BY <3>2
    <2> QED  BY <1>2, <2>3, <2>4
<1>3. GatePasses(s)
    BY AcceptedGatePages, AcceptedGateDetails, AcceptedGateTwin, AcceptedGateLists, AcceptedGateRoutes,
       AcceptedGateFeed, AcceptedGateSearch DEF GatePasses
<1> QED  BY <1>1, <1>2, <1>3

-----------------------------------------------------------------------------
(* What a build holds.                                                      *)

\* Every snapshot that compiles makes a site whose addresses hang together.
THEOREM CompiledHangsTogether == ASSUME NEW s, Compiled(s) PROVE HangsTogether(s)
<1>1. \A r \in RedirectRules(s) :
         r.to \in Outputs(s) /\ r.from \notin Outputs(s) /\ \A q \in RedirectRules(s) : q.from = r.from => q = r
    BY RulesAim
<1>2. \A p \in Outputs(s) : \A a \in Alternates(s, p) :
         a \in Outputs(s) /\ Alternates(s, a) = Alternates(s, p) /\ ~Notice(s, a)
    BY AlternatesAnswer
<1>3. SearchableOnce(s)
    BY SearchesOnce DEF SearchableOnce
<1> QED  BY <1>1, <1>2, <1>3, SitemapExact, ManifestCounts DEF HangsTogether

\* What a build holds it has accepted; it throws only for what the schema lets
\* through, and the gate refuses nothing.
Excused(s) == (\E item \in s.content : item.last > LastLabel) \/ TooManyRedirects(s)

CompiledBuild(r) ==
    /\ r.pc \in Holding => Good(r.data)
    /\ r.pc = "thrown" => Excused(r.data)
    /\ r.pc # "refused"

BuildsCompile == \A b \in Builds : CompiledBuild(build[b])

LEMMA CompileStep ==
    ASSUME IInv, BuildsCompile, [Next]_vars
    PROVE  BuildsCompile'
<1> USE DEF CompiledBuild, Holding, Wrote1, Wrote2, Wrote3, Wrote4
<1>1. ASSUME UNCHANGED build PROVE BuildsCompile'
    BY <1>1 DEF BuildsCompile
<1>2. ASSUME NEW b \in Builds, NEW r, build' = [build EXCEPT ![b] = r], CompiledBuild(r) PROVE BuildsCompile'
    <2>1. build' = [c \in Builds |-> IF c = b THEN r ELSE build[c]]
        BY <1>2 DEF IInv, BuildsInv
    <2> HIDE DEF CompiledBuild
    <2> QED  BY <1>2, <2>1 DEF BuildsCompile
<1>3. ASSUME NEW b \in Builds,
             \/ ReadFixture(b) \/ ReadLatest(b) \/ ReadSnapshot(b) \/ Compile(b) \/ WriteSite(b)
             \/ Gate(b) \/ Dies(b) \/ Deploy(b)
      PROVE  BuildsCompile'
    <2>1. CompiledBuild(build[b]) /\ GoodBuild(build[b])
        BY OldIsGood DEF BuildsCompile
    <2>2. DOMAIN build[b] = {"pc", "latest", "data", "dist"}
        BY <2>1 DEF GoodBuild, Shaped
    <2>3. CASE ReadFixture(b)
        <3> DEFINE data == scenario.history[1]
                   r == IF SnapshotValid(data) THEN [build[b] EXCEPT !.pc = "compile", !.data = data]
                        ELSE [build[b] EXCEPT !.pc = "unread"]
        <3>1. build' = [build EXCEPT ![b] = r]
            BY <2>3 DEF ReadFixture, Becomes
        <3>2. SnapshotValid(data) => Good(data)
            BY DEF IInv, ScenarioInv, Good
        <3> HIDE DEF data
        <3>3. CompiledBuild(r)
            BY <2>2, <3>2
        <3> QED  BY <1>2, <3>1, <3>3
    <2>4. CASE ReadLatest(b)
        <3> DEFINE r == [build[b] EXCEPT !.pc = "snapshot", !.latest = latest]
        <3>1. build' = [build EXCEPT ![b] = r]
            BY <2>4 DEF ReadLatest, Becomes
        <3>2. CompiledBuild(r)
            BY <2>2
        <3> QED  BY <1>2, <3>1, <3>2
    <2>5. CASE ReadSnapshot(b)
        <3> DEFINE want == build[b].latest
                   data == objects[want.generation]
                   r == IF Accepted(want, data) THEN [build[b] EXCEPT !.pc = "compile", !.data = data]
                        ELSE [build[b] EXCEPT !.pc = "unread"]
        <3>1. build' = [build EXCEPT ![b] = r] /\ build[b].pc = "snapshot"
            BY <2>5 DEF ReadSnapshot, Becomes
        <3>2. want # None /\ Names(want)
            BY <2>1, <3>1 DEF GoodBuild
        <3>3. Accepted(want, data) => Good(data)
            BY <3>2 DEF Accepted, Names, IInv, ScenarioInv, Good
        <3> HIDE DEF data, want
        <3>4. CompiledBuild(r)
            BY <2>2, <3>3
        <3> QED  BY <1>2, <3>1, <3>4
    <2>6. CASE Compile(b)
        <3> DEFINE s == build[b].data
                   throws == \/ PublicationThrows(s) \/ PagesThrow(s) \/ ManifestThrows(s) \/ RedirectsThrow(s)
                             \/ GrowthThrows(s) \/ DatesThrow(s)
                   r == [build[b] EXCEPT !.pc = IF throws THEN "thrown" ELSE "pages"]
        <3>1. build' = [build EXCEPT ![b] = r] /\ build[b].pc = "compile"
            BY <2>6, Zenon DEF Compile, Becomes
        <3>2. Good(s)
            BY <2>1, <3>1
        <3>3. throws => Excused(s)
            BY <3>2, AcceptedBuilds DEF Excused
        <3> HIDE DEF throws
        <3>4. CompiledBuild(r)
            <4>1. r.pc = (IF throws THEN "thrown" ELSE "pages") /\ r.data = s
                BY <2>2
            <4> HIDE DEF r, s
            <4> QED  BY <3>2, <3>3, <4>1
        <3> QED  BY <1>2, <3>1, <3>4
    <2>7. CASE WriteSite(b)
        <3>1. PICK part \in Parts, next \in Wrote1 :
                 /\ build' = [build EXCEPT ![b] = [build[b] EXCEPT !.pc = next, !.dist[part] = build[b].data]]
                 /\ build[b].pc = part
            BY <2>7 DEF WriteSite, Write, Becomes, MadeFrom, Parts
        <3> DEFINE r == [build[b] EXCEPT !.pc = next, !.dist[part] = build[b].data]
        <3>2. CompiledBuild(r)
            BY <2>1, <2>2, <3>1 DEF Parts
        <3> QED  BY <1>2, <3>1, <3>2
    <2>8. CASE Gate(b)
        <3>1. build[b].dist["pages"] = build[b].data /\ Good(build[b].data)
            BY <2>1, <2>8 DEF Gate, GoodBuild
        <3>2. GatePasses(build[b].dist["pages"])
            BY <3>1, AcceptedBuilds
        <3> DEFINE r == [build[b] EXCEPT !.pc = "checked"]
        <3>3. build' = [build EXCEPT ![b] = r]
            BY <2>8, <3>2 DEF Gate, Becomes
        <3>4. CompiledBuild(r)
            BY <2>2
        <3> QED  BY <1>2, <3>3, <3>4
    <2>9. CASE Dies(b) \/ Deploy(b)
        <3>1. CompiledBuild([Idle EXCEPT !.pc = "over"])
            BY DEF Idle
        <3> QED  BY <1>2, <2>9, <3>1 DEF Dies, Deploy
    <2> QED  BY <1>3, <2>3, <2>4, <2>5, <2>6, <2>7, <2>8, <2>9
<1> QED  BY <1>1, <1>3 DEF Next, vars, Publish, PutSnapshot, PutLatest, Damage, Ask, Answer

LEMMA BuildsAlwaysCompile == Spec => [](IInv /\ BuildsCompile)
<1>1. Init => BuildsCompile
    BY DEF Init, BuildsCompile, CompiledBuild, Idle, Holding, Wrote1, Wrote2, Wrote3, Wrote4
<1>2. IInv /\ BuildsCompile /\ [Next]_vars => BuildsCompile'
    BY CompileStep
<1> QED  BY <1>1, <1>2, Invariance, PTL DEF Spec

-----------------------------------------------------------------------------
(* The theorems about builds.                                               *)

\* A snapshot that loadSnapshot accepts is built, whatever it holds and however
\* many builds run: nothing throws on it after the first check but too many
\* redirects or a date out of range, and no assertion of the gate fails.
THEOREM AcceptedSnapshotsAlwaysBuild == Spec => []AcceptedSnapshotsBuild
<1>1. BuildsCompile => AcceptedSnapshotsBuild
    BY DEF BuildsCompile, CompiledBuild, Excused, AcceptedSnapshotsBuild
<1> QED  BY <1>1, BuildsAlwaysCompile, PTL

\* Whatever is published and built, the addresses of a site that was put out hang
\* together: no redirect misses or hides a page, no language is named in vain, and
\* the sitemap, the search and the statistics know every page once.
THEOREM SitesHangTogether == Spec => []SiteHangsTogether
<1>1. IInv /\ BuildsCompile => SiteHangsTogether
    <2> SUFFICES ASSUME IInv, BuildsCompile, NEW b \in Builds, build[b].pc = "gate"
                 PROVE  HangsTogether(build[b].dist["pages"])
        BY DEF SiteHangsTogether
    <2>1. build[b].dist["pages"] = build[b].data
        BY OldIsGood DEF GoodBuild, Wrote1, Wrote2, Wrote3, Wrote4
    <2>2. Compiled(build[b].data)
        BY AcceptedCompiles DEF BuildsCompile, CompiledBuild, Holding, Wrote1, Wrote2, Wrote3, Wrote4
    <2> QED  BY <2>1, <2>2, CompiledHangsTogether
<1> QED  BY <1>1, BuildsAlwaysCompile, PTL

=============================================================================
