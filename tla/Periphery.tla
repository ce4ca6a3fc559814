----------------------------- MODULE Periphery ------------------------------
(***************************************************************************)
(* The parts around the CMS.  They share no state with one another: a      *)
(* behaviour is a behaviour of one of them, whichever.                     *)
(***************************************************************************)
EXTENDS Integers, Sequences, FiniteSets

\* The search of the public site (ReaderSearch).
CONSTANTS HitsOf, HitsPerPage, MaxEpoch, MaxLoads

\* Its article explorer (ReaderExplorer).
CONSTANTS Rows, RowsPerPage, MaxPage, TopicLabels, TagLabels, Visited, Words, MaxHistory, MaxFormChanges,
          TagsAtFirst, TagsMore

\* The rest of the reader's page (ReaderMotion, ReaderTheme, ReaderChrome, ReaderStats, ReaderCharts).
CONSTANTS Options, MaxClicks, Heights, NotesPerPage, MaxCopies, Ranges, First, SamplesOf, Tabs, MaxRequests, Inputs

\* The development services (DevServices) and the import of the old site (LegacyImport).
CONSTANTS MaxGen, MaxStarts, Sources, Databases, TagSlugs, Owned, Unsafe, BytesOf, Now, MaxRuns

\* The image library (AssetLibrary) and an image put into a text (InsertImage).
CONSTANTS LibraryImages, Damaged, Held, AssetsPerPage, MaxRows, MaxForeign, Bodies, MaxTextChanges, MaxOpens

\* The preview of a draft (BlogPreview) and its relations in the form (DraftForm).
CONSTANTS Drafts, Authors, MaxVersion, Sizes, Own, Pages, RelationLimit, LinkLimit, Urls, MaxRegroups

\* The editor's focus mode (WritingFocus) and the content list (ContentList).
CONSTANTS Beside, Portals, MaxPageChanges, Types, Addresses, MaxGiven

VARIABLES
    part,     \* which part this behaviour is of
    state     \* the state of that part

-----------------------------------------------------------------------------
(* The parts.  A constant of the same name needs no mention.                *)

Search   == INSTANCE ReaderSearch WITH box <- state, PageOf <- HitsPerPage, Found <- HitsOf
Explorer == INSTANCE ReaderExplorer WITH box <- state, PageOf <- RowsPerPage, MaxChanges <- MaxFormChanges
Motion   == INSTANCE ReaderMotion WITH box <- state
Theme    == INSTANCE ReaderTheme WITH box <- state
Chrome   == INSTANCE ReaderChrome WITH box <- state, PageOf <- NotesPerPage
Stats    == INSTANCE ReaderStats WITH box <- state
Charts   == INSTANCE ReaderCharts WITH box <- state
Dev      == INSTANCE DevServices WITH box <- state
Legacy   == INSTANCE LegacyImport WITH box <- state, SlugOf <- TagSlugs
Library  == INSTANCE AssetLibrary WITH box <- state, PageOf <- AssetsPerPage, Images <- LibraryImages
Insert   == INSTANCE InsertImage WITH box <- state, MaxChanges <- MaxTextChanges, Texts <- Bodies
Preview  == INSTANCE BlogPreview WITH box <- state
Form     == INSTANCE DraftForm WITH box <- state, Limit <- RelationLimit
Focus    == INSTANCE WritingFocus WITH box <- state, MaxChanges <- MaxPageChanges
List     == INSTANCE ContentList WITH box <- state, Visited <- Addresses

\* What the proofs assume of the constants.
IsList(s) == s \in Seq({s[i] : i \in DOMAIN s})

ASSUME SearchAssumption ==
    /\ HitsPerPage \in Nat \ {0}
    /\ "" \notin DOMAIN HitsOf /\ \A text \in DOMAIN HitsOf : HitsOf[text] \in Nat

\* Every page of all the articles can be addressed, and titles and names say something.
ASSUME ExplorerAssumption ==
    /\ RowsPerPage \in Nat \ {0} /\ MaxPage \in Nat \ {0}
    /\ IsFiniteSet(Rows) /\ Cardinality(Rows) <= MaxPage * RowsPerPage
    /\ \A labels \in {TopicLabels, TagLabels} : Explorer!NoText \notin DOMAIN labels
    /\ \A address \in Visited : address.page \in Nat

ASSUME MotionAssumption == Options \in Nat \ {0}

\* A list of notes has as many heights at every width.
ASSUME ChromeAssumption ==
    /\ NotesPerPage \in Nat \ {0}
    /\ Heights \in Seq(Seq(Nat)) /\ Heights # <<>>
    /\ \A width \in DOMAIN Heights : Len(Heights[width]) = Len(Heights[1])

\* Samples follow one another, and what was published stays: counts never fall.
ASSUME ChartsAssumption ==
    \A input \in Inputs :
        \/ input.of = "scale" /\ input.total \in Nat
        \/ /\ input.of = "nearest" /\ input.xs \in Seq(Int) /\ input.x \in Int
           /\ \A i, j \in DOMAIN input.xs : i < j => input.xs[i] < input.xs[j]
        \/ input.of = "tooltip" /\ input.x \in Int /\ input.width \in Nat /\ input.size \in Nat /\ input.touch \in BOOLEAN
        \/ /\ input.of = "growth" /\ input.points \in Seq([date : Int, total : Nat]) /\ input.points # <<>>
           /\ \A i, j \in DOMAIN input.points : i < j =>
                  input.points[i].date < input.points[j].date /\ input.points[i].total <= input.points[j].total
        \/ input.of = "traffic" /\ input.daily \in Seq(Int)
        \/ /\ input.of = "answer" /\ input.answer.asked \in Nat \ {0} /\ input.answer.start \in Int
           /\ input.answer.daily \in Seq([date : Int, pageLoads : Int, visits : Int])

ASSUME StatsAssumption ==
    /\ First \in Ranges /\ "none" \notin Ranges /\ Tabs \in Nat \ {0}
    /\ \A range \in Ranges, metric \in Stats!Metrics : SamplesOf[range][metric] \in Nat

\* An image is recorded once, with its own bytes stored.
ASSUME LibraryAssumption ==
    /\ AssetsPerPage \in Nat \ {0}
    /\ Held \in Seq(Library!Range(Held) \ Damaged) /\ \A i, j \in DOMAIN Held : Held[i] = Held[j] => i = j

\* A checkout is made of lists and its topics have names; no address is twice among
\* what a database has published before (00002_editorial.sql:108).
ASSUME ImportAssumption ==
    /\ \A src \in Sources :
          /\ IsList(src.articles) /\ IsList(src.topics) /\ IsList(src.notes)
          /\ \A x \in Legacy!ToSet(src.articles) \union Legacy!ToSet(src.topics) \union Legacy!ToSet(src.notes) :
                IsList(x.images)
          /\ \A t \in Legacy!ToSet(src.topics) : IsList(t.reading) /\ t.slug # Legacy!NoText
    /\ \A db \in Databases :
          /\ DOMAIN db = {"contents", "groups", "tags", "assets", "deleted"}
          /\ IsList(db.contents) /\ Legacy!Apart(db.contents, Len(db.contents))

\* A draft's title is not by chance the one that stands for a missing title.
ASSUME PreviewAssumption ==
    /\ \A d \in Drafts : Preview!Saves(d) /\ "untitled" \notin {d.title, d.titleEn}
    /\ Sizes \subseteq Nat

\* Something can be related and linked.
ASSUME FormAssumption == RelationLimit \in Nat /\ LinkLimit \in Nat

\* The places of the page are told apart.
ASSUME FocusAssumption == Beside \intersect Focus!Editors = {}

\* "false" is said of the archive; no state, language, rating or group is called that.
ASSUME ListAssumption ==
    \A given \in Addresses, k \in List!Advanced \ {"archived"} : k \in DOMAIN given => given[k] # "false"

Init ==
    \/ part = "search" /\ Search!Init
    \/ part = "explorer" /\ Explorer!Init
    \/ part = "motion" /\ Motion!Init
    \/ part = "theme" /\ Theme!Init
    \/ part = "chrome" /\ Chrome!Init
    \/ part = "stats" /\ Stats!Init
    \/ part = "charts" /\ Charts!Init
    \/ part = "dev" /\ Dev!Init
    \/ part = "legacy" /\ Legacy!Init
    \/ part = "library" /\ Library!Init
    \/ part = "insert" /\ Insert!Init
    \/ part = "preview" /\ Preview!Init
    \/ part = "form" /\ Form!Init
    \/ part = "focus" /\ Focus!Init
    \/ part = "list" /\ List!Init

Step ==
    \/ part = "search" /\ Search!Next
    \/ part = "explorer" /\ Explorer!Next
    \/ part = "motion" /\ Motion!Next
    \/ part = "theme" /\ Theme!Next
    \/ part = "chrome" /\ Chrome!Next
    \/ part = "stats" /\ Stats!Next
    \/ part = "charts" /\ Charts!Next
    \/ part = "dev" /\ Dev!Next
    \/ part = "legacy" /\ Legacy!Next
    \/ part = "library" /\ Library!Next
    \/ part = "insert" /\ Insert!Next
    \/ part = "preview" /\ Preview!Next
    \/ part = "form" /\ Form!Next
    \/ part = "focus" /\ Focus!Next
    \/ part = "list" /\ List!Next

Next == Step /\ UNCHANGED part

Spec == Init /\ [][Next]_<<part, state>>

-----------------------------------------------------------------------------
(* Properties: those of the parts, whose modules say what they are about.   *)

\* The search of the site lists the answer to the text last searched, whatever
\* was in flight (search.ts:76-155; ReaderSearch).
SearchShowsOneAnswer == part = "search" => Search!ListIsOneAnswer

\* The explorer shows its filters, and what its address says where labels leave no
\* doubt, however the reader came there (explorer.ts:28-409; ReaderExplorer).
ExplorerFollowsItsAddress == part = "explorer" => Explorer!AddressTellsAll

\* What animations, transitions, answers and pointers leave behind is what was chosen
\* last: the regions and the focus, the theme, the range and metric of the statistics
\* (motion.ts, theme.ts, readership.ts, chart.ts; ReaderMotion, ReaderTheme, ReaderStats).
PageSettlesAsChosen ==
    /\ part = "motion" => Motion!RegionsFollowTheirState
    /\ part = "theme" => Theme!ThemeIsTheLastChosen
    /\ part = "stats" => Stats!ShowsWhatWasChosen

\* The page does not jump when notes are turned or something is copied, and the charts
\* find and draw what the data say (chrome.ts, note-pagination.ts, chart.ts, content.ts,
\* readership.ts; ReaderChrome, ReaderCharts).
LayoutAndChartsHold ==
    /\ part = "chrome" => Chrome!NothingJumps
    /\ part = "charts" => Charts!ChartsAreTrue

\* The development site serves what was prepared last and nothing outlives the
\* supervisor (dev-processes.mjs, dev-snapshot-watcher.mjs; DevServices).
DevSiteIsPrepared == part = "dev" => Dev!SiteIsWhatWasPrepared

\* An import of the old site, however often it was applied, adds exactly the
\* checkout and harms nothing (plan.mjs, import.go; LegacyImport).
ImportAddsTheCheckout == part = "legacy" => Legacy!ImportIsTheCheckout

\* The image library loses and doubles nothing, in the store, in the database and
\* in the list of the Admin (assets.go, file.go, browser.tsx; AssetLibrary).
LibraryLosesNothing == part = "library" => Library!LibraryIsWhole

\* An image goes where the author opened the library, into the text seen there,
\* or nowhere (editor-assets.tsx, markdown-editor.tsx; InsertImage).
ImagesGoWhereSeen == [][part = "insert" => Insert!InsertsWhereSeen(state, state')]_<<part, state>>

\* The site shows every saved draft the Admin posts to it (blog-preview.ts,
\* preview.ts, editor.tsx; BlogPreview).
PreviewShowsTheDraft == part = "preview" => Preview!PreviewIsShown

\* The relations of a draft stay such that the server takes them, and whatever is
\* dragged, moved or typed takes nothing else with it (selectors.tsx,
\* topic-order.ts, form.tsx, note-group.tsx; DraftForm).
FormKeepsItsRelations == [][part = "form" => Form!KeepsRelations(state, state')]_<<part, state>>

\* The editor's focus mode leaves nothing else live, and leaves nothing behind; the
\* filters of the content list work only where they are seen (use-writing-focus.ts,
\* list-filters.tsx; WritingFocus, ContentList).
EditorAndListAreClear ==
    [][/\ part = "focus" => Focus!OnlyTheEditorIsLive' /\ Focus!LeavesAsFound(state, state')
       /\ part = "list" => List!FiltersAreSeen']_<<part, state>>
=============================================================================
