----------------------------- MODULE PublicSite -----------------------------
(***************************************************************************)
(* What the public site's build makes of a published snapshot              *)
(* (scripts/snapshot.mjs, apps/web/src/lib/publication, the page           *)
(* components, scripts/stats-manifest.ts), and what the artifact gate      *)
(* asserts of it (scripts/check-public-build.mjs).  Operators only;        *)
(* SiteBuild runs them.                                                    *)
(*                                                                         *)
(* Abstractions: a path is the sequence of its segments; a title is a      *)
(* number that orders as the title does; the wording and styling of a page *)
(* are left out, so a page is where it claims to be canonical, who may     *)
(* index it, where it links and whether it shows the authored text.        *)
(***************************************************************************)
EXTENDS Naturals, Sequences, FiniteSets, FiniteSetsExt, SequencesExt, Listing

CONSTANTS
    MaxItems,        \* how many texts a snapshot may hold
    PageSize,        \* pageSize
    PageNames,       \* the number of each page of a list, as its address writes it
    RedirectLimit,   \* staticRedirectLimit
    LastLabel,       \* the last day of the year 9999, the last that growth points can be dated
    LastDate         \* the last instant a JavaScript Date holds

\* Lists are cut into pages, and there is a number for each; what can be dated at
\* all is later than what the growth points can be dated.
ASSUME SiteAssumption ==
    /\ PageSize \in Nat \ {0} /\ MaxItems \in Nat /\ MaxItems <= PageSize * Len(PageNames)
    /\ PageNames \in Seq(STRING) /\ IsInjective(PageNames)
    /\ LastLabel \in Nat /\ LastDate \in Nat /\ LastLabel <= LastDate

Types  == {"post", "note", "curated_article", "topic"}
Prefix == [post |-> "posts", curated_article |-> "articles", topic |-> "topics"]

\* localized; a path handed to it has no locale yet.
Localized(path, locale) == IF locale = "en" THEN <<"en">> \o path ELSE path
InEnglish(path)         == path # <<>> /\ Head(path) = "en"
WithoutLocale(path)     == IF InEnglish(path) THEN Tail(path) ELSE path
Other(locale)           == IF locale = "zh" THEN "en" ELSE "zh"

ChromePaths == {<<>>} \union
    {<<p>> : p \in {"articles", "topics", "notes", "about", "contribute", "legal", "stats", "search"}}

\* Pages of the site's own besides the chrome: the directories of tags and authors.
Directories == {<<"tags">>, <<"authors">>}

-----------------------------------------------------------------------------
(* validateSnapshot.  AJV has checked each record's shape before; an item's *)
(* "sound" stands for the checks of its texts, links and dates, and its     *)
(* "english" is "none", "sound" or "unsound" accordingly.                   *)

\* What the schema says of a route's path: two segments, or three of a note's.
RoutePattern(path) ==
    \/ path = <<path[1], path[2]>> /\ path[1] \in {"posts", "articles", "topics"}
    \/ path = <<path[1], path[2], path[3]>> /\ path[1] = "notes"

\* And of a text.
ItemPattern(item) ==
    /\ item.type \in Types /\ item.featured \in BOOLEAN
    /\ {item.id, item.title, item.order, item.first, item.last, item.recommended} \subseteq Nat
    /\ IsFiniteSet(item.entries) /\ \A e \in item.entries : e.position \in Nat

WellFormed(s) ==
    /\ \A rows \in {s.content, s.authors, s.tags, s.assets, s.groups, s.routes} : IsFiniteSet(rows)
    /\ Cardinality(s.content) <= MaxItems
    /\ \A item \in s.content : ItemPattern(item)
    /\ \A r \in s.routes : RoutePattern(r.path)

Ids(rows)         == {row.id : row \in rows}
Slugs(rows)       == {row.slug : row \in rows}
UniqueIds(rows)   == Cardinality(Ids(rows)) = Cardinality(rows)
UniqueSlugs(rows) == Cardinality(Slugs(rows)) = Cardinality(rows)

PathOf(item) == IF item.type = "note" THEN <<"notes", item.group.slug, item.slug>>
                ELSE <<Prefix[item.type], item.slug>>

Canonicals(s, id) == {r \in s.routes : r.kind = "canonical" /\ r.content = id}
Redirects(s)      == {r \in s.routes : r.kind = "redirect"}
Notes(s)          == {item \in s.content : item.type = "note"}
ItemsOf(s, ids)   == {item \in s.content : item.id \in ids}

RoutesValid(s) ==
    /\ \A r, q \in s.routes : r.path = q.path => r = q
    /\ \A r \in s.routes : r.content \in Ids(s.content)
    /\ \A item \in s.content : Cardinality(Canonicals(s, item.id)) <= 1

\* Version 1 has the group in each note, later ones in a table of their own.
GroupSlugs(s) == IF s.version = 1 THEN {n.group.slug : n \in Notes(s)} ELSE Slugs(s.groups)
GroupsValid(s) ==
    IF s.version = 1 THEN \A n, k \in Notes(s) : n.group.slug = k.group.slug => n.group = k.group
    ELSE /\ UniqueIds(s.groups) /\ UniqueSlugs(s.groups)
         /\ \A n \in Notes(s) : n.group.slug \in Slugs(s.groups)

ItemValid(s, item) ==
    /\ item.type = "topic" => item.recommended <= Cardinality(item.entries)
    /\ item.path = PathOf(item) /\ {r.path : r \in Canonicals(s, item.id)} = {item.path}
    /\ item.author \in Ids(s.authors)
    /\ item.first <= item.last
    /\ item.sound
    /\ item.cover = 0 \/ item.cover \in Ids(s.assets)
    /\ item.tags \subseteq Ids(s.tags)

EntriesValid(s, item) ==
    \A e \in item.entries :
        /\ \A f \in item.entries : e.position = f.position \/ e.target = f.target => e = f
        /\ e.target # item.id
        /\ \E t \in s.content : t.id = e.target /\ t.type = "curated_article"

EnglishValid(s, item) == s.version = 3 => item.english \in {"none", "sound"}

\* What nothing refers to has no place in a snapshot.
\* (mutation: groups without a note are let through)
NothingUnusedButGroups(s) ==
    /\ Ids(s.authors) = {item.author : item \in s.content}
    /\ Ids(s.assets) = {item.cover : item \in s.content} \ {0}
    /\ Ids(s.tags) = UNION {item.tags : item \in s.content}

NothingUnused(s) ==
    /\ Ids(s.authors) = {item.author : item \in s.content}
    /\ Ids(s.assets) = {item.cover : item \in s.content} \ {0}
    /\ Ids(s.tags) = UNION {item.tags : item \in s.content}
    /\ GroupSlugs(s) = {n.group.slug : n \in Notes(s)}

SnapshotValid(s) ==
    /\ UniqueIds(s.authors) /\ UniqueSlugs(s.authors) /\ UniqueIds(s.tags) /\ UniqueSlugs(s.tags)
    /\ UniqueIds(s.assets) /\ UniqueIds(s.content)
    /\ RoutesValid(s) /\ GroupsValid(s)
    /\ \A item \in s.content : ItemValid(s, item) /\ EntriesValid(s, item) /\ EnglishValid(s, item)
    /\ NothingUnused(s)

-----------------------------------------------------------------------------
(* normalizeSnapshot and createPublication: the maps, and when they throw.  *)

GroupTable(s) == IF s.version = 1 THEN {n.group : n \in Notes(s)}
                 ELSE {[slug |-> g.slug, order |-> g.order] : g \in s.groups}

NotesOf(s, slug) == {n \in Notes(s) : n.group.slug = slug}

PublicationThrows(s) ==
    \/ \E n, k \in Notes(s) : s.version = 1 /\ n.group.slug = k.group.slug /\ n.group # k.group
    \/ \E rows \in {s.content, s.authors, s.assets, s.tags} : ~UniqueIds(rows)
    \/ ~UniqueSlugs(s.authors) \/ ~UniqueSlugs(s.tags) \/ ~UniqueSlugs(GroupTable(s))
    \/ \E r \in s.routes : \/ ItemsOf(s, {r.content}) = {}
                           \/ \E q \in s.routes : r # q /\ r.path = q.path
                           \/ r.kind = "canonical" /\ (\/ Cardinality(Canonicals(s, r.content)) > 1
                                                       \/ \E item \in ItemsOf(s, {r.content}) : r.path # item.path)
    \/ \E item \in s.content :
          \/ item.author \notin Ids(s.authors) \/ Canonicals(s, item.id) = {}
          \/ item.cover # 0 /\ item.cover \notin Ids(s.assets)
          \/ ~(item.tags \subseteq Ids(s.tags))
          \/ item.type = "note" /\ item.group.slug \notin Slugs(GroupTable(s))
    \/ \E g \in GroupTable(s) : NotesOf(s, g.slug) = {}
    \/ \E t \in s.content :
          /\ t.type = "topic"
          /\ \/ t.recommended > Cardinality(t.entries)
             \/ \E e \in t.entries :
                   \/ e.target = t.id
                   \/ \E f \in t.entries : e # f /\ (e.position = f.position \/ e.target = f.target)
                   \/ \A a \in ItemsOf(s, {e.target}) : a.type # "curated_article"

\* recent and featuredRecent: the newest first, an id decides between equals.
Recent(a, b)         == a.last > b.last \/ (a.last = b.last /\ a.id > b.id)
FeaturedRecent(a, b) == IF a.featured # b.featured THEN a.featured ELSE Recent(a, b)

\* ordered: the reading order of notes and of topics.
Reading(a, b) ==
    IF a.type = b.type /\ a.type \in {"note", "topic"}
    THEN \/ a.order < b.order
         \/ a.order = b.order /\ (a.title < b.title \/ (a.title = b.title /\ a.id < b.id))
    ELSE FeaturedRecent(a, b)

OfType(s, type) == Sorted({item \in s.content : item.type = type}, Reading)
Feed(s)         == Sorted({item \in s.content : item.type \in {"note", "curated_article"}}, Recent)
Entries(s, t)   == LET sorted == Sorted(t.entries, LAMBDA e, f : e.position < f.position)
                   IN  [i \in DOMAIN sorted |-> sorted[i].target]

FirstFour(seq)  == {seq[i] : i \in DOMAIN seq \intersect 1..4}
HomeContent(s)  == FirstFour(Sorted(Notes(s), Recent))
                   \union FirstFour(OfType(s, "topic"))
                   \union FirstFour(Sorted({i \in s.content : i.type = "curated_article"}, Recent))

-----------------------------------------------------------------------------
(* The pages: publicPages, redirects, the manifest of the statistics.       *)

\* collectionPages.
Paged(path, items) ==
    LET total == IF items = <<>> THEN 1 ELSE (Len(items) + PageSize - 1) \div PageSize
        At(i) == IF i = 1 THEN path ELSE path \o <<"page", PageNames[i]>>
    IN  {[path |-> At(i), kind |-> "collection",
          items |-> {items[j] : j \in {j \in DOMAIN items : (j - 1) \div PageSize = i - 1}},
          near |-> {At(j) : j \in {i - 1, i + 1} \intersect 1..total}] : i \in 1..total}

Collections(s) ==
    {[path |-> <<Prefix[type]>>, kind |-> "collection", items |-> Range(OfType(s, type)), near |-> {}] :
        type \in {"curated_article", "topic"}}
    \union Paged(<<"posts">>, OfType(s, "post"))
    \union (UNION {Paged(<<"notes", g.slug>>, Sorted(NotesOf(s, g.slug), Reading)) : g \in GroupTable(s)})
    \union (UNION {Paged(<<"authors", a.slug>>,
                         Sorted({i \in s.content : i.author = a.id}, FeaturedRecent)) : a \in s.authors})
    \union (UNION {Paged(<<"tags", t.slug>>,
                         Sorted({i \in s.content : t.id \in i.tags}, FeaturedRecent)) : t \in s.tags})

Details(s) == {[path |-> item.path, kind |-> "detail", items |-> {item}, near |-> {}] : item \in s.content}

PublicPages(s) == Details(s) \union Collections(s)
PagePaths(s)   == {page.path : page \in PublicPages(s)}

\* Every page but the chrome's own has an English twin.
Twinned(s) == (PagePaths(s) \union Directories) \ ChromePaths

Reserved == {<<p>> : p \in {"about", "contribute", "legal", "stats", "search", "notes", "tags", "authors", "404"}}
            \union {<<>>} \union {Localized(p, "en") : p \in ChromePaths}

PagesThrow(s) ==
    \/ \E page \in PublicPages(s) : page.path \in Reserved
    \/ \E page, other \in PublicPages(s) : page # other /\ page.path = other.path
    \/ \E p \in Twinned(s) : Localized(p, "en") \in Reserved \union PagePaths(s)
    \/ \E r \in Redirects(s) : r.path \in Reserved \union PagePaths(s)
                                        \union {Localized(p, "en") : p \in Twinned(s)}

\* redirects: the old address of an article or topic moves in both languages.
Bilingual(s, id) == s.version = 3 /\ \E i \in ItemsOf(s, {id}) : i.type \in {"curated_article", "topic"}

RedirectRules(s) ==
    UNION {LET target == CHOOSE i \in s.content : i.id = r.content IN
           {[from |-> r.path, to |-> target.path]}
           \union IF Bilingual(s, r.content)
                  THEN {[from |-> Localized(r.path, "en"), to |-> Localized(target.path, "en")]}
                  ELSE {} : r \in Redirects(s)}

TooManyRedirects(s) ==
    Cardinality(Redirects(s)) + Cardinality({r \in Redirects(s) : Bilingual(s, r.content)}) > RedirectLimit

RedirectsThrow(s) ==
    \/ TooManyRedirects(s)
    \/ \E r \in Redirects(s) : \A c \in Canonicals(s, r.content) : \A i \in ItemsOf(s, {r.content}) :
          c.path # i.path \/ r.path = i.path

\* buildStatsManifest: under which page the views of a path are counted.
ManifestRows(s) ==
    {[path |-> Localized(p, l), target |-> Localized(p, l)] : p \in ChromePaths, l \in {"zh", "en"}}
    \union {[path |-> Localized(p, l), target |-> p] : p \in Directories, l \in {"zh", "en"}}
    \union {[path |-> p, target |-> p] : p \in PagePaths(s)}
    \union {[path |-> Localized(p, "en"), target |-> p] : p \in PagePaths(s) \ ChromePaths}
    \union UNION {{[path |-> r.path, target |-> i.path] : i \in ItemsOf(s, {r.content})} : r \in Redirects(s)}

ManifestThrows(s) == \E m, n \in ManifestRows(s) : m.path = n.path /\ m.target # n.target

\* contentStatistics dates each text by its first publication.
GrowthThrows(s) == \E item \in s.content : item.type # "post" /\ item.first > LastLabel

\* Every page of a text shows its dates.
DatesThrow(s) == \E item \in s.content : item.last > LastDate

-----------------------------------------------------------------------------
(* The rendered site.                                                       *)

Editorial(item)  == item.type \in {"curated_article", "topic"}
HasEnglish(item) == Editorial(item) /\ item.english # "none"

\* contentPath: a text without an English edition is linked where it is readable.
ContentPath(item, locale) ==
    IF locale = "en" /\ Editorial(item) /\ ~HasEnglish(item) THEN item.path
    ELSE Localized(item.path, locale)

Outputs(s) == {Localized(p, l) : p \in ChromePaths \union Directories \union PagePaths(s), l \in {"zh", "en"}}

LocaleOf(path)    == IF InEnglish(path) THEN "en" ELSE "zh"
ItemAt(s, path)   == {i \in s.content : i.path = WithoutLocale(path)}

\* The English address of an article or topic without an English edition is a notice.
Notice(s, path) == \E i \in ItemAt(s, path) : InEnglish(path) /\ Editorial(i) /\ ~HasEnglish(i)

Canonical(s, path) ==
    IF InEnglish(path) /\ (\/ WithoutLocale(path) \in ChromePaths
                           \/ \E i \in ItemAt(s, path) : HasEnglish(i))
    THEN path ELSE WithoutLocale(path)

\* Which pages the search indexes; tags and lists are not among them.
Searchable(s, path) ==
    \/ \E i \in ItemAt(s, path) : i.type # "post" /\ (~InEnglish(path) \/ HasEnglish(i))
    \/ WithoutLocale(path) \in {<<"about">>, <<"contribute">>}

Alternates(s, path) ==
    IF \/ WithoutLocale(path) \in ChromePaths
       \/ \E i \in ItemAt(s, path) : HasEnglish(i)
    THEN {Localized(WithoutLocale(path), l) : l \in {"zh", "en"}} ELSE {}

\* The language switch: none on a notice.
LanguageLinks(s, path) ==
    IF Notice(s, path) THEN {} ELSE {Localized(WithoutLocale(path), Other(LocaleOf(path)))}

\* The reading order within a group: the note before and the one after.
Neighbours(s, item) ==
    LET notes == Sorted(NotesOf(s, item.group.slug), Reading)
    IN  {notes[i].path : i \in {i \in DOMAIN notes : \E j \in {i - 1, i + 1} \intersect DOMAIN notes : notes[j] = item}}

DetailLinks(s, item, l) ==
    IF item.type = "topic" THEN {ContentPath(i, l) : i \in ItemsOf(s, Range(Entries(s, item)))}
    ELSE {Localized(<<"authors", a.slug>>, l) : a \in {a \in s.authors : a.id = item.author}}
         \union {Localized(<<"tags", t.slug>>, l) : t \in {t \in s.tags : t.id \in item.tags}}
         \union {ContentPath(t, l) : t \in {t \in s.content : \E e \in t.entries : e.target = item.id}}
         \union IF item.type # "note" THEN {Localized(<<Prefix[item.type]>>, l)}
                ELSE {Localized(p, l) : p \in {<<"notes">>, <<"notes", item.group.slug>>} \union Neighbours(s, item)}

ListingLinks(s, page, l) ==
    {ContentPath(i, l) : i \in page.items} \union {Localized(p, l) : p \in page.near}
    \union {Localized(<<"authors", a.slug>>, l) : a \in {a \in s.authors : \E i \in page.items : i.author = a.id}}
    \union {Localized(<<Head(page.path)>>, l)}

ChromeLinks(s, path, l) ==
    {Localized(p, l) : p \in ChromePaths}
    \union (IF path = <<>> THEN {ContentPath(i, l) : i \in HomeContent(s)} ELSE {})
    \union (IF path = <<"notes">> THEN {Localized(<<"notes", g.slug>>, l) : g \in GroupTable(s)} ELSE {})
    \union (IF path = <<"tags">> THEN {Localized(<<"tags", t.slug>>, l) : t \in s.tags} ELSE {})
    \union (IF path = <<"authors">> THEN {Localized(<<"authors", a.slug>>, l) : a \in s.authors} ELSE {})

Links(s, path) ==
    LET base == WithoutLocale(path)  l == LocaleOf(path) IN
    ChromeLinks(s, base, l) \union LanguageLinks(s, path)
    \union IF Notice(s, path) THEN {base}
           ELSE (UNION {DetailLinks(s, i, l) : i \in ItemAt(s, path)})
                \union UNION {ListingLinks(s, page, l) : page \in {c \in Collections(s) : c.path = base}}

\* The filter of the sitemap.
\* (mutation: every English page is listed)
SitemapOfAll(s) == Outputs(s)

Sitemap(s) ==
    {p \in Outputs(s) : \/ ~InEnglish(p)
                        \/ WithoutLocale(p) \in ChromePaths
                        \/ \E i \in s.content : HasEnglish(i) /\ p = Localized(i.path, "en")}

-----------------------------------------------------------------------------
(* What check-public-build.mjs asserts of the artifacts.                    *)

CanonicalPaths(s) ==
    ChromePaths \union Directories \union PagePaths(s) \union {Localized(p, "en") : p \in ChromePaths}
    \union {Localized(i.path, "en") : i \in {i \in s.content : HasEnglish(i)}}

GatePages(s) ==
    \A p \in Outputs(s) :
        /\ Canonical(s, p) = IF p \in CanonicalPaths(s) THEN p ELSE WithoutLocale(p)
        /\ LanguageLinks(s, p) =
              IF \E i \in ItemAt(s, p) : Editorial(i) /\ InEnglish(p) /\ ~HasEnglish(i) THEN {}
              ELSE {Localized(WithoutLocale(p), Other(LocaleOf(p)))}
        /\ Links(s, p) \subseteq Outputs(s)

GateDetails(s) ==
    \A item \in s.content :
        /\ Searchable(s, item.path) <=> item.type # "post"
        /\ item.type = "topic" => Len(Entries(s, item)) = Cardinality(item.entries)
        /\ item.type = "note" => <<"notes">> \in Links(s, item.path)

GateTwin(s, path) ==
    LET twin == Localized(path, "en")  editorial == {i \in ItemAt(s, path) : Editorial(i)} IN
    IF editorial = {} THEN twin \notin Sitemap(s) /\ ~Searchable(s, twin) /\ ~Notice(s, twin)
    ELSE \A i \in editorial :
           IF HasEnglish(i)
           THEN /\ Canonical(s, twin) = twin /\ Searchable(s, twin) /\ ~Notice(s, twin)
                /\ twin \in Alternates(s, twin) \intersect Alternates(s, path)
           ELSE /\ Notice(s, twin) /\ ~Searchable(s, twin) /\ Alternates(s, twin) = {}
                /\ path \in Links(s, twin) /\ twin \notin Sitemap(s)

GateLists(s) ==
    \A l \in {"zh", "en"} :
        /\ {Localized(<<"tags", t.slug>>, l) : t \in s.tags} \subseteq Links(s, Localized(<<"tags">>, l))
        /\ {Localized(<<"notes", g.slug>>, l) : g \in GroupTable(s)} \subseteq Links(s, Localized(<<"notes">>, l))
        /\ {ContentPath(i, l) : i \in {i \in s.content : i.type = "curated_article"}}
              \subseteq Links(s, Localized(<<"articles">>, l))

GateRoutes(s) ==
    /\ CanonicalPaths(s) \subseteq Sitemap(s)
    /\ \A r \in Redirects(s) : r.path \notin Sitemap(s) \union Outputs(s)

GateFeed(s) ==
    \A i, j \in DOMAIN Feed(s) : i < j => Feed(s)[i].last >= Feed(s)[j].last

\* One page per detail but posts, its English edition, and about and contribute twice.
GateSearch(s) ==
    Cardinality({p \in Outputs(s) : Searchable(s, p)}) =
        Cardinality({i \in s.content : i.type # "post"})
        + Cardinality({i \in s.content : HasEnglish(i)}) + 4

GatePasses(s) ==
    /\ GatePages(s) /\ GateDetails(s) /\ GateLists(s) /\ GateRoutes(s) /\ GateFeed(s) /\ GateSearch(s)
    /\ \A p \in Twinned(s) : GateTwin(s, p)
=============================================================================
