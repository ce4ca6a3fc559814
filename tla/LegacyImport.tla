---------------------------- MODULE LegacyImport ---------------------------
(***************************************************************************)
(* The import of the old site: a plan made of a checkout alone             *)
(* (scripts/legacy/plan.mjs), applied by the operator while the CMS is     *)
(* stopped (legacy-import.mjs, internal/legacy/import.go).  The plan is    *)
(* checked against the database, every image is downloaded, and then each  *)
(* image, group, tag and item is a transaction of its own: the process may *)
(* end between any two, and the operator may apply again.                  *)
(*                                                                         *)
(* Abstractions: a body is the sequence of its images, an image one that   *)
(* the site may show or not; topics and notes come in the order the plan   *)
(* sorts them; the owner is an active admin and an author mapped is one.   *)
(***************************************************************************)
EXTENDS Naturals, Sequences, FiniteSets, SequencesExt, Listing

CONSTANTS
    Sources,    \* the checkouts
    Databases,  \* what the database may hold before
    SlugOf,     \* the slug of each tag's name
    Owned,      \* the images that are the site's own already
    Unsafe,     \* the images without alternative text or not over https
    BytesOf,    \* what is downloaded for each image of the others
    Now,
    MaxRuns     \* bound on the runs of apply

VARIABLE
    box    \* the checkout, the database, the database before the first run,
           \* where apply is, at which of its images, notes, tags or items, and
           \* the identities it has created

NoText == ""

Unique(s) == Kept(s, {i \in DOMAIN s : \A j \in 1..(i - 1) : s[j] # s[i]})

-----------------------------------------------------------------------------
(* The plan.                                                                *)

Ids(src)  == {src.articles[i].id : i \in DOMAIN src.articles}
Names(src) == UNION {ToSet(src.articles[i].tags) : i \in DOMAIN src.articles}

Recommended(src, topic) ==
    Unique(Kept(topic.reading, {i \in DOMAIN topic.reading : topic.reading[i] \in Ids(src)}))
Matched(src, topic) ==
    LET of == Kept(src.articles, {i \in DOMAIN src.articles : src.articles[i].category = topic.slug})
    IN  [i \in DOMAIN of |-> of[i].id]

\* (mutation: what is recommended comes after the rest of the category)
MatchedFirst(src, topic) == Unique(Matched(src, topic) \o Recommended(src, topic))

Targets(src, topic) == Unique(Recommended(src, topic) \o Matched(src, topic))

ArticleItem(a) ==
    [type |-> "curated_article", slug |-> a.id, path |-> <<"articles", a.id>>, images |-> a.images, note |-> <<>>,
     tags |-> {SlugOf[n] : n \in ToSet(a.tags)}, targets |-> <<>>, recommended |-> 0, dates |-> <<a.at, a.at>>]
TopicItem(src, t) ==
    [type |-> "topic", slug |-> t.slug, path |-> <<"topics", t.slug>>, images |-> t.images, note |-> <<>>, tags |-> {},
     targets |-> Targets(src, t), recommended |-> Len(Recommended(src, t)), dates |-> <<>>]
NoteItem(n) ==
    [type |-> "note", slug |-> n.slug, path |-> <<"notes", n.group, n.slug>>, images |-> n.images,
     note |-> <<n.group, n.meta>>, tags |-> {}, targets |-> <<>>, recommended |-> 0, dates |-> <<n.created, n.updated>>]

Items(src) ==
    [i \in DOMAIN src.articles |-> ArticleItem(src.articles[i])] \o [i \in DOMAIN src.topics |-> TopicItem(src, src.topics[i])]
    \o [i \in DOMAIN src.notes |-> NoteItem(src.notes[i])]

Images(src) == SetToSeq((UNION {ToSet(Items(src)[i].images) : i \in DOMAIN Items(src)}) \ Owned)
Tags(src)   == SetToSeq({SlugOf[n] : n \in Names(src)})

\* A plan without errors; the reading order may name what is not there.
Sound(src) ==
    LET items == Items(src) IN
    /\ \A i, j \in DOMAIN src.articles : src.articles[i].id = src.articles[j].id => i = j
    /\ \A n, m \in Names(src) : SlugOf[n] = SlugOf[m] => n = m
    /\ \A i, j \in DOMAIN items : items[i].path = items[j].path => i = j
    /\ \A i \in DOMAIN items : ToSet(items[i].images) \intersect Unsafe = {}
    /\ \A i, j \in DOMAIN src.notes : src.notes[i].group = src.notes[j].group => src.notes[i].meta = src.notes[j].meta
    /\ \A i \in DOMAIN src.notes : src.notes[i].mapped /\ src.notes[i].created <= src.notes[i].updated

-----------------------------------------------------------------------------
(* What apply checks before it changes anything.                            *)

Key(x) == <<x.type, x.slug>>

Preflight(src, db) ==
    LET items == Items(src)
        keys  == [i \in DOMAIN items |-> Key(items[i])]
        own   == {Key(db.contents[k]) : k \in DOMAIN db.contents}
        paths == {db.contents[k].path : k \in {k \in DOMAIN db.contents : db.contents[k].published}}
    IN  /\ items # <<>> /\ IsInjective(keys)
        /\ \A i \in DOMAIN items :
              /\ keys[i] \notin own /\ items[i].path \notin paths
              /\ items[i].dates # <<>> => items[i].dates[1] <= items[i].dates[2] /\ items[i].dates[2] <= Now
              /\ items[i].type = "note" => \A g \in db.groups : g[1] = items[i].note[1] => g = items[i].note
              /\ \A t \in ToSet(items[i].targets) : \E j \in 1..(i - 1) : keys[j] = <<"curated_article", t>>
              /\ items[i].recommended <= Len(items[i].targets)
        /\ ToSet(Tags(src)) \intersect db.tags = {}

-----------------------------------------------------------------------------
(* Apply.                                                                   *)

Init ==
    \E src \in Sources, db \in Databases :
        box = [src |-> src, db |-> db, before |-> db, pc |-> "idle", at |-> 1, created |-> {}, runs |-> 0]

To(b, pc) == [b EXCEPT !.pc = pc, !.at = 1]

\* runLegacy "apply" once more; a plan with errors ends it before the database is opened.
Run ==
    /\ box.pc \in {"idle", "refused", "failed", "done"} /\ box.runs < MaxRuns
    /\ LET b == [To(box, "download") EXCEPT !.runs = @ + 1, !.created = {}] IN
       box' = IF Sound(box.src) /\ Preflight(box.src, box.db) THEN b ELSE To(b, "refused")

\* All of them, before the first change.
Download == box.pc = "download" /\ box' = To(box, "upload")

\* The same bytes are one asset; one that was deleted ends the import.
Upload ==
    /\ box.pc = "upload"
    /\ LET images == Images(box.src) IN
       IF box.at > Len(images) THEN box' = To(box, "groups")
       ELSE box' = IF BytesOf[images[box.at]] \in box.db.deleted THEN To(box, "failed")
                   ELSE [box EXCEPT !.at = @ + 1, !.db.assets = @ \union {BytesOf[images[box.at]]}]

PutGroup ==
    /\ box.pc = "groups"
    /\ box' = IF box.at > Len(box.src.notes) THEN To(box, "tags")
              ELSE [box EXCEPT !.at = @ + 1, !.db.groups = @ \union {NoteItem(box.src.notes[box.at]).note}]

PutTag ==
    /\ box.pc = "tags"
    /\ box' = IF box.at > Len(Tags(box.src)) THEN To(box, "create")
              ELSE [box EXCEPT !.at = @ + 1, !.db.tags = @ \union {Tags(box.src)[box.at]}]

Item == Items(box.src)[box.at]
Newest == Len(box.db.contents)

Create ==
    /\ box.pc = "create"
    /\ box' = IF box.at > Len(Items(box.src)) THEN To(box, "done")
              ELSE [box EXCEPT !.pc = "save",
                       !.db.contents = Append(@, [type |-> Item.type, slug |-> NoText, path |-> <<>>, images |-> <<>>, tags |-> {},
                                                  entries |-> <<>>, recommended |-> 0, dates |-> <<>>, published |-> FALSE])]

\* The body with the images it has now, the relations by the identities created.
Save ==
    /\ box.pc = "save"
    /\ LET identity(t) == CHOOSE id \in DOMAIN box.db.contents : <<<<"curated_article", t>>, id>> \in box.created
           rewritten   == [k \in DOMAIN Item.images |-> IF Item.images[k] \in Owned THEN Item.images[k]
                                                        ELSE BytesOf[Item.images[k]]]
       IN  box' = [box EXCEPT !.pc = "publish",
                     !.db.contents[Newest] = [@ EXCEPT !.slug = Item.slug, !.path = Item.path, !.tags = Item.tags,
                        !.images = rewritten, !.recommended = Item.recommended, !.dates = Item.dates,
                        !.entries = [k \in DOMAIN Item.targets |-> identity(Item.targets[k])]]]

Publish ==
    /\ box.pc = "publish"
    /\ box' = [box EXCEPT !.pc = "create", !.at = @ + 1, !.created = @ \union {<<Key(Item), Newest>>},
                          !.db.contents[Newest].published = TRUE]

\* An image that cannot be had, a fault of the database, an interrupt.
Fails ==
    /\ box.pc \in {"download", "upload", "groups", "tags", "create", "save", "publish"}
    /\ box' = To(box, "failed")

Next == Run \/ Download \/ Upload \/ PutGroup \/ PutTag \/ Create \/ Save \/ Publish \/ Fails

Spec == Init /\ [][Next]_box

-----------------------------------------------------------------------------
(* Properties.                                                              *)

\* What was added after n has identities of its own (drafts of authors may share
\* theirs), and no address among the published is there twice.
Apart(all, n) ==
    \A i, j \in DOMAIN all :
        i # j => /\ all[i].slug # NoText /\ j > n => Key(all[i]) # Key(all[j])
                 /\ all[i].published /\ all[j].published => all[i].path # all[j].path

Added == SubSeq(box.db.contents, Len(box.before.contents) + 1, Newest)

\* However often apply is run and wherever it ends, what was there is untouched,
\* nothing that was added shares its identity with anything, and no published
\* address is there twice; a topic lists articles
\* that are published, those its reading order recommends first, in that order
\* and each once, then the rest of its category; no image of another host is
\* left; and an import that ends well has published every item of the checkout
\* (plan.mjs:360-376, import.go:154-215, 246-343).
ImportIsTheCheckout ==
    LET src == box.src  all == box.db.contents IN
    /\ SubSeq(all, 1, Len(box.before.contents)) = box.before.contents
    /\ Apart(all, Len(box.before.contents))
    /\ \A i \in DOMAIN Added :
          LET entries == [k \in DOMAIN Added[i].entries |-> all[Added[i].entries[k]]]
              ids     == [k \in DOMAIN entries |-> entries[k].slug]
          IN  /\ ToSet(Added[i].images) \subseteq Owned \union box.db.assets
              /\ \A t \in ToSet(src.topics) : Key(Added[i]) = <<"topic", t.slug>> =>
                    /\ \A k \in DOMAIN entries : entries[k].published
                    /\ SubSeq(ids, 1, Added[i].recommended) = Recommended(src, t)
                    /\ IsInjective(ids) /\ ToSet(Matched(src, t)) \subseteq ToSet(ids)
    /\ box.pc = "done" =>
          LET made == Kept(Added, {i \in DOMAIN Added : Added[i].published})
          IN  [k \in DOMAIN made |-> made[k].path] = [k \in DOMAIN Items(src) |-> Items(src)[k].path]
=============================================================================
