--------------------------- MODULE ReaderExplorer ---------------------------
(***************************************************************************)
(* The article explorer of the public site (apps/web/src/lib/explorer.ts): *)
(* filters kept in a form, in the address and in a variable at once, over  *)
(* the articles of the page; the browser's history moves under it.         *)
(*                                                                         *)
(* Abstractions: the order of the tags and of the ratings within an        *)
(* address, and the cut of a text at 200 characters, are left out;         *)
(* difficulty is a filter like language; a title is a number.  A tag name  *)
(* or a topic title may be the slug of another tag or topic, which nothing *)
(* in the schema forbids: an address then stands for the other one.        *)
(***************************************************************************)
EXTENDS Naturals, Sequences, FiniteSets, Functions, Listing

CONSTANTS
    Rows,          \* the articles
    PageOf,        \* articles per page
    MaxPage,       \* the largest page number an address is read as
    TopicLabels,   \* the slug of a topic, per title
    TagLabels,     \* the slug of a tag, per name
    Visited,       \* the addresses the page may be opened at
    Words,         \* what the reader may type
    MaxHistory,    \* bound on the entries of the history
    MaxChanges,    \* bound on the changes of the form
    TagsAtFirst,   \* how many tags the form shows, and how many more at a time
    TagsMore

VARIABLE
    box    \* the page: filters, form, list, count, tags visible; the browser's
           \* history, as addresses and the entry it is at; the changes left

NoText == ""

Slugs(labels) == Range(labels)
Sorts   == {"source-date", "recommended", "rating", "title", "added"}
OldSorts == [s \in {"published-date", "recently-added", "title-asc"} |->
                CASE s = "published-date" -> "source-date" [] s = "recently-added" -> "added" [] OTHER -> "title"]

Given(label, labels) == IF label \in DOMAIN labels THEN labels[label] ELSE label

NoAddress ==
    [q |-> NoText, topic |-> NoText, category |-> NoText, tags |-> {}, ratings |-> {}, lang |-> NoText, sort |-> NoText, page |-> 0]

\* parseFilters: a page of 0 is an address without one.
Parse(address, topics, tags) ==
    LET topic == IF address.topic # NoText THEN address.topic ELSE address.category
        sort  == IF address.sort = NoText THEN "source-date" ELSE address.sort
    IN  [q |-> address.q, topic |-> Given(topic, topics), tags |-> {Given(t, tags) : t \in address.tags},
         ratings |-> address.ratings, lang |-> address.lang,
         sort |-> IF sort \in DOMAIN OldSorts THEN OldSorts[sort] ELSE sort,
         page |-> IF address.page = 0 THEN 1 ELSE IF address.page > MaxPage THEN MaxPage ELSE address.page]

\* What render writes; the page only when it is not the first.
Address(f) ==
    [q |-> f.q, topic |-> f.topic, category |-> NoText, tags |-> f.tags, ratings |-> f.ratings, lang |-> f.lang,
     sort |-> IF f.sort = "source-date" THEN NoText ELSE f.sort, page |-> IF f.page > 1 THEN f.page ELSE 0]

-----------------------------------------------------------------------------
(* filterArticles.                                                          *)

Matches(r, f) ==
    /\ f.q = NoText \/ f.q \in r.words
    /\ f.topic = NoText \/ f.topic \in r.topics
    /\ f.tags \subseteq r.tags
    /\ f.ratings = {} \/ r.rating \in f.ratings
    /\ f.lang = NoText \/ r.lang = f.lang

\* Ahead by the first number in which the two differ, larger first.
Ahead(m, n) == \E k \in DOMAIN m : m[k] > n[k] /\ \A j \in 1..(k - 1) : m[j] = n[j]

\* What an order compares, the most important first; the newest, then the
\* smallest id, decide in the end.
Rank(r, sort) ==
    LET flag(b) == IF b THEN 1 ELSE 0
        last    == <<r.added, 100 - r.id>>
    IN  CASE sort = "recommended" -> <<flag(r.featured), flag(r.recommended), 100 - r.weight>> \o last
          [] sort = "rating"      -> <<100 - r.weight, r.title>> \o last
          [] sort = "title"       -> <<100 - r.title>> \o last
          [] sort = "added"       -> last
          [] OTHER                -> <<r.sourceDate>> \o last

Filtered(f) == Sorted({r \in Rows : Matches(r, f)}, LAMBDA a, b : Ahead(Rank(a, f.sort), Rank(b, f.sort)))

Total(f) == LET n == Len(Filtered(f)) IN IF n = 0 THEN 1 ELSE (n + PageOf - 1) \div PageOf

\* (mutation: a page after the last one stays)
ClampedToMax(f) == [f EXCEPT !.page = IF @ > MaxPage THEN MaxPage ELSE @]

Clamped(f) == [f EXCEPT !.page = IF @ > Total(f) THEN Total(f) ELSE @]

\* The articles of a page that has been clamped.
Page(f) ==
    LET rows == Filtered(f)  before == (f.page - 1) * PageOf
    IN  [k \in {k \in 1..PageOf : before + k <= Len(rows)} |-> rows[before + k].id]

\* The numbers shown below the list: the first, the last, and those around the page.
Numbers(f) == IF Total(f) = 1 THEN {}
              ELSE {1, Total(f)} \union {n \in 1..Total(f) : n + 2 >= f.page /\ n <= f.page + 2}

-----------------------------------------------------------------------------
(* The page.                                                                *)

\* The boxes of the form can only be those of a tag or a rating it lists.
FormOf(f) == [q |-> f.q, topic |-> f.topic, tags |-> f.tags \intersect Slugs(TagLabels),
              ratings |-> f.ratings \intersect {r.rating : r \in Rows}, lang |-> f.lang, sort |-> f.sort]

Stack(entry, how) ==
    CASE how = "push"    -> [entries |-> Append(SubSeq(box.entries, 1, box.at), entry), at |-> box.at + 1]
      [] how = "replace" -> [entries |-> [box.entries EXCEPT ![box.at] = entry], at |-> box.at]
      [] OTHER           -> [entries |-> box.entries, at |-> box.at]

\* render, then what is shown of it.
Rendered(f, form, tagsShown, history) ==
    LET shown == Clamped(f)  stack == Stack(Address(shown), history)
    IN  [filters |-> shown, form |-> form, list |-> Page(shown), count |-> Len(Filtered(shown)),
         tagsShown |-> tagsShown, entries |-> stack.entries, at |-> stack.at, left |-> box.left]

Opened(address) ==
    LET f == Parse(address, TopicLabels, TagLabels)  shown == Clamped(f)
    IN  [filters |-> shown, form |-> FormOf(f), list |-> Page(shown), count |-> Len(Filtered(shown)),
         tagsShown |-> TagsAtFirst, entries |-> <<address>>, at |-> 1, left |-> MaxChanges]

Init == \E address \in Visited : box = Opened(address)

\* read: the form is the filters now; it names no page.
Read(form) ==
    /\ box.left > 0
    /\ LET data == [q |-> form.q, topic |-> form.topic, category |-> NoText, tags |-> form.tags, ratings |-> form.ratings,
                    lang |-> form.lang, sort |-> form.sort, page |-> 0]
       IN  box' = [Rendered(Parse(data, <<>>, <<>>), form, box.tagsShown, "replace") EXCEPT !.left = @ - 1]

\* One field changes: a key in the text, a choice in a select, a box ticked.
Change ==
    \/ \E q \in Words : Read([box.form EXCEPT !.q = q])
    \/ \E topic \in Slugs(TopicLabels) \union {NoText} : Read([box.form EXCEPT !.topic = topic])
    \/ \E lang \in {r.lang : r \in Rows} \union {NoText} : Read([box.form EXCEPT !.lang = lang])
    \/ \E sort \in Sorts : Read([box.form EXCEPT !.sort = sort])
    \/ \E tag \in Slugs(TagLabels) :
          Read([box.form EXCEPT !.tags = IF tag \in @ THEN @ \ {tag} ELSE @ \union {tag}])
    \/ \E rating \in {r.rating : r \in Rows} :
          Read([box.form EXCEPT !.ratings = IF rating \in @ THEN @ \ {rating} ELSE @ \union {rating}])

Reset ==
    LET f == Parse(NoAddress, <<>>, <<>>) IN
    box' = Rendered(f, FormOf(f), TagsAtFirst, "replace")

MoreTags ==
    /\ box.tagsShown < Cardinality(DOMAIN TagLabels)
    /\ box' = [box EXCEPT !.tagsShown = @ + TagsMore]

GoToPage ==
    /\ box.at < MaxHistory
    /\ \E n \in Numbers(box.filters) :
          box' = Rendered([box.filters EXCEPT !.page = n], box.form, box.tagsShown, "push")

\* popstate.
Move ==
    \E at \in {box.at - 1, box.at + 1} \intersect DOMAIN box.entries :
        LET f == Parse(box.entries[at], TopicLabels, TagLabels)
        IN  box' = [Rendered(f, FormOf(f), box.tagsShown, "none") EXCEPT !.at = at]

Next == Change \/ Reset \/ MoreTags \/ GoToPage \/ Move

Spec == Init /\ [][Next]_box

-----------------------------------------------------------------------------
(* Properties.                                                              *)

\* No slug among the filters is also the label of another tag or topic.
Unmistakable(f) == Given(f.topic, TopicLabels) = f.topic /\ \A t \in f.tags : Given(t, TagLabels) = t

\* Whatever the reader filtered, paged and went back over, the form, the list and
\* the count are those of the filters, on a page that exists; and the page shows
\* what its address says: opening the address anew gives the same, unless a
\* chosen slug is also the label of another one (explorer.ts:28, 311, 402).
AddressTellsAll ==
    LET anew == Opened(box.entries[box.at]) IN
    /\ Unmistakable(box.filters) =>
          box.filters = anew.filters /\ box.form = anew.form /\ box.list = anew.list /\ box.count = anew.count
    /\ box.form = FormOf(box.filters) /\ box.list = Page(box.filters) /\ box.count = Len(Filtered(box.filters))
    /\ box.list = <<>> => box.count = 0
    /\ box.filters.page \in Numbers(box.filters) \union {1}
=============================================================================
