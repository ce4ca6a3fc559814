------------------------------ MODULE DraftForm ------------------------------
(***************************************************************************)
(* The relations of a draft in the Admin's form (features/content:         *)
(* selectors.tsx, topic-order.ts, form.tsx, note-group.tsx): the articles  *)
(* of a topic and the boundary of the recommended ones, the tags, the      *)
(* links of an article with their English labels, the group of a note.     *)
(* Each is kept in two places, which the operations change one by one and  *)
(* the server compares when it takes the draft.                            *)
(*                                                                         *)
(* Abstractions: texts have no content but being empty; the other fields   *)
(* of the form are texts or choices that touch nothing else; a search      *)
(* answers one of a few pages.                                             *)
(***************************************************************************)
EXTENDS Naturals, Sequences, FiniteSets, FiniteSetsExt, SequencesExt, Listing

CONSTANTS
    Own,         \* the content being edited
    Pages,       \* what a search may find: sets of contents, of tags or of groups
    Limit,       \* the most articles of a topic, the most tags (100)
    LinkLimit,   \* the most links (20)
    Urls,        \* what the address of a link may be; "" is none
    MaxRegroups  \* bound on the changes of a group's metadata

VARIABLE
    box    \* the type, the page found; the entries, the recommended count, the
           \* index dragged (0: none), the choice; the tags; the links, the labels;
           \* the group's slug and its mirror, the version of the groups' metadata

\* Which relations the form of a type has.
Parts(type) ==
    CASE type = "note" -> {"tags", "group"}
      [] type = "curated_article" -> {"tags", "links"}
      [] type = "topic" -> {"entries"}
      [] OTHER -> {"tags"}

NoText  == ""
NoGroup == <<NoText, 0>>

Init ==
    \E type \in {"note", "curated_article", "topic"}, page \in Pages :
        box = [type |-> type, found |-> page, entries |-> <<>>, count |-> 0, dragging |-> 0, choice |-> 0,
               tags |-> <<>>, links |-> <<>>, labels |-> <<>>, slug |-> NoText, mirror |-> NoGroup, version |-> 1]

Has(part) == part \in Parts(box.type)

Search == \E page \in Pages \ {box.found} : box' = [box EXCEPT !.found = page]

-----------------------------------------------------------------------------
(* TopicEntries: one list and one boundary.                                 *)

\* (mutation: the boundary is compared with the place the article goes to)
ReorderByPlace(from, to, recommended) ==
    IF from \notin DOMAIN box.entries THEN box
    ELSE LET rest == RemoveAt(box.entries, from)
             left == IF to < box.count THEN box.count - 1 ELSE box.count
             at   == IF recommended THEN Min({to, left}) ELSE Max({left, Min({to, Len(rest)})})
         IN  [box EXCEPT !.entries = InsertAt(rest, Min({at, Len(rest)}) + 1, box.entries[from]),
                         !.count = left + (IF recommended THEN 1 ELSE 0)]

\* reorderTopic: the article of one index goes before another, into one section.
Reorder(from, to, recommended) ==
    IF from \notin DOMAIN box.entries THEN box
    ELSE LET rest == RemoveAt(box.entries, from)
             left == IF from <= box.count THEN box.count - 1 ELSE box.count
             at   == IF recommended THEN Min({to, left}) ELSE Max({left, Min({to, Len(rest)})})
         IN  [box EXCEPT !.entries = InsertAt(rest, at + 1, box.entries[from]),
                         !.count = left + (IF recommended THEN 1 ELSE 0)]

DragStart == Has("entries") /\ \E i \in DOMAIN box.entries : box' = [box EXCEPT !.dragging = i]

\* The end of a drag may be missed: the index stays what it was at the start.
DragEnd == box.dragging # 0 /\ box' = [box EXCEPT !.dragging = 0]

\* Onto an article, or onto a section.
Drop ==
    /\ box.dragging # 0
    /\ \/ \E i \in DOMAIN box.entries : box' = [Reorder(box.dragging, i - 1, i <= box.count) EXCEPT !.dragging = 0]
       \/ \E recommended \in BOOLEAN :
             LET end == IF recommended THEN box.count ELSE Len(box.entries)
             IN  box' = [Reorder(box.dragging, end, recommended) EXCEPT !.dragging = 0]

\* The arrows: two neighbours change places, across the boundary too.
Move ==
    Has("entries") /\ \E i \in 1..(Len(box.entries) - 1) :
        box' = [box EXCEPT !.entries = [@ EXCEPT ![i] = box.entries[i + 1], ![i + 1] = box.entries[i]]]

RemoveEntry ==
    Has("entries") /\ \E i \in DOMAIN box.entries :
        box' = [box EXCEPT !.entries = RemoveAt(@, i), !.count = IF i <= @ THEN @ - 1 ELSE @]

Recommend == Has("entries") /\ \E i \in DOMAIN box.entries : box' = Reorder(i, box.count, i > box.count)

Choose ==
    /\ Has("entries")
    /\ \E id \in box.found \ ({Own} \union ToSet(box.entries)) : box' = [box EXCEPT !.choice = id]

\* The choice outlives the search that found it, and may have been added since.
AddEntry ==
    /\ Has("entries") /\ box.choice # 0 /\ Len(box.entries) < Limit
    /\ box.choice \in box.found /\ box.choice # Own /\ box.choice \notin ToSet(box.entries)
    /\ box' = [box EXCEPT !.entries = Append(@, box.choice), !.choice = 0]

-----------------------------------------------------------------------------
(* TagSelect.                                                               *)

ToggleTag ==
    Has("tags") /\ \E tag \in box.found :
        /\ Contains(box.tags, tag) \/ Len(box.tags) < Limit
        /\ box' = [box EXCEPT !.tags = IF Contains(@, tag) THEN Kept(@, {i \in DOMAIN @ : @[i] # tag}) ELSE Append(@, tag)]

-----------------------------------------------------------------------------
(* RelatedLinks: a label is kept by the address of its link.                *)

Without(labels, urls) == Kept(labels, {i \in DOMAIN labels : labels[i].url \notin urls})

RemoveLink ==
    Has("links") /\ \E i \in DOMAIN box.links :
        box' = [box EXCEPT !.labels = Without(@, {box.links[i]}), !.links = RemoveAt(@, i)]

TypeLabel ==
    Has("links") /\ \E i \in DOMAIN box.links, empty \in BOOLEAN :
        LET url == box.links[i] rest == Without(box.labels, {url})
        IN  box' = [box EXCEPT !.labels = IF url = NoText \/ empty THEN rest ELSE Append(rest, [url |-> url])]

TypeUrl ==
    Has("links") /\ \E i \in DOMAIN box.links : \E url \in Urls \ {box.links[i]} :
        box' = [box EXCEPT !.links[i] = url, !.labels = Without(@, {box.links[i], url})]

AppendLink == Has("links") /\ Len(box.links) < LinkLimit /\ box' = [box EXCEPT !.links = Append(@, NoText)]

-----------------------------------------------------------------------------
(* NoteGroupFields: the slug decides, the rest is a mirror.                 *)

Groups == {"g", "h"}
Found  == {g \in Groups : (IF g = "g" THEN 1 ELSE 2) \in box.found}

\* The group chosen keeps its mirror while the search does not show it.
ChooseGroup ==
    Has("group") /\ \E slug \in Found \union {NoText, box.slug} :
        box' = [box EXCEPT !.slug = slug,
                           !.mirror = IF slug \in Found THEN <<slug, box.version>> ELSE IF slug = NoText THEN NoGroup ELSE @]

\* Someone edits the groups meanwhile.
Regroup == Has("group") /\ box.version < MaxRegroups /\ box' = [box EXCEPT !.version = @ + 1]

Next ==
    \/ Search \/ DragStart \/ DragEnd \/ Drop \/ Move \/ RemoveEntry \/ Recommend \/ Choose \/ AddEntry
    \/ ToggleTag \/ RemoveLink \/ TypeLabel \/ TypeUrl \/ AppendLink \/ ChooseGroup \/ Regroup

Spec == Init /\ [][Next]_box

-----------------------------------------------------------------------------
(* What takes the form.                                                     *)

\* draftSchema: the Admin sends nothing else.
Sendable(b) ==
    /\ Len(b.entries) <= Limit /\ b.count <= Limit /\ Len(b.tags) <= Limit
    /\ Len(b.links) <= LinkLimit /\ Len(b.labels) <= LinkLimit

\* validateRelations and validateEnglish, of the relations.
Taken(b) ==
    /\ b.count <= Len(b.entries) /\ IsInjective(b.entries) /\ ~Contains(b.entries, Own)
    /\ IsInjective(b.tags)
    /\ b.type = "topic" => b.tags = <<>> /\ b.labels = <<>>
    /\ b.type # "topic" => b.entries = <<>>
    /\ IsInjective(b.labels) /\ \A i \in DOMAIN b.labels : b.labels[i].url # NoText /\ Contains(b.links, b.labels[i].url)

-----------------------------------------------------------------------------
(* Properties.                                                              *)

Before(b, y, z)   == \E i, j \in DOMAIN b.entries : i < j /\ b.entries[i] = y /\ b.entries[j] = z
Section(b, entry) == \E i \in 1..b.count : b.entries[i] = entry
Uses(b, url)      == Cardinality({i \in DOMAIN b.links : b.links[i] = url})
Labelled(b, url)  == Contains(b.labels, [url |-> url])

\* Whatever is dragged, moved, added, removed or typed, in whatever order and under
\* whatever search, the relations are such that the server takes them; one article
\* at a time moves, the others keep their order and, but for two that trade places
\* at the boundary, their section; and a label never goes over to another link: an
\* address some link begins or ceases to have is left without one
\* (selectors.tsx:72-341, topic-order.ts:3-22, form.tsx:196-285,
\* note-group.tsx:59-75, service.go:152-206, english.go:44-56).
KeepsRelations(old, new) ==
    /\ Sendable(new) /\ Taken(new)
    /\ old.entries # <<>> /\ new.entries # old.entries /\ Len(new.entries) = Len(old.entries) =>
          \E x \in ToSet(old.entries) :
             /\ ToSet(new.entries) = ToSet(old.entries)
             /\ \A y, z \in ToSet(old.entries) \ {x} : Before(new, y, z) <=> Before(old, y, z)
             /\ \A y \in ToSet(old.entries) \ {x} :
                   \/ Section(new, y) = Section(old, y)
                   \/ new.count = old.count /\ {x, y} = {old.entries[old.count], old.entries[old.count + 1]}
    /\ \A url \in Urls : Uses(new, url) # Uses(old, url) => ~Labelled(new, url)
    /\ new.mirror[1] = new.slug
==============================================================================
