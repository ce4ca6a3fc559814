---------------------------- MODULE AssetLibrary ---------------------------
(***************************************************************************)
(* The image library: the service that stores an image and then records it *)
(* (internal/assets/assets.go, internal/storage/file.go), and one browser  *)
(* of the Admin that lists, uploads and deletes                            *)
(* (apps/admin/src/features/assets/browser.tsx).  The list is a chain of   *)
(* pages, each below the last row of the one before; others upload, delete *)
(* and restore while it is read, and every call may fail.                  *)
(*                                                                         *)
(* Abstractions: an image is its bytes and of a kind the service takes; a  *)
(* query library runs at most one fetch per list, starts it again when the *)
(* list is invalidated and forgets the answer of one it has cancelled.     *)
(***************************************************************************)
EXTENDS Naturals, Sequences, FiniteSets, FiniteSetsExt, Listing

CONSTANTS
    Images,      \* the images anyone may upload
    Damaged,     \* those of which other bytes are stored under their name
    Held,        \* the images recorded at first, in order
    PageOf,      \* how many assets a page lists
    MaxRows,     \* bound on the assets
    MaxForeign   \* bound on what others do

VARIABLE
    box    \* the stored objects and the rows; the list of each filter, which
           \* is on, the page shown; the fetch, the upload and the change that
           \* are in flight; how much others have done.  "told" is bookkeeping:
           \* nothing changed, since the list was begun, but by calls whose
           \* answer the browser had

NoImage  == ""
NoFetch  == [kind |-> "none", pages |-> <<>>, want |-> 0, told |-> FALSE]
Again(n) == [kind |-> "again", pages |-> <<>>, want |-> Max({1, n}), told |-> TRUE]

Init == box =
    [objects |-> Range(Held), rows |-> [id \in DOMAIN Held |-> [image |-> Held[id], deleted |-> FALSE]],
     lists |-> [all \in BOOLEAN |-> [pages |-> <<>>, told |-> FALSE]],
     all |-> FALSE, page |-> 1, fetch |-> Again(1), upload |-> [stage |-> "none", image |-> NoImage],
     change |-> [stage |-> "none", id |-> 0], foreign |-> 0]

-----------------------------------------------------------------------------
(* The service.                                                             *)

Alive(b, id) == ~b.rows[id].deleted
RowOf(b, f)  == {id \in DOMAIN b.rows : b.rows[id].image = f}

\* (mutation: a name that exists is taken for the same bytes)
TakesAnyBytes(f) == TRUE

\* PutImmutable: what exists is compared with what was to be stored.
SameBytes(f) == f \notin Damaged

\* The second transaction of Upload; a row that was deleted is an error.
Recorded(b, f) ==
    IF RowOf(b, f) # {} \/ Len(b.rows) = MaxRows THEN b
    ELSE [b EXCEPT !.rows = Append(@, [image |-> f, deleted |-> FALSE])]

\* ListAssets: from the newest to the oldest, below the last one of the page before.
ListedFrom(b, after) ==
    LET below == {id \in DOMAIN b.rows : (after = 0 \/ id < after) /\ (b.all \/ Alive(b, id))}
        newest == Sorted(below, LAMBDA x, y : x > y)
    IN  [items |-> SubSeq(newest, 1, Min({PageOf, Len(newest)})), next |-> IF Len(newest) > PageOf THEN newest[PageOf] ELSE 0]

NoneTold(lists) == [all \in BOOLEAN |-> [lists[all] EXCEPT !.told = FALSE]]

Untold(b) == [b EXCEPT !.lists = NoneTold(@), !.fetch.told = @ /\ b.fetch.kind = "again" /\ b.fetch.pages = <<>>]

\* Somebody else stores, and may end before the row; deletes or restores.
Foreign ==
    /\ box.foreign < MaxForeign
    /\ LET b == [Untold(box) EXCEPT !.foreign = @ + 1] IN
       \/ \E f \in Images, ends \in BOOLEAN :
             /\ SameBytes(f) /\ (ends => f \notin box.objects)
             /\ box' = IF ends THEN [b EXCEPT !.objects = @ \union {f}]
                       ELSE Recorded([b EXCEPT !.objects = @ \union {f}], f)
       \/ \E id \in DOMAIN box.rows : box' = [b EXCEPT !.rows[id].deleted = ~@]

-----------------------------------------------------------------------------
(* The list in the browser.                                                 *)

List     == box.lists[box.all]
LastPage == Max({1} \union {i \in DOMAIN List.pages : List.pages[i].items # <<>>})
Current  == Min({box.page, LastPage})
Busy     == box.fetch.kind # "none" \/ box.upload.stage # "none" \/ box.change.stage # "none"

\* invalidateQueries: the list shown is fetched again, from its first page.
Invalidated(b) == [b EXCEPT !.lists = NoneTold(@), !.fetch = Again(Len(b.lists[b.all].pages))]

\* One page of the fetch is answered; the last one makes the list.
PageAnswered ==
    /\ box.fetch.kind # "none"
    /\ LET f     == box.fetch
           after == IF f.pages = <<>> THEN 0 ELSE f.pages[Len(f.pages)].next
           pages == Append(f.pages, ListedFrom(box, after))
           over  == pages[Len(pages)].next = 0 \/ Len(pages) >= f.want
       IN  box' = IF ~over THEN [box EXCEPT !.fetch.pages = pages]
                  ELSE [box EXCEPT !.fetch = NoFetch, !.lists[box.all] = [pages |-> pages, told |-> f.told],
                                   !.page = IF f.kind = "next" /\ pages[Len(pages)].items # <<>> THEN Current + 1 ELSE @]

\* Nothing is tried again; the list stays as it was.
FetchFails == box.fetch.kind # "none" /\ box' = [box EXCEPT !.fetch = NoFetch]

Previous == ~Busy /\ Current > 1 /\ box' = [box EXCEPT !.page = Current - 1]

\* nextPage: what is there, or one page more.
NextPage ==
    /\ ~Busy /\ List.pages # <<>>
    /\ \/ Current < LastPage /\ box' = [box EXCEPT !.page = Current + 1]
       \/ /\ Current = LastPage /\ List.pages[Len(List.pages)].next # 0
          /\ box' = [box EXCEPT !.fetch = [kind |-> "next", pages |-> List.pages, want |-> Len(List.pages) + 1, told |-> List.told]]

\* The filter has a list of its own, which is read again.
Toggle ==
    /\ ~Busy
    /\ box' = [box EXCEPT !.all = ~@, !.page = 1, !.fetch = Again(Len(box.lists[~box.all].pages))]

Retry == box.fetch.kind = "none" /\ List.pages = <<>> /\ box' = [box EXCEPT !.fetch = Again(1)]

-----------------------------------------------------------------------------
(* What the browser asks of the service.                                    *)

Upload ==
    /\ box.upload.stage = "none"
    /\ \E f \in Images : box' = [box EXCEPT !.upload = [stage |-> "store", image |-> f]]

Store ==
    /\ box.upload.stage = "store"
    /\ box' = IF SameBytes(box.upload.image) THEN [box EXCEPT !.upload.stage = "record", !.objects = @ \union {box.upload.image}]
              ELSE [box EXCEPT !.upload.stage = "none"]

Record ==
    /\ box.upload.stage = "record"
    /\ LET b == Recorded(box, box.upload.image)
       IN  box' = IF \E id \in RowOf(b, box.upload.image) : Alive(b, id) THEN [b EXCEPT !.upload.stage = "answer"]
                  ELSE [b EXCEPT !.upload.stage = "none"]

FirstPages(lists) == [all \in BOOLEAN |-> [lists[all] EXCEPT !.pages = SubSeq(@, 1, Min({1, Len(@)}))]]

\* onSuccess: what is in flight is cancelled, the lists are cut to their first page and read again.
Uploaded ==
    /\ box.upload.stage = "answer"
    /\ box' = Invalidated([box EXCEPT !.upload.stage = "none", !.page = 1, !.lists = FirstPages(@)])

\* There is no answer, whatever was done.
UploadFails == box.upload.stage # "none" /\ box' = [Untold(box) EXCEPT !.upload.stage = "none"]

\* Delete or restore what the page shows, after the question.
Change ==
    /\ ~Busy /\ Current <= Len(List.pages)
    /\ \E id \in Range(List.pages[Current].items) : box' = [box EXCEPT !.change = [stage |-> "asked", id |-> id]]

SetDeleted ==
    /\ box.change.stage = "asked"
    /\ \E deleted \in BOOLEAN : box' = [box EXCEPT !.rows[box.change.id].deleted = deleted, !.change.stage = "answer"]

Changed     == box.change.stage = "answer" /\ box' = Invalidated([box EXCEPT !.change.stage = "none"])
ChangeFails == box.change.stage # "none" /\ box' = [Untold(box) EXCEPT !.change.stage = "none"]

Next ==
    \/ Foreign \/ PageAnswered \/ FetchFails \/ Previous \/ NextPage \/ Toggle \/ Retry
    \/ Upload \/ Store \/ Record \/ Uploaded \/ UploadFails \/ Change \/ SetDeleted \/ Changed \/ ChangeFails

Spec == Init /\ [][Next]_box

-----------------------------------------------------------------------------
(* Properties.                                                              *)

Listed == UNION {Range(page.items) : page \in Range(List.pages)}

\* Every row has its own bytes stored, and an image one row, however uploads of
\* the same image meet, fail half-way and are tried again (assets.go:195-235).
\* No asset is listed twice and the newest come first, whatever others did between
\* two pages; and but for what others did since it was begun, and for calls that
\* were not answered, a list is the beginning of what the service has: no upload,
\* deletion, turned page or filter leaves a gap (browser.tsx:107-143).
LibraryIsWhole ==
    /\ \A id \in DOMAIN box.rows : box.rows[id].image \in box.objects \ Damaged
    /\ \A f \in Images : Cardinality(RowOf(box, f)) <= 1
    /\ \A i, j \in DOMAIN List.pages : \A k \in DOMAIN List.pages[i].items, l \in DOMAIN List.pages[j].items :
          i < j \/ (i = j /\ k < l) => List.pages[i].items[k] > List.pages[j].items[l]
    /\ List.told /\ ~Busy =>
          LET all == {id \in DOMAIN box.rows : box.all \/ Alive(box, id)}
          IN  Listed \subseteq all /\ \A id \in all \ Listed, x \in Listed : x > id
=============================================================================
