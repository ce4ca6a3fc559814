---------------------------- MODULE ReaderSearch ----------------------------
(***************************************************************************)
(* The search of the public site (apps/web/src/lib/search.ts).  A search   *)
(* awaits the index's module, then the query, then the data of one page of *)
(* hits; each await is bounded by a timeout.  Typing, another search and   *)
(* "more" happen in between: the epoch tells an answer whether it is still *)
(* wanted.                                                                 *)
(*                                                                         *)
(* Abstractions: a text is trimmed; a hit is its number in the answer; how *)
(* a hit is written and its animation are left out.  A hit whose address   *)
(* is not one of the site's fails its page like data that cannot be read.  *)
(***************************************************************************)
EXTENDS Naturals, Sequences, SequencesExt

CONSTANTS
    Found,       \* per text but the empty one, how many hits it has
    PageOf,      \* how many hits a page shows
    MaxEpoch,    \* bound on the tickets
    MaxLoads     \* bound on the imports of the index

VARIABLE
    box    \* the search box: what it shows, its timer, its epoch, the promise
           \* of the index (a number, 0 for undefined), the promises made, and
           \* the calls that await something

Texts == DOMAIN Found \union {""}

Init == box =
    [text |-> "", timer |-> FALSE, epoch |-> 0, asked |-> "", hits |-> 0, shown |-> 0, list |-> <<>>,
     status |-> "hint", moreHidden |-> TRUE, moreDisabled |-> FALSE, busy |-> FALSE,
     api |-> 0, loads |-> <<>>, calls |-> <<>>]

Current(call) == call.ticket = box.epoch
Ends(i)       == [box EXCEPT !.calls = RemoveAt(@, i)]

\* The reader types; 300 ms after the last key the search starts by itself.
Type ==
    /\ box.epoch < MaxEpoch
    /\ \E text \in Texts \ {box.text} :
          box' = [box EXCEPT !.text = text, !.epoch = @ + 1, !.moreHidden = TRUE, !.timer = TRUE]

\* search: on the timer, or when the reader submits.
Search ==
    /\ box.epoch < MaxEpoch /\ (box.api = 0 => Len(box.loads) < MaxLoads)
    /\ LET cleared == [box EXCEPT !.timer = FALSE, !.epoch = @ + 1, !.list = <<>>, !.moreHidden = TRUE,
                                  !.shown = 0, !.hits = 0, !.asked = box.text]
           load    == IF box.api = 0 THEN Len(box.loads) + 1 ELSE box.api
           call    == [stage |-> "api", ticket |-> box.epoch + 1, query |-> box.text, load |-> load, size |-> 0]
       IN  box' = IF box.text = "" THEN [cleared EXCEPT !.status = "hint", !.busy = FALSE]
                  ELSE [cleared EXCEPT !.status = "searching", !.busy = TRUE, !.api = load,
                                       !.loads = IF box.api = 0 THEN Append(@, "pending") ELSE @,
                                       !.calls = Append(@, call)]

\* The import of the index comes to an end.
LoadEnds ==
    \E n \in DOMAIN box.loads, outcome \in {"ready", "failed"} :
        /\ box.loads[n] = "pending"
        /\ box' = [box EXCEPT !.loads[n] = outcome]

\* The catch of search and of showPage.
Failed(i) ==
    IF ~Current(box.calls[i]) THEN Ends(i)
    ELSE [Ends(i) EXCEPT !.api = 0, !.status = "error", !.busy = FALSE,
                         !.moreHidden = box.calls[i].stage = "page" \/ @,
                         !.moreDisabled = box.calls[i].stage # "page" /\ @]

\* An await that fails or times out; it cannot be told whether the index would still load.
Fails(i) ==
    /\ box.calls[i].stage = "api" => box.loads[box.calls[i].load] # "ready"
    /\ box' = Failed(i)

ApiReady(i) ==
    /\ box.calls[i].stage = "api" /\ box.loads[box.calls[i].load] = "ready"
    /\ box' = [box EXCEPT !.calls[i].stage = "query"]

Smaller(a, b) == IF a < b THEN a ELSE b

\* How many hits showPage asks the data of.
Slice(hits, shown) == Smaller(PageOf, hits - shown)

Answered(i) ==
    /\ box.calls[i].stage = "query"
    /\ LET hits == Found[box.calls[i].query] IN
       box' = IF ~Current(box.calls[i]) THEN Ends(i)
              ELSE [box EXCEPT !.hits = hits, !.moreDisabled = TRUE, !.busy = TRUE,
                               !.calls[i] = [@ EXCEPT !.stage = "page", !.size = Slice(hits, box.shown)]]

\* (mutation: the page of an earlier search is shown)
WantedAlways(call) == TRUE

Wanted(call) == Current(call)

PageArrives(i) ==
    /\ box.calls[i].stage = "page"
    /\ LET call == box.calls[i]  shown == box.shown + call.size IN
       box' = IF ~Wanted(call) THEN Ends(i)
              ELSE [Ends(i) EXCEPT !.list = @ \o [k \in 1..call.size |-> <<call.query, box.shown + k>>],
                                   !.shown = shown, !.status = IF box.hits = 0 THEN "empty" ELSE "found",
                                   !.moreHidden = shown >= box.hits, !.moreDisabled = FALSE, !.busy = FALSE]

More ==
    /\ ~box.moreHidden /\ ~box.moreDisabled
    /\ box' = [box EXCEPT !.moreDisabled = TRUE, !.busy = TRUE,
                 !.calls = Append(@, [stage |-> "page", ticket |-> box.epoch, query |-> box.asked, load |-> 0,
                                      size |-> Slice(box.hits, box.shown)])]

Next ==
    \/ Type \/ Search \/ LoadEnds \/ More
    \/ \E i \in DOMAIN box.calls : Fails(i) \/ ApiReady(i) \/ Answered(i) \/ PageArrives(i)

Spec == Init /\ [][Next]_box

-----------------------------------------------------------------------------
(* Properties.                                                              *)

Awaited == box.timer \/ \E i \in DOMAIN box.calls : Current(box.calls[i])

\* The list is the beginning of the answer to the text last searched, each hit
\* once and in order, whatever other searches and pages were in flight; the
\* count, the status and "more" agree with it, and the box is busy or searching
\* only while something it waits for is to come (search.ts:76-155).
ListIsOneAnswer ==
    /\ box.list = [k \in 1..box.shown |-> <<box.asked, k>>]
    /\ box.status = "found" => box.shown > 0 /\ box.hits = Found[box.asked]
    /\ box.status = "empty" => box.asked # "" /\ Found[box.asked] = 0
    /\ ~box.moreHidden => box.shown < box.hits /\ (box.moreDisabled => Awaited)
    /\ box.busy \/ box.status = "searching" => Awaited
=============================================================================
