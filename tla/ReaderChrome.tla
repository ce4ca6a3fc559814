---------------------------- MODULE ReaderChrome ----------------------------
(***************************************************************************)
(* What every page of the public site carries (apps/web/src/lib/chrome.ts, *)
(* note-pagination.ts): the copy buttons and their toast, the menu, and    *)
(* the lists of notes shown a page at a time, whose height is reserved so  *)
(* that paging moves nothing.                                              *)
(*                                                                         *)
(* Abstractions: a note's height depends on the width of its list alone;   *)
(* the marks of the table of contents and the header's shade are left out. *)
(***************************************************************************)
EXTENDS Naturals, Sequences, FiniteSetsExt

CONSTANTS
    Heights,      \* per width, the height of each note; a width of 0 is a list not laid out
    PageOf,       \* notes per page
    MaxCopies     \* bound on the copies

VARIABLE
    box    \* the toast and its timers, the copies under way, the menu, the list

Notes    == DOMAIN Heights[1]
Total    == LET n == Len(Heights[1]) IN IF n = 0 THEN 1 ELSE (n + PageOf - 1) \div PageOf
OfPage(page) == {i \in Notes : (i - 1) \div PageOf = page}

-----------------------------------------------------------------------------
(* The notes.                                                               *)

\* What getBoundingClientRect says of a note that is shown, as all are for this.
Measured(b, i) == Heights[b.real][i]

PageHeight(b, page) == FoldSet(LAMBDA i, sum : sum + Measured(b, i), 0, OfPage(page))

\* measure: every note is shown for it and the page is restored.
Measure(b) ==
    IF Total = 1 THEN b
    ELSE [b EXCEPT !.width = b.real,
                   !.reserved = IF b.real = 0 THEN @ ELSE Max({PageHeight(b, page) : page \in 0..(Total - 1)})]

Resize(b) == IF b.real # b.width THEN Measure(b) ELSE b

Shown(b) == [b EXCEPT !.shown = OfPage(b.page)]

Init ==
    \E width \in DOMAIN Heights \union {0} :
        box = Measure([toast |-> "", visible |-> FALSE, timers |-> {}, announced |-> 0, copies |-> 0,
                       menu |-> FALSE, page |-> 0, shown |-> OfPage(0), real |-> width, width |-> width,
                       laid |-> TRUE, reserved |-> 0])

Previous == box' = Shown([box EXCEPT !.page = IF @ = 0 THEN 0 ELSE @ - 1])
Following == box' = Shown([box EXCEPT !.page = IF @ = Total - 1 THEN @ ELSE @ + 1])

\* The list gets another width; the observer tells of it later.
Reflows ==
    \E width \in DOMAIN Heights \union {0} :
        /\ width # box.real
        /\ box' = [box EXCEPT !.real = width, !.laid = FALSE]

\* The ResizeObserver, or the resize of the window.
Observed == ~box.laid /\ box' = [Resize(box) EXCEPT !.laid = TRUE]

-----------------------------------------------------------------------------
(* The toast and the menu.                                                  *)

Copy ==
    /\ box.announced + box.copies < MaxCopies
    /\ box' = [box EXCEPT !.copies = @ + 1]

\* The clipboard answers, not in any order; the last announcement replaces the timer.
Announce ==
    /\ box.copies > 0
    /\ \E text \in {"copied", "copyFailed"} :
          box' = [box EXCEPT !.copies = @ - 1, !.announced = @ + 1, !.toast = text, !.visible = TRUE,
                             !.timers = (@ \ {box.announced}) \union {box.announced + 1}]

ToastEnds ==
    \E t \in box.timers : box' = [box EXCEPT !.timers = @ \ {t}, !.visible = FALSE]

ToggleMenu == box' = [box EXCEPT !.menu = ~@]

\* A wide window, a click elsewhere, Escape.
CloseMenu == box.menu /\ box' = [box EXCEPT !.menu = FALSE]

Next ==
    Previous \/ Following \/ Reflows \/ Observed \/ Copy \/ Announce \/ ToastEnds \/ ToggleMenu \/ CloseMenu

Spec == Init /\ [][Next]_box

-----------------------------------------------------------------------------
(* Properties.                                                              *)

\* An announcement stays until its own time is over, and paging through the
\* notes never needs more height than was reserved at the list's width
\* (chrome.ts:9, note-pagination.ts:31).
NothingJumps ==
    /\ box.visible = (box.announced \in box.timers)
    /\ box.laid /\ box.real # 0 /\ Total > 1 =>
          \A page \in 0..(Total - 1) :
              box.reserved >= FoldSet(LAMBDA i, sum : sum + Heights[box.real][i], 0, OfPage(page))
    /\ box.shown = OfPage(box.page)
=============================================================================
