---------------------------- MODULE ReaderTheme -----------------------------
(***************************************************************************)
(* The theme of the reader's page, changed under a view transition         *)
(* (apps/web/src/lib/theme.ts), and the comments, which are told of it     *)
(* (discussion.ts).  The browser runs a transition's callback some time    *)
(* after it was started, and even when it has been skipped; the page may   *)
(* be hidden, resized or left at any time.                                 *)
(*                                                                         *)
(* Abstraction: a transition is how far the browser is with it; the        *)
(* geometry of the reveal is left out.                                     *)
(***************************************************************************)
EXTENDS Naturals, Sequences

CONSTANT MaxClicks    \* bound on the clicks of the button

VARIABLE
    box    \* the theme, what is stored of it, the transitions started and the
           \* active one (0: none), the button's aria-busy, the comments

Themes   == {"light", "dark"}
Other(t) == IF t = "light" THEN "dark" ELSE "light"

Init ==
    \E theme \in Themes, capable \in BOOLEAN, stores \in BOOLEAN, comments \in BOOLEAN :
        box = [theme |-> theme, stored |-> theme, stores |-> stores, capable |-> capable,
               reduced |-> FALSE, documentHidden |-> FALSE, chosen |-> theme, clicks |-> 0,
               jobs |-> <<>>, active |-> 0, busy |-> FALSE,
               comments |-> IF comments THEN "offered" ELSE "off", frame |-> theme, missed |-> FALSE,
               fallback |-> FALSE]

Applies(b, j) == ~b.jobs[j].applied

\* What a changed theme does: it is stored if it can be, and the frame of the
\* comments is told, when there is one.
Themed(b, theme) ==
    [b EXCEPT !.theme = theme,
              !.stored = IF b.stores THEN theme ELSE @,
              !.frame = IF b.comments = "shown" THEN theme ELSE @,
              !.missed = @ \/ b.comments = "loading"]

Apply(b, j) == IF Applies(b, j) THEN Themed([b EXCEPT !.jobs[j].applied = TRUE], b.jobs[j].theme) ELSE b

Ended(job, skip) == [job EXCEPT !.skipped = @ \/ skip, !.revealing = FALSE]

\* finish: with skip the browser ends the transition, which it does in its own time.
Finish(b, j, skip) ==
    IF b.active # j THEN b
    ELSE [Apply(b, j) EXCEPT !.jobs[j] = Ended(@, skip),
                             !.active = 0, !.busy = FALSE]

Stop(b) == IF b.active = 0 THEN b ELSE Finish(b, b.active, TRUE)

\* A click during a reveal is ignored.  Starting a transition may throw.
Toggle ==
    /\ box.clicks < MaxClicks
    /\ LET theme == Other(box.theme)
           b     == [box EXCEPT !.clicks = @ + 1, !.chosen = theme]
           j     == Len(box.jobs) + 1
           c     == [b EXCEPT !.active = j, !.busy = TRUE, !.jobs = Append(@,
                        [theme |-> theme, applied |-> FALSE, skipped |-> FALSE, revealing |-> FALSE, at |-> "started"])]
       IN  IF box.active # 0 THEN box' = [box EXCEPT !.clicks = @ + 1]
           ELSE IF ~box.capable \/ box.reduced \/ box.documentHidden THEN box' = Themed(b, theme)
           ELSE \/ box' = c
                \/ box' = Finish([c EXCEPT !.jobs[j].at = "over"], j, TRUE)

\* The browser calls back, for a skipped transition too.
CallsBack(j) ==
    /\ box.jobs[j].at = "started"
    /\ box' = Apply([box EXCEPT !.jobs[j].at = "updated"], j)

Ready(j) ==
    /\ box.jobs[j].at = "updated" /\ ~box.jobs[j].skipped
    /\ LET b == [box EXCEPT !.jobs[j].at = "ready"] IN
       box' = IF b.active # j THEN b
              ELSE IF b.documentHidden \/ b.reduced THEN Finish(b, j, TRUE)
              ELSE [b EXCEPT !.jobs[j].revealing = TRUE]

Finished(j) ==
    /\ box.jobs[j].at = "ready" \/ (box.jobs[j].at = "updated" /\ box.jobs[j].skipped)
    /\ box' = Finish([box EXCEPT !.jobs[j].at = "over"], j, FALSE)

VisibilityChanges ==
    LET b == [box EXCEPT !.documentHidden = ~@] IN box' = IF b.documentHidden THEN Stop(b) ELSE b

Prefers ==
    LET b == [box EXCEPT !.reduced = ~@] IN box' = IF b.reduced THEN Stop(b) ELSE b

\* resize, pagehide, pageswap; and ready, the callback, finished or the reveal rejected.
Interrupted == box.active # 0 /\ box' = Stop(box)

-----------------------------------------------------------------------------
(* The comments: the script has the theme of when it was added.             *)

LoadComments ==
    /\ box.comments = "offered"
    /\ box' = [box EXCEPT !.comments = "loading", !.frame = box.theme]

FrameAppears ==
    /\ box.comments = "loading"
    /\ box' = [box EXCEPT !.comments = "shown"]

\* The script fails, or shows nothing for 15 seconds; a frame may still come.
CommentsFail ==
    /\ box.comments = "loading"
    /\ box' = [box EXCEPT !.fallback = TRUE]

Next ==
    \/ Toggle \/ VisibilityChanges \/ Prefers \/ Interrupted
    \/ LoadComments \/ FrameAppears \/ CommentsFail
    \/ \E j \in DOMAIN box.jobs : CallsBack(j) \/ Ready(j) \/ Finished(j)

Spec == Init /\ [][Next]_box

-----------------------------------------------------------------------------
(* Properties.                                                              *)

\* However transitions are interrupted and however late the browser calls them
\* back, once none is active the page has the theme last chosen, what is stored
\* is what is shown, and the comments follow, unless the theme changed while
\* their script was on its way; the button is busy exactly while one is active
\* (theme.ts:14, 32, discussion.ts:76).
ThemeIsTheLastChosen ==
    /\ box.active = 0 => box.theme = box.chosen
    /\ box.busy = (box.active # 0)
    /\ box.stores => box.stored = box.theme
    /\ box.comments = "shown" /\ ~box.missed => box.frame = box.theme
    /\ \A j \in DOMAIN box.jobs : box.jobs[j].revealing => j = box.active
=============================================================================
