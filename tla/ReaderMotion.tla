---------------------------- MODULE ReaderMotion ----------------------------
(***************************************************************************)
(* Regions of the reader's page whose state outlives, or is outlived by,   *)
(* an animation (apps/web/src/lib/motion.ts): the scroll button, which is  *)
(* hidden when its exit has been played (scroll-dock.ts), a select of the  *)
(* explorer, whose list leaves after it closed (explorer.ts mountSelect),  *)
(* and the cue of the first screen, which waits for the entrance.          *)
(*                                                                         *)
(* Abstractions: a scope's jobs are the names of what each does when it    *)
(* completes; elements, easing and distances are left out; whether the     *)
(* page is scrolled far enough for the button is one Boolean.              *)
(***************************************************************************)
EXTENDS Naturals

CONSTANT Options    \* how many options the select has

VARIABLE
    box    \* the page: jobs per scope, the regions, the reader's preference, focus

Scopes == {"dock", "select", "hero"}

-----------------------------------------------------------------------------
(* createMotionScope, as changes of the page b.                             *)

\* update of the first screen: the cue moves only when it is of use.
Cue(b) == [b EXCEPT !.active = b.entered /\ b.seen /\ ~b.suspended /\ ~b.reduced]

\* What these jobs do when they complete, each to regions of its own.
Done(jobs, b) ==
    LET c == [b EXCEPT !.hidden = @ \/ "hide" \in jobs, !.leaving = @ /\ "leave" \notin jobs,
                       !.entered = @ \/ "ready" \in jobs]
    IN  IF "ready" \in jobs THEN Cue(c) ELSE c

Finish(b, scope) == Done(b.jobs[scope], [b EXCEPT !.jobs[scope] = {}])
FinishAll(b)     == Done(UNION {b.jobs[s] : s \in Scopes}, [b EXCEPT !.jobs = [s \in Scopes |-> {}]])

\* (mutation: a cancelled animation completes what it was played for)
CancelCompletes(b, scope) == Finish(b, scope)

Cancel(b, scope) == [b EXCEPT !.jobs[scope] = {}]

\* play: without animations, or for who wants none, it is over at once.
Play(b, scope, jobs) ==
    IF b.animates /\ ~b.reduced THEN [b EXCEPT !.jobs[scope] = jobs] ELSE Done(jobs, b)

Enter(b, scope)     == Play(Cancel(b, scope), scope, {"none"})
Exit(b, scope, job) == Play(Cancel(b, scope), scope, {job})

\* mountMotion: the stages of the first screen, of which the last readies the cue.
Init ==
    \E animates \in BOOLEAN, reduced \in BOOLEAN, documentHidden \in BOOLEAN :
        box = Play([jobs |-> [s \in Scopes |-> {}], animates |-> animates, reduced |-> reduced,
                    away |-> FALSE, documentHidden |-> documentHidden, focus |-> "main",
                    far |-> FALSE, frame |-> FALSE, visible |-> FALSE, hidden |-> TRUE, inert |-> TRUE,
                    open |-> FALSE, leaving |-> FALSE, value |-> 1, option |-> 1,
                    entered |-> FALSE, seen |-> FALSE, suspended |-> documentHidden, active |-> FALSE],
                   "hero", {"none", "ready"})

\* An animation comes to its end.
AnimationEnds ==
    \E scope \in Scopes : \E job \in box.jobs[scope] :
        box' = Done({job}, [box EXCEPT !.jobs[scope] = @ \ {job}])

Prefers ==
    LET b == Cue([box EXCEPT !.reduced = ~@])
    IN  box' = IF b.reduced THEN FinishAll(b) ELSE b

PageHide == ~box.away /\ box' = Cue([FinishAll(box) EXCEPT !.suspended = TRUE, !.away = TRUE])
PageShow == box.away /\ box' = Cue([box EXCEPT !.suspended = box.documentHidden, !.frame = TRUE, !.away = FALSE])

VisibilityChanges == box' = Cue([box EXCEPT !.documentHidden = ~@, !.suspended = ~box.documentHidden])

-----------------------------------------------------------------------------
(* The first screen.                                                        *)

Intersects == box' = Cue([box EXCEPT !.seen = ~@])

Interacts == box.jobs["hero"] # {} /\ box' = Finish(box, "hero")

-----------------------------------------------------------------------------
(* The scroll button.                                                       *)

Scrolls == box' = [box EXCEPT !.far = ~@, !.frame = TRUE]

UpdateDock ==
    /\ box.frame
    /\ LET b == [box EXCEPT !.frame = FALSE]
           c == [b EXCEPT !.visible = b.far, !.inert = ~b.far]
       IN  box' = IF b.visible = b.far THEN b
                  ELSE IF b.far THEN Enter([c EXCEPT !.hidden = FALSE], "dock")
                  ELSE Exit([c EXCEPT !.focus = IF @ = "dock" THEN "main" ELSE @], "dock", "hide")

\* An element that is inert takes no focus; leaving an open select closes it.
FocusDock ==
    /\ ~box.inert /\ ~box.hidden /\ ~box.open
    /\ box' = [box EXCEPT !.focus = "dock"]

-----------------------------------------------------------------------------
(* The select.                                                              *)

Closed(b) == IF b.open THEN Exit([b EXCEPT !.open = FALSE, !.leaving = TRUE], "select", "leave") ELSE b

Opened(b) == [Enter([b EXCEPT !.open = TRUE, !.leaving = FALSE], "select") EXCEPT
                 !.focus = "option", !.option = b.value]

\* The button; the first arrow key, on the button, opens too.
Trigger == box' = IF box.open THEN [Closed(box) EXCEPT !.focus = "trigger"] ELSE Opened(box)

Choose ==
    /\ box.open
    /\ \E n \in 1..Options : box' = [Closed([box EXCEPT !.value = n]) EXCEPT !.focus = "trigger"]

Arrow ==
    /\ box.open /\ box.focus = "option"
    /\ \E step \in {1, Options - 1} :
          box' = [box EXCEPT !.option = ((@ - 1 + step) % Options) + 1]

Escape == box.focus \in {"trigger", "option"} /\ box' = [Closed(box) EXCEPT !.focus = "trigger"]

\* A click elsewhere, or focus that leaves the select.
Elsewhere == box.focus \in {"trigger", "option"} /\ box' = [Closed(box) EXCEPT !.focus = "main"]

OnPage ==
    \/ AnimationEnds \/ Prefers \/ VisibilityChanges \/ Intersects \/ Interacts \/ Scrolls \/ UpdateDock
    \/ FocusDock \/ Trigger \/ Choose \/ Arrow \/ Escape \/ Elsewhere

Next == (~box.away /\ OnPage) \/ PageHide \/ PageShow

Spec == Init /\ [][Next]_box

-----------------------------------------------------------------------------
(* Properties.                                                              *)

\* Whatever is clicked or scrolled while an animation runs, and wherever it is
\* cut short, each region is left as its state says: the scroll button is there
\* when it is visible and is gone, and never focused, when it is not; a list
\* leaves only while closed and something is left to end it; the cue moves
\* exactly while it is of use (motion.ts:15, scroll-dock.ts:32, explorer.ts:121).
RegionsFollowTheirState ==
    /\ box.hidden => ~box.visible
    /\ ~box.visible => box.hidden \/ "hide" \in box.jobs["dock"]
    /\ box.inert = ~box.visible /\ (box.focus = "dock" => box.visible)
    /\ box.leaving => ~box.open /\ "leave" \in box.jobs["select"]
    /\ box.focus = "option" => box.open
    /\ box.active = (box.entered /\ box.seen /\ ~box.suspended /\ ~box.reduced)
    /\ box.entered \/ "ready" \in box.jobs["hero"]
=============================================================================
