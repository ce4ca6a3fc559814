----------------------------- MODULE WritingFocus -----------------------------
(***************************************************************************)
(* The focus mode of the Admin's editor (features/content:                 *)
(* use-writing-focus.ts, editorial-workspace.tsx, markdown-editor.tsx).    *)
(* The editor stays where it is in the page; all else is made inert and    *)
(* does not scroll, and is given back what it had on leaving.  Two editors,*)
(* one per language, share one session; either may be the one shown; a     *)
(* draft may be locked and parts of the page may appear at any moment.     *)
(*                                                                         *)
(* Abstractions: a commit of React with its layout effects is one step,    *)
(* its passive effects are a later one, and come before the next commit;   *)
(* an element is named by its place, the two editors' own places included; *)
(* the scroll of the three scrolling nodes is one number; where the        *)
(* keyboard is, which is held within the editor, is left out.              *)
(***************************************************************************)
EXTENDS Naturals, FiniteSets

CONSTANTS
    Beside,      \* places beside an ancestor of the editors, within the page
    Portals,     \* places directly below the document's body
    MaxChanges   \* bound on the parts of the page that appear, go and scroll

Editors == {"zh", "en"}
Places  == Beside \union Portals \union Editors

VARIABLE
    box    \* the session, the locale, the lock; the places that are there, those
           \* inert by themselves and those inert in the page; the overflow and
           \* scroll of the page; per editor: whether it is in focus mode, what it
           \* found inert or not, the overflow found, the scroll kept (<<>>: none);
           \* whose passive effects are to come, and whether the lock's is; "before"
           \* is bookkeeping, the scroll on entering

Idle == [focused |-> FALSE, background |-> {}, overflow |-> "auto", scroll |-> <<>>]

Init ==
    \E present \in SUBSET (Beside \union Portals), own \in SUBSET Beside :
        box = [active |-> FALSE, locale |-> "zh", locked |-> FALSE,
               present |-> present \union Editors, own |-> own \intersect present, inert |-> own \intersect present,
               overflow |-> "auto", scroll |-> 0, hook |-> [h \in Editors |-> Idle],
               passive |-> {}, unseen |-> FALSE, changes |-> 0, before |-> 0]

-----------------------------------------------------------------------------
(* The effects of the hook.                                                 *)

\* (mutation: every element of the background is taken to have been live)
LeaveAll(b, h) ==
    [b EXCEPT !.inert = @ \ {x[1] : x \in b.hook[h].background}, !.overflow = b.hook[h].overflow,
              !.scroll = IF b.hook[h].scroll = <<>> THEN @ ELSE b.hook[h].scroll[1],
              !.hook[h].focused = FALSE, !.hook[h].background = {}]

\* The layout effect undone: what was not inert is live again.
Leave(b, h) ==
    [b EXCEPT !.inert = @ \ {x[1] : x \in {x \in b.hook[h].background : ~x[2]}}, !.overflow = b.hook[h].overflow,
              !.scroll = IF b.hook[h].scroll = <<>> THEN @ ELSE b.hook[h].scroll[1],
              !.hook[h].focused = FALSE, !.hook[h].background = {}]

\* isolate: the places of one level that are not in the background yet.
Isolate(b, h, places) ==
    LET new == {e \in (places \intersect b.present) \ {h} : \A x \in b.hook[h].background : x[1] # e}
    IN  [b EXCEPT !.hook[h].background = @ \union {<<e, e \in b.inert>> : e \in new}, !.inert = @ \union new]

\* The layout effect: every level up to the body, and the scroll, if toggle has not kept it.
Enter(b, h) ==
    [Isolate(b, h, Places) EXCEPT !.hook[h].scroll = IF @ = <<>> THEN <<b.scroll>> ELSE @, !.hook[h].overflow = b.overflow,
                                  !.hook[h].focused = TRUE, !.overflow = "hidden"]

Focused(b, h) == b.active /\ b.locale = h /\ ~b.locked

\* A commit: all that ends is undone before anything begins.
Commit(b) ==
    LET ending    == {h \in Editors : b.hook[h].focused /\ ~Focused(b, h)}
        beginning == {h \in Editors : ~b.hook[h].focused /\ Focused(b, h)}
        left      == IF ending = {} THEN b ELSE Leave(b, CHOOSE h \in ending : TRUE)
        entered   == IF beginning = {} THEN left ELSE Enter(left, CHOOSE h \in beginning : TRUE)
    IN  [entered EXCEPT !.passive = ending \union beginning]

\* The passive effects: the scroll once more and the keyboard; a lock ends the session.
Settled(b) ==
    LET done == {h \in b.passive : ~b.hook[h].focused}
        back == {h \in done : b.hook[h].scroll # <<>>}
    IN  [b EXCEPT !.scroll = IF back = {} THEN @ ELSE b.hook[CHOOSE h \in back : TRUE].scroll[1],
                  !.hook = [h \in Editors |-> IF h \in done THEN [b.hook[h] EXCEPT !.scroll = <<>>] ELSE b.hook[h]],
                  !.active = @ /\ ~b.locked, !.passive = {}, !.unseen = FALSE]

Settle == (box.passive # {} \/ box.unseen) /\ box' = Commit(Settled(box))

-----------------------------------------------------------------------------
(* The author.                                                              *)

\* The button, which a locked draft does not have, and Escape within the editor.
Toggle ==
    /\ ~box.locked
    /\ LET h    == box.locale
           b    == Settled(box)
           kept == IF b.hook[h].focused THEN b ELSE [b EXCEPT !.hook[h].scroll = <<b.scroll>>, !.before = b.scroll]
       IN  box' = Commit([kept EXCEPT !.active = ~b.hook[h].focused])

\* The buttons among the editor's tools.
SwitchLocale ==
    \E h \in Editors \ {box.locale} : box' = Commit([Settled(box) EXCEPT !.locale = h])

-----------------------------------------------------------------------------
(* The page.                                                                *)

Changed(b) == [b EXCEPT !.changes = @ + 1]

\* A submission, a review or a publication elsewhere locks the draft.
Lock ==
    /\ box.changes < MaxChanges
    /\ box' = Commit([Changed(Settled(box)) EXCEPT !.locked = ~@, !.unseen = ~box.locked])

\* An error, the panel of a conflict, a dialog: a new element, live or not by itself.
Appear ==
    /\ box.changes < MaxChanges
    /\ \E e \in (Beside \union Portals) \ box.present, own \in BOOLEAN :
          /\ own => e \in Beside
          /\ box' = [Changed(box) EXCEPT !.present = @ \union {e}, !.own = IF own THEN @ \union {e} ELSE @,
                                         !.inert = IF own THEN @ \union {e} ELSE @]

\* The observer, told of the levels below the body.
Observed ==
    \E h \in Editors : /\ box.hook[h].focused /\ Isolate(box, h, Beside) # box
                       /\ box' = Isolate(box, h, Beside)

Without(hook, e) == [hook EXCEPT !.background = {x \in @ : x[1] # e}]

Vanish ==
    /\ box.changes < MaxChanges
    /\ \E e \in box.present \ Editors :
          box' = [Changed(box) EXCEPT !.present = @ \ {e}, !.own = @ \ {e}, !.inert = @ \ {e},
                                      !.hook = [h \in Editors |-> Without(@[h], e)]]

\* The author scrolls; a page whose editor covers it may be clamped by the browser.
Scroll == box.changes < MaxChanges /\ box' = [Changed(box) EXCEPT !.scroll = 1 - @]

Next ==
    \/ Settle \/ Toggle \/ SwitchLocale \/ Lock \/ Appear \/ Observed \/ Vanish \/ Scroll

Spec == Init /\ [][Next]_box

-----------------------------------------------------------------------------
(* Properties.                                                              *)

InFocus(b)  == {h \in Editors : b.hook[h].focused}
Unseen(b)   == \E h \in InFocus(b) : Isolate(b, h, Beside) # b

\* In focus mode, once the observer has run, nothing within the page but the editor
\* shown is live, what opens over it stays live, and the page does not scroll; out of
\* it every element is as live as it is by itself and the page scrolls again,
\* whatever appeared, went, was locked or changed its language; and a locked draft
\* has no session left that would begin again when it is unlocked
\* (use-writing-focus.ts:58-141, editorial-workspace.tsx:46-63, 117-151).
OnlyTheEditorIsLive ==
    /\ Cardinality(InFocus(box)) <= 1
    /\ \A h \in InFocus(box) :
          /\ box.locale = h /\ ~box.locked /\ box.overflow = "hidden"
          /\ ~Unseen(box) => (Beside \intersect box.present) \union (Editors \ {h}) \subseteq box.inert /\ h \notin box.inert
    /\ InFocus(box) = {} => box.inert = box.own /\ box.overflow = "auto"
    /\ box.locked /\ ~box.unseen => ~box.active

\* Leaving focus mode, in whichever way, gives back the scroll the page had when it
\* was entered (use-writing-focus.ts:47-55, 64-71, 124-141).
LeavesAsFound(old, new) == InFocus(old) # {} /\ InFocus(new) = {} => new.scroll = old.before
===============================================================================
