----------------------------- MODULE DeskProofs -----------------------------
(***************************************************************************)
(* The author's and the operator's desk: the editor's focus mode, the      *)
(* filters of the content list, the image library, the relations of a      *)
(* draft and the import of the old site.  For each of them an invariant of *)
(* its box, that it holds at first and is kept by every step, and that it  *)
(* gives the part's property.                                              *)
(***************************************************************************)
EXTENDS Periphery, Listing, SequenceTheorems, FiniteSetTheorems, WellFoundedInduction, TLAPS

-----------------------------------------------------------------------------
(* Focus mode: what it made inert is what it remembers.                     *)

FocusFields ==
    {"active", "locale", "locked", "present", "own", "inert", "overflow", "scroll", "hook", "passive", "unseen", "changes", "before"}
HookFields == {"focused", "background", "overflow", "scroll"}

Firsts(background) == {x[1] : x \in background}

HookShape(one) == one = [f \in HookFields |-> one[f]] /\ one.focused \in BOOLEAN

FocusShape(b) ==
    /\ b = [f \in FocusFields |-> b[f]]
    /\ b.hook = [h \in Focus!Editors |-> b.hook[h]]
    /\ \A h \in Focus!Editors : HookShape(b.hook[h])
    /\ b.active \in BOOLEAN /\ b.locked \in BOOLEAN /\ b.unseen \in BOOLEAN
    /\ b.locale \in Focus!Editors /\ b.passive \subseteq Focus!Editors
    /\ Focus!Editors \subseteq b.present /\ b.own \subseteq Beside \intersect b.present

\* What is inert is so by itself or in the background of h, which tells the one from the other.
Covers(b, h) ==
    /\ b.inert = b.own \union Firsts(b.hook[h].background)
    /\ \A x \in b.hook[h].background : x[1] \in b.present \ {h} /\ (x[2] <=> x[1] \in b.own)

Focuses(b, h) ==
    /\ Covers(b, h) /\ Focus!Editors \ {h} \subseteq Firsts(b.hook[h].background)
    /\ b.overflow = "hidden" /\ b.hook[h].overflow = "auto" /\ b.hook[h].scroll = <<b.before>>

NoneFocused(b) == \A h \in Focus!Editors : ~b.hook[h].focused

\* Between the end of an effect and the beginning of the next: at most one editor is in focus mode.
FocusHeld(b) ==
    /\ FocusShape(b)
    /\ \A h, g \in Focus!Editors : b.hook[h].focused /\ b.hook[g].focused => h = g
    /\ \A h \in Focus!Editors : ~b.hook[h].focused => b.hook[h].background = {}
    /\ \A h \in Focus!Editors : b.hook[h].focused => Focuses(b, h)
    /\ NoneFocused(b) => b.inert = b.own /\ b.overflow = "auto"

\* After a commit: who is in focus mode is who should be, a scroll is kept only by it or
\* until the passive effects, and a lock whose effect has run has ended the session.
FocusGood(b) ==
    /\ FocusHeld(b)
    /\ \A h \in Focus!Editors : b.hook[h].focused <=> Focus!Focused(b, h)
    /\ \A h \in Focus!Editors \ b.passive : ~b.hook[h].focused => b.hook[h].scroll = <<>>
    /\ b.locked /\ ~b.unseen => ~b.active

\* What the effects leave alone.
FocusSame(c, b) ==
    /\ c.active = b.active /\ c.locale = b.locale /\ c.locked = b.locked /\ c.unseen = b.unseen
    /\ c.present = b.present /\ c.own = b.own /\ c.before = b.before /\ c.passive = b.passive

LEMMA EditorsAreTwo == "zh" \in Focus!Editors /\ "en" \in Focus!Editors /\ \A h \in Focus!Editors : h = "zh" \/ h = "en"
BY DEF Focus!Editors

LEMMA FocusInit ==
    ASSUME Focus!Init
    PROVE  FocusGood(state)
<1>1. PICK present \in SUBSET (Beside \union Portals), own \in SUBSET Beside :
        state = [active |-> FALSE, locale |-> "zh", locked |-> FALSE,
               present |-> present \union Focus!Editors, own |-> own \intersect present, inert |-> own \intersect present,
               overflow |-> "auto", scroll |-> 0, hook |-> [h \in Focus!Editors |-> Focus!Idle],
               passive |-> {}, unseen |-> FALSE, changes |-> 0, before |-> 0]
    BY DEF Focus!Init
<1> DEFINE hook == [h \in Focus!Editors |-> Focus!Idle]
<1>2. \A h \in Focus!Editors : hook[h] = Focus!Idle
    OBVIOUS
<1>3. hook = [h \in Focus!Editors |-> hook[h]]
    OBVIOUS
<1> HIDE DEF hook
<1>4. HookShape(Focus!Idle) /\ Focus!Idle.focused = FALSE /\ Focus!Idle.background = {} /\ Focus!Idle.scroll = <<>>
    BY DEF Focus!Idle, HookFields, HookShape
<1>5. /\ state = [f \in FocusFields |-> state[f]] /\ state.hook = hook
      /\ state.active = FALSE /\ state.locale = "zh" /\ state.locked = FALSE /\ state.unseen = FALSE
      /\ state.present = present \union Focus!Editors /\ state.own = own \intersect present /\ state.inert = state.own
      /\ state.overflow = "auto" /\ state.passive = {}
    BY <1>1 DEF FocusFields, hook
<1>6. FocusShape(state)
    BY <1>2, <1>3, <1>4, <1>5, EditorsAreTwo DEF FocusShape
<1>7. FocusHeld(state)
    BY <1>2, <1>4, <1>5, <1>6 DEF FocusHeld
<1> QED  BY <1>2, <1>4, <1>5, <1>7 DEF FocusGood, Focus!Focused

\* One hook is another, the rest of the shape is the same.
LEMMA HookReplaced ==
    ASSUME NEW b, FocusShape(b), NEW h \in Focus!Editors, NEW one, HookShape(one)
    PROVE  LET hook == [b.hook EXCEPT ![h] = one] IN
           /\ hook = [g \in Focus!Editors |-> hook[g]] /\ hook[h] = one
           /\ \A g \in Focus!Editors : g # h => hook[g] = b.hook[g]
           /\ \A g \in Focus!Editors : HookShape(hook[g])
<1> DEFINE hook == [b.hook EXCEPT ![h] = one]
<1>1. b.hook = [g \in Focus!Editors |-> b.hook[g]] /\ \A g \in Focus!Editors : HookShape(b.hook[g])
    BY DEF FocusShape
<1>2. /\ hook = [g \in Focus!Editors |-> hook[g]] /\ hook[h] = one
      /\ \A g \in Focus!Editors : g # h => hook[g] = b.hook[g]
    BY <1>1
<1> HIDE DEF hook
<1>3. \A g \in Focus!Editors : HookShape(hook[g])
    BY <1>1, <1>2
<1> QED  BY <1>2, <1>3 DEF hook

LEMMA FocusLeaves ==
    ASSUME NEW b, FocusHeld(b), NEW h \in Focus!Editors, b.hook[h].focused
    PROVE  LET c == Focus!Leave(b, h) IN
           /\ FocusHeld(c) /\ NoneFocused(c) /\ FocusSame(c, b) /\ c.scroll = b.before
           /\ \A g \in Focus!Editors : c.hook[g].scroll = b.hook[g].scroll
<1> DEFINE live   == {x[1] : x \in {x \in b.hook[h].background : ~x[2]}}
           inert  == b.inert \ live
           scroll == IF b.hook[h].scroll = <<>> THEN b.scroll ELSE b.hook[h].scroll[1]
           one    == [b.hook[h] EXCEPT !.focused = FALSE, !.background = {}]
           hook   == [b.hook EXCEPT ![h] = one]
           c      == [b EXCEPT !.inert = inert, !.overflow = b.hook[h].overflow, !.scroll = scroll, !.hook = hook]
<1>1. Focus!Leave(b, h) = c
    BY ZenonT(60) DEF Focus!Leave
<1>2. FocusShape(b) /\ Focuses(b, h) /\ Covers(b, h)
    BY DEF FocusHeld, Focuses
<1>3. inert = b.own
    <2>1. \A e \in live : e \notin b.own
        BY <1>2 DEF Covers
    <2>2. \A e \in Firsts(b.hook[h].background) : e \in b.own \/ e \in live
        BY <1>2 DEF Covers, Firsts
    <2> HIDE DEF live
    <2> QED  BY <1>2, <2>1, <2>2 DEF Covers
<1>4. scroll = b.before
    BY <1>2 DEF Focuses
<1>5. HookShape(one) /\ one.focused = FALSE /\ one.background = {} /\ one.scroll = b.hook[h].scroll
    <2>1. HookShape(b.hook[h])
        BY <1>2 DEF FocusShape
    <2> QED  BY <2>1 DEF HookShape, HookFields
<1> HIDE DEF inert, scroll, one
<1>6. /\ hook = [g \in Focus!Editors |-> hook[g]] /\ hook[h] = one
      /\ \A g \in Focus!Editors : g # h => hook[g] = b.hook[g]
      /\ \A g \in Focus!Editors : HookShape(hook[g])
    BY <1>2, <1>5, HookReplaced
<1> HIDE DEF hook
<1>7. /\ c = [f \in FocusFields |-> c[f]] /\ FocusSame(c, b) /\ c.hook = hook /\ c.inert = b.own /\ c.scroll = b.before
      /\ c.overflow = "auto"
    BY <1>2, <1>3, <1>4 DEF FocusShape, FocusFields, FocusSame, Focuses
<1> HIDE DEF c
<1>8. \A g \in Focus!Editors : ~hook[g].focused /\ hook[g].background = {} /\ hook[g].scroll = b.hook[g].scroll
    BY <1>5, <1>6 DEF FocusHeld
<1>9. FocusShape(c)
    BY <1>2, <1>6, <1>7 DEF FocusShape, FocusSame
<1>10. FocusHeld(c) /\ NoneFocused(c)
    BY <1>7, <1>8, <1>9 DEF FocusHeld, NoneFocused, FocusSame
<1> QED  BY <1>1, <1>7, <1>8, <1>10

\* A place and whether it is inert.
LEMMA Pairs ==
    ASSUME NEW e, NEW S
    PROVE  <<e, e \in S>>[1] = e /\ (<<e, e \in S>>[2] <=> e \in S)
OBVIOUS

LEMMA FocusIsolates ==
    ASSUME NEW b, FocusShape(b), NEW h \in Focus!Editors, Covers(b, h), NEW places
    PROVE  LET c == Focus!Isolate(b, h, places) IN
           /\ FocusShape(c) /\ Covers(c, h) /\ FocusSame(c, b)
           /\ c.overflow = b.overflow /\ c.scroll = b.scroll
           /\ \A g \in Focus!Editors : g # h => c.hook[g] = b.hook[g]
           /\ \A f \in HookFields \ {"background"} : c.hook[h][f] = b.hook[h][f]
           /\ Firsts(b.hook[h].background) \subseteq Firsts(c.hook[h].background)
           /\ (places \intersect b.present) \ {h} \subseteq Firsts(c.hook[h].background)
<1> DEFINE old        == b.hook[h].background
           new        == {e \in (places \intersect b.present) \ {h} : \A x \in old : x[1] # e}
           background == old \union {<<e, e \in b.inert>> : e \in new}
           inert      == b.inert \union new
           one        == [b.hook[h] EXCEPT !.background = background]
           hook       == [b.hook EXCEPT ![h] = one]
           c          == [b EXCEPT !.hook = hook, !.inert = inert]
<1>1. Focus!Isolate(b, h, places) = c
    BY DEF Focus!Isolate
<1>2. \A x \in background : x \in old \/ \E e \in new : x[1] = e /\ (x[2] <=> e \in b.inert)
    BY Pairs
<1>3. ASSUME NEW e \in new  PROVE \E x \in background : x[1] = e
    <2>1. <<e, e \in b.inert>> \in background
        OBVIOUS
    <2> QED  BY <2>1
<1>4. old \subseteq background
    OBVIOUS
<1> HIDE DEF background
<1>5. Firsts(background) = Firsts(old) \union new
    BY <1>2, <1>3, <1>4 DEF Firsts
<1>6. new \intersect Firsts(old) = {} /\ new \subseteq b.present \ {h} /\ (places \intersect b.present) \ {h} \subseteq Firsts(old) \union new
    BY DEF Firsts
<1> HIDE DEF new
<1>7. /\ inert = b.own \union Firsts(background)
      /\ \A x \in background : x[1] \in b.present \ {h} /\ (x[2] <=> x[1] \in b.own)
    <2>1. \A e \in new : e \in b.inert <=> e \in b.own
        BY <1>6 DEF Covers
    <2> QED  BY <1>2, <1>5, <1>6, <2>1 DEF Covers
<1> HIDE DEF inert
<1>8. /\ HookShape(one) /\ one.background = background
      /\ \A f \in HookFields \ {"background"} : one[f] = b.hook[h][f]
    <2>1. HookShape(b.hook[h])
        BY DEF FocusShape
    <2> QED  BY <2>1 DEF HookShape, HookFields
<1> HIDE DEF one
<1>9. /\ hook = [g \in Focus!Editors |-> hook[g]] /\ hook[h] = one
      /\ \A g \in Focus!Editors : g # h => hook[g] = b.hook[g]
      /\ \A g \in Focus!Editors : HookShape(hook[g])
    BY <1>8, HookReplaced
<1> HIDE DEF hook
<1>10. /\ c = [f \in FocusFields |-> c[f]] /\ FocusSame(c, b) /\ c.hook = hook /\ c.inert = inert
       /\ c.overflow = b.overflow /\ c.scroll = b.scroll
    BY DEF FocusShape, FocusFields, FocusSame
<1> HIDE DEF c
<1>11. FocusShape(c)
    BY <1>9, <1>10 DEF FocusShape, FocusSame
<1>12. Covers(c, h)
    BY <1>7, <1>8, <1>9, <1>10 DEF Covers, FocusSame
<1> QED  BY <1>1, <1>5, <1>6, <1>8, <1>9, <1>10, <1>11, <1>12

LEMMA FocusEnters ==
    ASSUME NEW b, FocusHeld(b), NoneFocused(b), NEW h \in Focus!Editors,
           b.hook[h].scroll = <<b.before>> \/ (b.hook[h].scroll = <<>> /\ b.scroll = b.before)
    PROVE  LET c == Focus!Enter(b, h) IN
           /\ FocusHeld(c) /\ c.hook[h].focused /\ FocusSame(c, b)
           /\ \A g \in Focus!Editors : g # h => c.hook[g] = b.hook[g]
<1> DEFINE i    == Focus!Isolate(b, h, Focus!Places)
           kept == IF i.hook[h].scroll = <<>> THEN <<b.scroll>> ELSE i.hook[h].scroll
           one  == [i.hook[h] EXCEPT !.scroll = kept, !.overflow = b.overflow, !.focused = TRUE]
           hook == [i.hook EXCEPT ![h] = one]
           c    == [i EXCEPT !.hook = hook, !.overflow = "hidden"]
<1>1. FocusShape(b) /\ b.overflow = "auto" /\ b.inert = b.own /\ \A g \in Focus!Editors : b.hook[g].background = {}
    BY DEF FocusHeld, NoneFocused
<1>2. Covers(b, h)
    BY <1>1 DEF Covers, Firsts
<1>3. /\ FocusShape(i) /\ Covers(i, h) /\ FocusSame(i, b)
      /\ i.overflow = b.overflow /\ i.scroll = b.scroll
      /\ \A g \in Focus!Editors : g # h => i.hook[g] = b.hook[g]
      /\ \A f \in HookFields \ {"background"} : i.hook[h][f] = b.hook[h][f]
      /\ (Focus!Places \intersect b.present) \ {h} \subseteq Firsts(i.hook[h].background)
    BY <1>1, <1>2, FocusIsolates
<1>4. Focus!Editors \ {h} \subseteq Firsts(i.hook[h].background)
    BY <1>1, <1>3 DEF FocusShape, Focus!Places
<1>5. Focus!Enter(b, h) = c
    <2>1. h \in DOMAIN i.hook
        BY <1>3 DEF FocusShape
    <2> HIDE DEF i
    <2> QED  BY <2>1, ZenonT(60) DEF Focus!Enter, i
<1> HIDE DEF i
<1>6. kept = <<b.before>>
    BY <1>3 DEF HookFields
<1> HIDE DEF kept
<1>7. /\ HookShape(one) /\ one.focused = TRUE /\ one.scroll = kept /\ one.overflow = b.overflow
      /\ one.background = i.hook[h].background
    <2>1. HookShape(i.hook[h])
        BY <1>3 DEF FocusShape
    <2> QED  BY <2>1 DEF HookShape, HookFields
<1> HIDE DEF one
<1>8. /\ hook = [g \in Focus!Editors |-> hook[g]] /\ hook[h] = one
      /\ \A g \in Focus!Editors : g # h => hook[g] = i.hook[g]
      /\ \A g \in Focus!Editors : HookShape(hook[g])
    BY <1>3, <1>7, HookReplaced
<1> HIDE DEF hook
<1>9. /\ c = [f \in FocusFields |-> c[f]] /\ FocusSame(c, i) /\ c.hook = hook /\ c.inert = i.inert /\ c.overflow = "hidden"
    BY <1>3 DEF FocusShape, FocusFields, FocusSame
<1> HIDE DEF c
<1>10. FocusShape(c)
    BY <1>3, <1>8, <1>9 DEF FocusShape, FocusSame
<1>11. Covers(c, h)
    BY <1>3, <1>7, <1>8, <1>9 DEF Covers, FocusSame
<1>12. Focuses(c, h)
    BY <1>1, <1>3, <1>4, <1>6, <1>7, <1>8, <1>9, <1>11 DEF Focuses, FocusSame
<1>13. FocusSame(c, b)
    BY <1>3, <1>9 DEF FocusSame
<1>14. \A g \in Focus!Editors : g # h => ~c.hook[g].focused /\ c.hook[g].background = {} /\ c.hook[g] = b.hook[g]
    BY <1>1, <1>3, <1>8, <1>9 DEF NoneFocused
<1>15. FocusHeld(c) /\ c.hook[h].focused
    BY <1>7, <1>8, <1>9, <1>10, <1>12, <1>14 DEF FocusHeld, NoneFocused
<1> QED  BY <1>5, <1>13, <1>14, <1>15

\* What a commit is given: a scroll is kept only where it will be needed, and is that of the entering.
CommitReady(b) ==
    /\ FocusHeld(b)
    /\ \A h \in Focus!Editors : ~b.hook[h].focused =>
          \/ b.hook[h].scroll = <<>>
          \/ Focus!Focused(b, h) /\ b.hook[h].scroll = <<b.before>>
    /\ \A h \in Focus!Editors : ~b.hook[h].focused /\ Focus!Focused(b, h) /\ b.hook[h].scroll = <<>> =>
          \E g \in Focus!Editors : b.hook[g].focused
    /\ b.locked /\ ~b.unseen => ~b.active

LEMMA FocusCommits ==
    ASSUME NEW b, CommitReady(b)
    PROVE  LET c == Focus!Commit(b) IN
           /\ FocusGood(c)
           /\ ~NoneFocused(b) /\ NoneFocused(c) => c.scroll = b.before
<1> DEFINE ending    == {h \in Focus!Editors : b.hook[h].focused /\ ~Focus!Focused(b, h)}
           beginning == {h \in Focus!Editors : ~b.hook[h].focused /\ Focus!Focused(b, h)}
           left      == IF ending = {} THEN b ELSE Focus!Leave(b, CHOOSE h \in ending : TRUE)
           entered   == IF beginning = {} THEN left ELSE Focus!Enter(left, CHOOSE h \in beginning : TRUE)
           passive   == ending \union beginning
           c         == [entered EXCEPT !.passive = passive]
<1>1. Focus!Commit(b) = c
    BY DEF Focus!Commit
<1>2. FocusHeld(b) /\ FocusShape(b)
    BY DEF CommitReady, FocusHeld
<1>3. \A h, g \in Focus!Editors : Focus!Focused(b, h) /\ Focus!Focused(b, g) => h = g
    BY DEF Focus!Focused
<1>4. /\ FocusHeld(left) /\ FocusSame(left, b)
      /\ \A g \in Focus!Editors : left.hook[g].scroll = b.hook[g].scroll
      /\ \A g \in Focus!Editors : left.hook[g].focused => Focus!Focused(b, g) /\ b.hook[g].focused
      /\ ending # {} => NoneFocused(left) /\ left.scroll = b.before
      /\ ending = {} => left = b
    <2>1. CASE ending = {}
        BY <1>2, <2>1 DEF FocusSame
    <2>2. CASE ending # {}
        <3> DEFINE h == CHOOSE h \in ending : TRUE
        <3>1. h \in ending
            BY <2>2
        <3>2. h \in Focus!Editors /\ b.hook[h].focused
            BY <3>1
        <3>3. left = Focus!Leave(b, h)
            BY <2>2
        <3> HIDE DEF h, left, ending
        <3>4. /\ FocusHeld(left) /\ NoneFocused(left) /\ FocusSame(left, b) /\ left.scroll = b.before
              /\ \A g \in Focus!Editors : left.hook[g].scroll = b.hook[g].scroll
            BY <1>2, <3>2, <3>3, FocusLeaves
        <3> QED  BY <2>2, <3>4 DEF NoneFocused
    <2> QED  BY <2>1, <2>2
<1> HIDE DEF left
<1>5. /\ FocusHeld(entered) /\ FocusSame(entered, b)
      /\ \A g \in Focus!Editors : entered.hook[g].focused <=> Focus!Focused(b, g)
      /\ \A g \in Focus!Editors \ passive : entered.hook[g].scroll = b.hook[g].scroll
      /\ NoneFocused(entered) => entered = left
    <2>1. CASE beginning = {}
        <3>1. \A g \in Focus!Editors : Focus!Focused(b, g) => b.hook[g].focused /\ ending = {}
            BY <1>2, <1>3, <2>1 DEF FocusHeld
        <3> QED  BY <1>4, <2>1, <3>1
    <2>2. CASE beginning # {}
        <3> DEFINE h == CHOOSE h \in beginning : TRUE
        <3>1. h \in beginning
            BY <2>2
        <3>2. h \in Focus!Editors /\ ~b.hook[h].focused /\ Focus!Focused(b, h)
            BY <3>1
        <3>3. entered = Focus!Enter(left, h)
            BY <2>2
        <3> HIDE DEF h
        <3>4. \A g \in Focus!Editors : b.hook[g].focused => g \in ending
            BY <1>3, <3>2
        <3>5. NoneFocused(left)
            BY <1>4, <3>4 DEF NoneFocused
        <3>6. left.hook[h].scroll = <<left.before>> \/ (left.hook[h].scroll = <<>> /\ left.scroll = left.before)
            BY <1>4, <3>2, <3>4 DEF CommitReady, FocusSame
        <3> HIDE DEF entered, ending, beginning
        <3>7. /\ FocusHeld(entered) /\ entered.hook[h].focused /\ FocusSame(entered, left)
              /\ \A g \in Focus!Editors : g # h => entered.hook[g] = left.hook[g]
            BY <1>4, <3>2, <3>3, <3>5, <3>6, FocusEnters
        <3>8. \A g \in Focus!Editors : entered.hook[g].focused <=> Focus!Focused(b, g)
            BY <1>3, <3>2, <3>5, <3>7 DEF NoneFocused
        <3>9. \A g \in Focus!Editors \ passive : entered.hook[g].scroll = b.hook[g].scroll
            BY <1>4, <3>1, <3>7
        <3>10. FocusSame(entered, b) /\ ~NoneFocused(entered)
            BY <1>4, <3>2, <3>7 DEF FocusSame, NoneFocused
        <3> QED  BY <3>7, <3>8, <3>9, <3>10
    <2> QED  BY <2>1, <2>2
<1>6. passive \subseteq Focus!Editors
    OBVIOUS
<1>7. \A g \in Focus!Editors \ passive : ~Focus!Focused(b, g) => b.hook[g].scroll = <<>>
    BY DEF CommitReady
<1>8. ~NoneFocused(b) /\ (\A g \in Focus!Editors : ~Focus!Focused(b, g)) => ending # {}
    BY DEF NoneFocused
<1> HIDE DEF entered, passive, ending
<1>9. /\ c = [f \in FocusFields |-> c[f]] /\ c.passive = passive /\ c.hook = entered.hook /\ c.inert = entered.inert
      /\ c.overflow = entered.overflow /\ c.scroll = entered.scroll /\ c.own = b.own /\ c.present = b.present
      /\ c.active = b.active /\ c.locale = b.locale /\ c.locked = b.locked /\ c.unseen = b.unseen /\ c.before = b.before
    BY <1>5 DEF FocusHeld, FocusShape, FocusFields, FocusSame
<1> HIDE DEF c
<1>10. FocusHeld(c)
    <2>1. FocusShape(c)
        BY <1>5, <1>6, <1>9 DEF FocusHeld, FocusShape, FocusSame
    <2>2. \A h \in Focus!Editors : c.hook[h].focused => Focuses(c, h)
        BY <1>5, <1>9 DEF FocusHeld, Focuses, Covers, FocusSame
    <2> QED  BY <1>5, <1>9, <2>1, <2>2 DEF FocusHeld, NoneFocused, FocusSame
<1>11. \A h \in Focus!Editors : Focus!Focused(c, h) <=> Focus!Focused(b, h)
    BY <1>9 DEF Focus!Focused
<1>12. FocusGood(c)
    BY <1>5, <1>7, <1>9, <1>10, <1>11 DEF FocusGood, CommitReady
<1>13. ~NoneFocused(b) /\ NoneFocused(c) => c.scroll = b.before
    <2> SUFFICES ASSUME ~NoneFocused(b), NoneFocused(c)  PROVE c.scroll = b.before
        OBVIOUS
    <2>1. NoneFocused(entered) /\ \A g \in Focus!Editors : ~Focus!Focused(b, g)
        BY <1>5, <1>9 DEF NoneFocused
    <2> QED  BY <1>4, <1>5, <1>8, <1>9, <2>1
<1> QED  BY <1>1, <1>12, <1>13

\* After the passive effects a scroll is kept in focus mode only, and a lock has ended the session.
FocusSettled(b) ==
    /\ FocusHeld(b)
    /\ \A h \in Focus!Editors : b.hook[h].focused <=> Focus!Focused(b, h)
    /\ \A h \in Focus!Editors : ~b.hook[h].focused => b.hook[h].scroll = <<>>
    /\ b.locked => ~b.active

LEMMA FocusSettles ==
    ASSUME NEW b, FocusGood(b)
    PROVE  LET c == Focus!Settled(b) IN
           /\ FocusSettled(c)
           /\ c.locale = b.locale /\ c.locked = b.locked /\ c.before = b.before /\ c.unseen = FALSE
           /\ \A h \in Focus!Editors : c.hook[h].focused = b.hook[h].focused
<1> DEFINE done   == {h \in b.passive : ~b.hook[h].focused}
           back   == {h \in done : b.hook[h].scroll # <<>>}
           scroll == IF back = {} THEN b.scroll ELSE b.hook[CHOOSE h \in back : TRUE].scroll[1]
           hook   == [h \in Focus!Editors |-> IF h \in done THEN [b.hook[h] EXCEPT !.scroll = <<>>] ELSE b.hook[h]]
           active == b.active /\ ~b.locked
           c      == [b EXCEPT !.scroll = scroll, !.hook = hook, !.active = active, !.passive = {}, !.unseen = FALSE]
<1>1. Focus!Settled(b) = c
    BY DEF Focus!Settled
<1>2. FocusShape(b) /\ b.active \in BOOLEAN /\ b.locked \in BOOLEAN
    BY DEF FocusGood, FocusHeld, FocusShape
<1>3. active \in BOOLEAN /\ (active <=> b.active /\ ~b.locked)
    BY <1>2
<1>4. ASSUME NEW h \in Focus!Editors
      PROVE  /\ HookShape(hook[h]) /\ hook[h].focused = b.hook[h].focused
             /\ hook[h].background = b.hook[h].background /\ hook[h].overflow = b.hook[h].overflow
             /\ hook[h].focused => hook[h].scroll = b.hook[h].scroll
             /\ ~hook[h].focused => hook[h].scroll = <<>>
    <2>1. HookShape(b.hook[h])
        BY <1>2 DEF FocusShape
    <2>2. CASE h \in done
        <3>1. hook[h] = [b.hook[h] EXCEPT !.scroll = <<>>] /\ ~b.hook[h].focused
            BY <2>2
        <3> HIDE DEF hook
        <3> QED  BY <2>1, <3>1 DEF HookShape, HookFields
    <2>3. CASE h \notin done
        <3>1. hook[h] = b.hook[h]
            BY <2>3
        <3>2. ~b.hook[h].focused => b.hook[h].scroll = <<>>
            BY <2>3 DEF FocusGood
        <3> HIDE DEF hook
        <3> QED  BY <2>1, <3>1, <3>2
    <2> QED  BY <2>2, <2>3
<1>5. hook = [h \in Focus!Editors |-> hook[h]]
    OBVIOUS
<1> HIDE DEF scroll, hook, active
<1>6. /\ c = [f \in FocusFields |-> c[f]] /\ c.hook = hook /\ c.active = active /\ c.passive = {} /\ c.unseen = FALSE
      /\ c.inert = b.inert /\ c.overflow = b.overflow /\ c.own = b.own /\ c.present = b.present
      /\ c.locale = b.locale /\ c.locked = b.locked /\ c.before = b.before
    BY <1>2 DEF FocusShape, FocusFields
<1> HIDE DEF c
<1>7. FocusShape(c)
    BY <1>2, <1>3, <1>4, <1>5, <1>6 DEF FocusShape
<1>8. \A h \in Focus!Editors : c.hook[h].focused => Focuses(c, h)
    BY <1>4, <1>6 DEF FocusGood, FocusHeld, Focuses, Covers
<1>9. NoneFocused(c) => NoneFocused(b)
    BY <1>4, <1>6 DEF NoneFocused
<1>10. FocusHeld(c)
    BY <1>4, <1>6, <1>7, <1>8, <1>9 DEF FocusGood, FocusHeld
<1>11. \A h \in Focus!Editors : c.hook[h].focused <=> Focus!Focused(c, h)
    BY <1>3, <1>4, <1>6 DEF FocusGood, Focus!Focused
<1>12. FocusSettled(c)
    BY <1>3, <1>4, <1>6, <1>10, <1>11 DEF FocusSettled
<1> QED  BY <1>1, <1>4, <1>6, <1>12

\* Leaving focus mode in a commit of what b has become.
LEMMA FocusLeft ==
    ASSUME NEW b, NEW c, \A h \in Focus!Editors : c.hook[h].focused = b.hook[h].focused,
           c.before = b.before \/ NoneFocused(b), NEW d, ~NoneFocused(c) /\ NoneFocused(d) => d.scroll = c.before
    PROVE  Focus!LeavesAsFound(b, d)
BY DEF Focus!LeavesAsFound, Focus!InFocus, NoneFocused

\* The lock, the locale and the session as given.
LEMMA FocusTurns ==
    ASSUME NEW b, FocusSettled(b), NEW c, c = [f \in FocusFields |-> c[f]],
           c.hook = b.hook, c.inert = b.inert, c.overflow = b.overflow, c.own = b.own, c.present = b.present,
           c.before = b.before, c.passive = b.passive,
           c.active \in BOOLEAN, c.locked \in BOOLEAN, c.unseen \in BOOLEAN, c.locale \in Focus!Editors,
           c.locked /\ ~c.unseen => ~c.active,
           NoneFocused(b) => \A h \in Focus!Editors : ~Focus!Focused(c, h)
    PROVE  CommitReady(c)
<1>1. FocusHeld(b) /\ FocusShape(b)
    BY DEF FocusSettled, FocusHeld
<1>2. FocusShape(c)
    BY <1>1 DEF FocusShape
<1>3. \A h \in Focus!Editors : c.hook[h].focused => Focuses(c, h)
    BY <1>1 DEF FocusHeld, Focuses, Covers
<1>4. FocusHeld(c)
    BY <1>1, <1>2, <1>3 DEF FocusHeld, NoneFocused
<1> QED  BY <1>4 DEF CommitReady, FocusSettled, NoneFocused

LEMMA FocusTurned ==
    ASSUME FocusGood(state), Focus!Settle \/ Focus!SwitchLocale \/ Focus!Lock
    PROVE  FocusGood(state') /\ Focus!LeavesAsFound(state, state')
<1> DEFINE b == Focus!Settled(state)
<1>1. /\ FocusSettled(b) /\ FocusShape(b) /\ b.before = state.before /\ b.unseen = FALSE /\ b.locked = state.locked /\ b.locale = state.locale
      /\ \A h \in Focus!Editors : b.hook[h].focused = state.hook[h].focused
    BY FocusSettles DEF FocusSettled, FocusHeld
<1> HIDE DEF b
<1>2. ASSUME NEW c, CommitReady(c), c.hook = b.hook, c.before = b.before, state' = Focus!Commit(c)
      PROVE  FocusGood(state') /\ Focus!LeavesAsFound(state, state')
    <2>1. FocusGood(state') /\ (~NoneFocused(c) /\ NoneFocused(state') => state'.scroll = c.before)
        BY <1>2, FocusCommits
    <2>2. (\A h \in Focus!Editors : c.hook[h].focused = state.hook[h].focused) /\ c.before = state.before
        BY <1>1, <1>2
    <2> QED  BY <2>1, <2>2, FocusLeft
<1>3. \A h \in Focus!Editors : Focus!Focused(b, h) => ~NoneFocused(b)
    BY <1>1 DEF FocusSettled, NoneFocused
<1>4. CASE Focus!Settle
    <2>1. CommitReady(b)
        BY <1>1 DEF FocusSettled, CommitReady
    <2>2. state' = Focus!Commit(b)
        BY <1>4 DEF Focus!Settle, b
    <2> QED  BY <1>2, <2>1, <2>2
<1>5. CASE Focus!SwitchLocale
    <2>1. PICK h \in Focus!Editors : state' = Focus!Commit([b EXCEPT !.locale = h])
        BY <1>5 DEF Focus!SwitchLocale, b
    <2> DEFINE c == [b EXCEPT !.locale = h]
    <2>2. /\ c = [f \in FocusFields |-> c[f]] /\ c.hook = b.hook /\ c.inert = b.inert /\ c.overflow = b.overflow
          /\ c.own = b.own /\ c.present = b.present /\ c.before = b.before /\ c.passive = b.passive
          /\ c.active = b.active /\ c.locked = b.locked /\ c.unseen = FALSE /\ c.locale = h
        BY <1>1 DEF FocusShape, FocusFields
    <2> HIDE DEF c
    <2>3. NoneFocused(b) => \A g \in Focus!Editors : ~Focus!Focused(c, g)
        <3>1. NoneFocused(b) => ~(b.active /\ ~b.locked)
            BY <1>1, <1>3 DEF Focus!Focused, FocusShape
        <3> QED  BY <2>2, <3>1 DEF Focus!Focused
    <2>4. c.locked => ~c.active
        BY <1>1, <2>2 DEF FocusSettled
    <2>5. CommitReady(c)
        BY <1>1, <2>2, <2>3, <2>4, FocusTurns DEF FocusShape
    <2> QED  BY <1>2, <2>1, <2>2, <2>5 DEF c
<1>6. CASE Focus!Lock
    <2> DEFINE changes == b.changes + 1
               locked  == ~b.locked
               unseen  == ~state.locked
               c       == [b EXCEPT !.changes = changes, !.locked = locked, !.unseen = unseen]
    <2>1. state' = Focus!Commit(c)
        BY <1>6 DEF Focus!Lock, Focus!Changed, b
    <2>2. locked \in BOOLEAN /\ unseen \in BOOLEAN /\ locked = unseen /\ (locked <=> ~b.locked)
        BY <1>1 DEF FocusShape
    <2> HIDE DEF changes, locked, unseen
    <2>3. /\ c = [f \in FocusFields |-> c[f]] /\ c.hook = b.hook /\ c.inert = b.inert /\ c.overflow = b.overflow
          /\ c.own = b.own /\ c.present = b.present /\ c.before = b.before /\ c.passive = b.passive
          /\ c.active = b.active /\ c.locked = locked /\ c.unseen = unseen /\ c.locale = b.locale
        BY <1>1 DEF FocusShape, FocusFields
    <2> HIDE DEF c
    <2>4. NoneFocused(b) => \A g \in Focus!Editors : ~Focus!Focused(c, g)
        BY <1>1, <1>3, <2>2, <2>3 DEF Focus!Focused, FocusSettled, NoneFocused
    <2>5. CommitReady(c)
        BY <1>1, <2>2, <2>3, <2>4, FocusTurns DEF FocusShape
    <2> QED  BY <1>2, <2>1, <2>3, <2>5
<1> QED  BY <1>4, <1>5, <1>6

LEMMA FocusToggled ==
    ASSUME FocusGood(state), Focus!Toggle
    PROVE  FocusGood(state') /\ Focus!LeavesAsFound(state, state')
<1> DEFINE b    == Focus!Settled(state)
           h    == state.locale
           kept == IF b.hook[h].focused THEN b ELSE [b EXCEPT !.hook[h].scroll = <<b.scroll>>, !.before = b.scroll]
           c    == [kept EXCEPT !.active = ~b.hook[h].focused]
<1>1. /\ FocusSettled(b) /\ FocusHeld(b) /\ FocusShape(b) /\ b.before = state.before /\ b.locked = state.locked /\ b.locale = h
      /\ \A g \in Focus!Editors : b.hook[g].focused = state.hook[g].focused
    BY FocusSettles DEF FocusSettled, FocusHeld
<1>2. ~state.locked /\ state' = Focus!Commit(c)
    BY DEF Focus!Toggle
<1> HIDE DEF b
<1>3. h \in Focus!Editors /\ ~b.locked /\ b.hook[h].focused \in BOOLEAN
    BY <1>1, <1>2 DEF FocusShape, HookShape
<1> HIDE DEF h
<1>4. ASSUME NEW e, CommitReady(e), c = e, \A g \in Focus!Editors : e.hook[g].focused = b.hook[g].focused,
             e.before = b.before \/ NoneFocused(b)
      PROVE  FocusGood(state') /\ Focus!LeavesAsFound(state, state')
    <2>1. FocusGood(state') /\ (~NoneFocused(e) /\ NoneFocused(state') => state'.scroll = e.before)
        BY <1>2, <1>4, FocusCommits
    <2>2. /\ \A g \in Focus!Editors : e.hook[g].focused = state.hook[g].focused
          /\ e.before = state.before \/ NoneFocused(state)
        BY <1>1, <1>4 DEF NoneFocused
    <2> QED  BY <2>1, <2>2, FocusLeft
<1>5. CASE b.hook[h].focused
    <2> DEFINE e == [b EXCEPT !.active = FALSE]
    <2>1. c = e
        BY <1>3, <1>5
    <2>2. /\ e = [f \in FocusFields |-> e[f]] /\ e.hook = b.hook /\ e.inert = b.inert /\ e.overflow = b.overflow
          /\ e.own = b.own /\ e.present = b.present /\ e.before = b.before /\ e.passive = b.passive
          /\ e.active = FALSE /\ e.locked = b.locked /\ e.unseen = b.unseen /\ e.locale = b.locale
        BY <1>1 DEF FocusShape, FocusFields
    <2> HIDE DEF c, e
    <2>3. ~NoneFocused(b)
        BY <1>3, <1>5 DEF NoneFocused
    <2>4. CommitReady(e)
        BY <1>1, <2>2, <2>3, FocusTurns DEF FocusShape
    <2> QED  BY <1>4, <2>1, <2>2, <2>4
<1>6. CASE ~b.hook[h].focused
    <2>1. NoneFocused(b)
        <3>1. \A g \in Focus!Editors : Focus!Focused(b, g) => g = h
            BY <1>1 DEF Focus!Focused
        <3> QED  BY <1>1, <1>6, <3>1 DEF FocusSettled, NoneFocused
    <2> DEFINE scroll == <<b.scroll>>
               one    == [b.hook[h] EXCEPT !.scroll = scroll]
               hook   == [b.hook EXCEPT ![h] = one]
               e      == [b EXCEPT !.hook = hook, !.before = b.scroll, !.active = TRUE]
    <2>2. c = e
        <3>1. kept = [b EXCEPT !.hook = hook, !.before = b.scroll]
            BY <1>6
        <3> HIDE DEF kept, hook
        <3> QED  BY <1>3, <1>6, <3>1
    <2>3. HookShape(b.hook[h])
        BY <1>1, <1>3 DEF FocusShape
    <2> HIDE DEF scroll
    <2>4. /\ HookShape(one) /\ one.focused = b.hook[h].focused /\ one.background = b.hook[h].background /\ one.scroll = scroll
        BY <2>3 DEF HookShape, HookFields
    <2> HIDE DEF one, c
    <2>5. /\ hook = [g \in Focus!Editors |-> hook[g]] /\ hook[h] = one
          /\ \A g \in Focus!Editors : g # h => hook[g] = b.hook[g]
          /\ \A g \in Focus!Editors : HookShape(hook[g])
        BY <1>1, <1>3, <2>4, HookReplaced
    <2> HIDE DEF hook
    <2>6. /\ e = [f \in FocusFields |-> e[f]] /\ e.hook = hook /\ e.inert = b.inert /\ e.overflow = b.overflow
          /\ e.own = b.own /\ e.present = b.present /\ e.before = b.scroll /\ e.passive = b.passive
          /\ e.active = TRUE /\ e.locked = b.locked /\ e.unseen = b.unseen /\ e.locale = b.locale
        BY <1>1 DEF FocusShape, FocusFields
    <2> HIDE DEF e
    <2>7. FocusShape(e)
        BY <1>1, <2>5, <2>6 DEF FocusShape
    <2>8. \A g \in Focus!Editors : ~e.hook[g].focused /\ e.hook[g].background = {}
        BY <1>1, <2>1, <2>4, <2>5, <2>6 DEF FocusHeld, NoneFocused
    <2>9. FocusHeld(e)
        BY <1>1, <2>1, <2>6, <2>7, <2>8 DEF FocusHeld, NoneFocused
    <2>10. \A g \in Focus!Editors : Focus!Focused(e, g) <=> g = h
        BY <1>1, <1>3, <2>6 DEF Focus!Focused
    <2>11. e.hook[h].scroll = <<e.before>> /\ e.hook[h].scroll # <<>> /\ \A g \in Focus!Editors : g # h => e.hook[g].scroll = <<>>
        BY <1>1, <2>1, <2>4, <2>5, <2>6 DEF FocusSettled, NoneFocused, scroll
    <2>12. CommitReady(e)
        BY <1>3, <2>6, <2>9, <2>10, <2>11 DEF CommitReady
    <2>13. \A g \in Focus!Editors : e.hook[g].focused = b.hook[g].focused
        BY <2>4, <2>5, <2>6
    <2> QED  BY <1>4, <2>1, <2>2, <2>12, <2>13
<1> QED  BY <1>3, <1>5, <1>6

\* The page changes beside the editors, and who is in focus mode stays.
LEMMA FocusPage ==
    ASSUME FocusGood(state), Focus!Appear \/ Focus!Observed \/ Focus!Vanish \/ Focus!Scroll
    PROVE  FocusGood(state') /\ Focus!LeavesAsFound(state, state')
<1>0. FocusHeld(state) /\ FocusShape(state)
    BY DEF FocusGood, FocusHeld
<1>1. ASSUME NEW c, FocusShape(c), c.active = state.active, c.locale = state.locale, c.locked = state.locked, c.unseen = state.unseen,
             c.before = state.before, c.passive = state.passive, c.overflow = state.overflow,
             \A g \in Focus!Editors : /\ c.hook[g].focused = state.hook[g].focused /\ c.hook[g].scroll = state.hook[g].scroll
                                      /\ c.hook[g].overflow = state.hook[g].overflow
                                      /\ ~c.hook[g].focused => c.hook[g].background = {}
                                      /\ c.hook[g].focused => Covers(c, g) /\ Focus!Editors \ {g} \subseteq Firsts(c.hook[g].background),
             NoneFocused(state) => c.inert = c.own
      PROVE  FocusGood(c) /\ Focus!LeavesAsFound(state, c)
    <2>1. FocusHeld(c)
        BY <1>0, <1>1 DEF FocusHeld, Focuses, NoneFocused
    <2>2. FocusGood(c)
        BY <1>1, <2>1 DEF FocusGood, Focus!Focused
    <2> QED  BY <1>1, <2>2 DEF Focus!LeavesAsFound, Focus!InFocus
<1>2. \A g \in Focus!Editors : state.hook[g].focused => Covers(state, g) /\ Focus!Editors \ {g} \subseteq Firsts(state.hook[g].background)
    BY <1>0 DEF FocusHeld, Focuses
<1>3. \A g \in Focus!Editors : ~state.hook[g].focused => state.hook[g].background = {}
    BY <1>0 DEF FocusHeld
<1>4. NoneFocused(state) => state.inert = state.own
    BY <1>0 DEF FocusHeld
<1>5. CASE Focus!Scroll
    <2> DEFINE changes == state.changes + 1
               scroll  == 1 - state.scroll
               c       == [state EXCEPT !.changes = changes, !.scroll = scroll]
    <2>1. state' = c
        BY <1>0, <1>5 DEF Focus!Scroll, Focus!Changed, FocusShape, FocusFields
    <2> HIDE DEF changes, scroll
    <2>2. /\ c = [f \in FocusFields |-> c[f]] /\ c.hook = state.hook /\ c.passive = state.passive /\ FocusSame(c, state)
          /\ c.inert = state.inert /\ c.overflow = state.overflow
        BY <1>0 DEF FocusShape, FocusFields, FocusSame
    <2> HIDE DEF c
    <2>3. FocusShape(c)
        BY <1>0, <2>2 DEF FocusShape, FocusSame
    <2>4. \A g \in Focus!Editors : Covers(state, g) => Covers(c, g)
        BY <2>2 DEF Covers, FocusSame
    <2> QED  BY <1>1, <1>2, <1>3, <1>4, <2>1, <2>2, <2>3, <2>4 DEF FocusSame
<1>6. CASE Focus!Observed
    <2>1. PICK h \in Focus!Editors : state.hook[h].focused /\ state' = Focus!Isolate(state, h, Beside)
        BY <1>6 DEF Focus!Observed
    <2> DEFINE c == Focus!Isolate(state, h, Beside)
    <2>2. Covers(state, h)
        BY <1>2, <2>1
    <2>3. /\ FocusShape(c) /\ Covers(c, h) /\ FocusSame(c, state) /\ c.overflow = state.overflow
          /\ \A g \in Focus!Editors : g # h => c.hook[g] = state.hook[g]
          /\ \A f \in HookFields \ {"background"} : c.hook[h][f] = state.hook[h][f]
          /\ Firsts(state.hook[h].background) \subseteq Firsts(c.hook[h].background)
        BY <1>0, <2>2, FocusIsolates
    <2> HIDE DEF c
    <2>4. c.hook[h].focused = state.hook[h].focused /\ c.hook[h].scroll = state.hook[h].scroll /\ c.hook[h].overflow = state.hook[h].overflow
        BY <2>3 DEF HookFields
    <2>5. \A g \in Focus!Editors : g # h => ~state.hook[g].focused
        BY <1>0, <2>1 DEF FocusHeld
    <2>6. \A g \in Focus!Editors : /\ c.hook[g].focused = state.hook[g].focused /\ c.hook[g].scroll = state.hook[g].scroll
                                   /\ c.hook[g].overflow = state.hook[g].overflow
                                   /\ ~c.hook[g].focused => c.hook[g].background = {}
                                   /\ c.hook[g].focused => Covers(c, g) /\ Focus!Editors \ {g} \subseteq Firsts(c.hook[g].background)
        BY <1>2, <1>3, <2>1, <2>3, <2>4, <2>5
    <2>7. ~NoneFocused(state)
        BY <2>1 DEF NoneFocused
    <2> QED  BY <1>1, <2>1, <2>3, <2>6, <2>7 DEF FocusSame, c
<1>7. CASE Focus!Appear
    <2>1. PICK e \in (Beside \union Portals) \ state.present, mine \in BOOLEAN :
            /\ mine => e \in Beside
            /\ state' = [Focus!Changed(state) EXCEPT !.present = @ \union {e}, !.own = IF mine THEN @ \union {e} ELSE @,
                                         !.inert = IF mine THEN @ \union {e} ELSE @]
        BY <1>7 DEF Focus!Appear
    <2> DEFINE changes == state.changes + 1
               present == state.present \union {e}
               own     == IF mine THEN state.own \union {e} ELSE state.own
               inert   == IF mine THEN state.inert \union {e} ELSE state.inert
               c       == [state EXCEPT !.changes = changes, !.present = present, !.own = own, !.inert = inert]
    <2>2. state' = c
        BY <1>0, <2>1 DEF Focus!Changed, FocusShape, FocusFields
    <2>3. /\ Focus!Editors \subseteq present /\ own \subseteq Beside \intersect present /\ state.present \subseteq present
          /\ \A x \in state.present : x \in own <=> x \in state.own
        BY <1>0, <2>1 DEF FocusShape
    <2>4. \A bg : state.inert = state.own \union bg => inert = own \union bg
        OBVIOUS
    <2>5. state.inert = state.own => inert = own
        OBVIOUS
    <2> HIDE DEF changes, present, own, inert
    <2>6. /\ c = [f \in FocusFields |-> c[f]] /\ c.hook = state.hook /\ c.passive = state.passive
          /\ c.active = state.active /\ c.locale = state.locale /\ c.locked = state.locked /\ c.unseen = state.unseen
          /\ c.before = state.before /\ c.overflow = state.overflow /\ c.present = present /\ c.own = own /\ c.inert = inert
        BY <1>0 DEF FocusShape, FocusFields
    <2> HIDE DEF c
    <2>7. FocusShape(c)
        BY <1>0, <2>3, <2>6 DEF FocusShape
    <2>8. \A g \in Focus!Editors : Covers(state, g) => Covers(c, g)
        BY <2>3, <2>4, <2>6 DEF Covers
    <2> QED  BY <1>1, <1>2, <1>3, <1>4, <2>2, <2>5, <2>6, <2>7, <2>8
<1>8. CASE Focus!Vanish
    <2>1. PICK e \in state.present \ Focus!Editors :
            state' = [Focus!Changed(state) EXCEPT !.present = @ \ {e}, !.own = @ \ {e}, !.inert = @ \ {e},
                                      !.hook = [h \in Focus!Editors |-> Focus!Without(@[h], e)]]
        BY <1>8, ZenonT(30) DEF Focus!Vanish
    <2> DEFINE changes == state.changes + 1
               present == state.present \ {e}
               own     == state.own \ {e}
               inert   == state.inert \ {e}
               hook    == [h \in Focus!Editors |-> Focus!Without(state.hook[h], e)]
               c       == [state EXCEPT !.changes = changes, !.present = present, !.own = own, !.inert = inert, !.hook = hook]
    <2>2. state' = c
        BY <1>0, <2>1 DEF Focus!Changed, FocusShape, FocusFields
    <2>3. /\ Focus!Editors \subseteq present /\ own \subseteq Beside \intersect present
          /\ \A x \in present : x \in state.present /\ (x \in own <=> x \in state.own)
        BY <1>0, <2>1 DEF FocusShape
    <2>4. ASSUME NEW g \in Focus!Editors
          PROVE  /\ HookShape(hook[g]) /\ hook[g].focused = state.hook[g].focused /\ hook[g].scroll = state.hook[g].scroll
                 /\ hook[g].overflow = state.hook[g].overflow
                 /\ hook[g].background = {x \in state.hook[g].background : x[1] # e}
        <3>1. HookShape(state.hook[g])
            BY <1>0 DEF FocusShape
        <3>2. hook[g] = Focus!Without(state.hook[g], e)
            OBVIOUS
        <3> HIDE DEF hook
        <3> QED  BY <3>1, <3>2 DEF HookShape, HookFields, Focus!Without
    <2>5. hook = [g \in Focus!Editors |-> hook[g]]
        OBVIOUS
    <2>6. inert = state.inert \ {e} /\ own = state.own \ {e} /\ present = state.present \ {e}
        OBVIOUS
    <2> HIDE DEF changes, present, own, inert, hook
    <2>7. /\ c = [f \in FocusFields |-> c[f]] /\ c.hook = hook /\ c.passive = state.passive
          /\ c.active = state.active /\ c.locale = state.locale /\ c.locked = state.locked /\ c.unseen = state.unseen
          /\ c.before = state.before /\ c.overflow = state.overflow /\ c.present = present /\ c.own = own /\ c.inert = inert
        BY <1>0 DEF FocusShape, FocusFields
    <2> HIDE DEF c
    <2>8. FocusShape(c)
        BY <1>0, <2>3, <2>4, <2>5, <2>7 DEF FocusShape
    <2>9. \A g \in Focus!Editors : Firsts(hook[g].background) = Firsts(state.hook[g].background) \ {e}
        BY <2>4 DEF Firsts
    <2>10. ASSUME NEW g \in Focus!Editors, Covers(state, g)
           PROVE  Covers(c, g)
        <3>1. inert = own \union Firsts(hook[g].background)
            BY <2>6, <2>9, <2>10 DEF Covers
        <3>2. \A x \in hook[g].background : x[1] \in present \ {g} /\ (x[2] <=> x[1] \in own)
            BY <2>3, <2>4, <2>6, <2>10 DEF Covers
        <3> QED  BY <2>7, <3>1, <3>2 DEF Covers
    <2>11. \A g \in Focus!Editors : /\ c.hook[g].focused = state.hook[g].focused /\ c.hook[g].scroll = state.hook[g].scroll
                                    /\ c.hook[g].overflow = state.hook[g].overflow
                                    /\ ~c.hook[g].focused => c.hook[g].background = {}
                                    /\ c.hook[g].focused => Covers(c, g) /\ Focus!Editors \ {g} \subseteq Firsts(c.hook[g].background)
        BY <1>2, <1>3, <2>1, <2>4, <2>7, <2>9, <2>10
    <2>12. NoneFocused(state) => c.inert = c.own
        BY <1>4, <2>6, <2>7
    <2> QED  BY <1>1, <2>2, <2>7, <2>8, <2>11, <2>12
<1> QED  BY <1>5, <1>6, <1>7, <1>8

LEMMA FocusStep ==
    ASSUME FocusGood(state), Focus!Next
    PROVE  FocusGood(state') /\ Focus!LeavesAsFound(state, state')
BY FocusTurned, FocusToggled, FocusPage DEF Focus!Next

LEMMA FocusCardinality ==
    ASSUME NEW S
    PROVE  Focus!Cardinality(S) = Cardinality(S)
BY DEF Focus!Cardinality, Cardinality

LEMMA FocusShows ==
    ASSUME FocusGood(state)
    PROVE  Focus!OnlyTheEditorIsLive
<1>0. FocusHeld(state) /\ FocusShape(state)
    BY DEF FocusGood, FocusHeld
<1>1. Focus!Cardinality(Focus!InFocus(state)) <= 1
    <2>1. Focus!InFocus(state) \subseteq {state.locale}
        BY DEF FocusGood, Focus!InFocus, Focus!Focused
    <2>2. IsFiniteSet({state.locale}) /\ Cardinality({state.locale}) = 1
        BY FS_Singleton
    <2>3. /\ IsFiniteSet(Focus!InFocus(state))
          /\ Cardinality(Focus!InFocus(state)) <= Cardinality({state.locale})
        BY <2>1, <2>2, FS_Subset
    <2>4. Focus!Cardinality(Focus!InFocus(state)) = Cardinality(Focus!InFocus(state))
        BY FocusCardinality
    <2> QED  BY <2>2, <2>3, <2>4
<1>2. ASSUME NEW h \in Focus!InFocus(state)
      PROVE  /\ state.locale = h /\ ~state.locked /\ state.overflow = "hidden"
             /\ ~Focus!Unseen(state) =>
                   (Beside \intersect state.present) \union (Focus!Editors \ {h}) \subseteq state.inert /\ h \notin state.inert
    <2>1. h \in Focus!Editors /\ state.hook[h].focused
        BY DEF Focus!InFocus
    <2>2. Focuses(state, h) /\ Covers(state, h)
        BY <1>0, <2>1 DEF FocusHeld, Focuses
    <2>3. h \notin state.inert
        BY <1>0, <2>1, <2>2, FocusAssumption DEF Covers, FocusShape, Firsts
    <2>4. ASSUME ~Focus!Unseen(state)
          PROVE  Beside \intersect state.present \subseteq state.inert
        <3> DEFINE c == Focus!Isolate(state, h, Beside)
        <3>1. c = state
            BY <2>1, <2>4 DEF Focus!Unseen, Focus!InFocus
        <3>2. (Beside \intersect state.present) \ {h} \subseteq Firsts(c.hook[h].background)
            BY <1>0, <2>1, <2>2, FocusIsolates
        <3> HIDE DEF c
        <3>3. h \notin Beside
            BY <2>1, FocusAssumption
        <3> QED  BY <2>2, <3>1, <3>2, <3>3 DEF Covers
    <2> QED  BY <2>1, <2>2, <2>3, <2>4 DEF FocusGood, Focus!Focused, Focuses, Covers
<1>3. Focus!InFocus(state) = {} => state.inert = state.own /\ state.overflow = "auto"
    BY <1>0 DEF FocusHeld, NoneFocused, Focus!InFocus
<1>4. state.locked /\ ~state.unseen => ~state.active
    BY DEF FocusGood
<1> QED  BY <1>1, <1>2, <1>3, <1>4 DEF Focus!OnlyTheEditorIsLive

-----------------------------------------------------------------------------
(* The filters of the content list.                                         *)

\* What is cleared is the address but for whether the filters are unfolded.
ListGood(b) ==
    /\ DOMAIN b = {"manages", "cleared", "type", "at"}
    /\ b = [manages |-> b.manages, cleared |-> b.cleared, type |-> b.type, at |-> b.at]
    /\ b.manages \in BOOLEAN /\ b.cleared \in BOOLEAN /\ DOMAIN b.at = List!Keys
    /\ \A k \in List!Advanced \ {"archived"} : b.at[k] # "false"
    /\ b.cleared => \A k \in List!Keys \ {"filters"} : b.at[k] = List!NoText

LEMMA ListTexts == List!NoText \notin {"true", "false", "x", "open", "closed"}
BY Zenon DEF List!NoText

LEMMA ListInit ==
    ASSUME List!Init
    PROVE  ListGood(state)
<1>1. PICK manages \in BOOLEAN, type \in Types, given \in Addresses :
        state = [manages |-> manages, cleared |-> FALSE, type |-> type,
                 at |-> [k \in List!Keys |-> IF k \in DOMAIN given THEN given[k] ELSE List!NoText]]
    BY DEF List!Init
<1> DEFINE at == [k \in List!Keys |-> IF k \in DOMAIN given THEN given[k] ELSE List!NoText]
<1>2. \A k \in List!Advanced \ {"archived"} : k \in List!Keys
    BY DEF List!Advanced, List!Keys
<1>3. DOMAIN at = List!Keys /\ \A k \in List!Advanced \ {"archived"} : at[k] # "false"
    BY <1>2, ListAssumption, ListTexts
<1> HIDE DEF at
<1>4. state = [manages |-> manages, cleared |-> FALSE, type |-> type, at |-> at]
    BY <1>1 DEF at
<1> QED  BY <1>3, <1>4 DEF ListGood

LEMMA ListStep ==
    ASSUME ListGood(state), List!Next
    PROVE  ListGood(state')
<1>0. ListGood(state)
    OBVIOUS
<1>1. CASE List!Change
    <2>1. PICK k \in List!Shown(state), value \in {List!NoText, "true", "x"} :
            state' = [state EXCEPT !.at[k] = value, !.cleared = FALSE]
        BY <1>1 DEF List!Change
    <2> DEFINE at == [state.at EXCEPT ![k] = value]
    <2>2. DOMAIN at = List!Keys /\ \A m \in List!Advanced \ {"archived"} : at[m] # "false"
        <3>1. value # "false"
            BY ListTexts
        <3> QED  BY <1>0, <3>1 DEF ListGood, List!Advanced, List!Keys
    <2>3. state' = [state EXCEPT !.at = at, !.cleared = FALSE]
        BY <2>1
    <2> HIDE DEF at
    <2> QED  BY <1>0, <2>2, <2>3 DEF ListGood
<1>2. CASE List!ChangeType
    <2>1. PICK type \in Types \ {state.type} :
            state' = [state EXCEPT !.type = type, !.cleared = FALSE,
                                   !.at = [k \in List!Keys |-> IF k \in List!OnlyCurated \union {"tag", "group"} THEN List!NoText ELSE @[k]]]
        BY <1>2 DEF List!ChangeType
    <2> DEFINE at == [k \in List!Keys |-> IF k \in List!OnlyCurated \union {"tag", "group"} THEN List!NoText ELSE state.at[k]]
    <2>2. DOMAIN at = List!Keys /\ \A m \in List!Advanced \ {"archived"} : at[m] # "false"
        BY <1>0, ListTexts DEF ListGood, List!Advanced, List!Keys
    <2>3. state' = [state EXCEPT !.type = type, !.cleared = FALSE, !.at = at]
        BY <2>1
    <2> HIDE DEF at
    <2> QED  BY <1>0, <2>2, <2>3 DEF ListGood
<1>3. CASE List!Toggle
    <2> DEFINE value == IF List!Opened(state) THEN "closed" ELSE "open"
               at    == [state.at EXCEPT !["filters"] = value]
    <2>1. /\ DOMAIN at = List!Keys /\ \A m \in List!Advanced \ {"archived"} : at[m] # "false"
          /\ \A m \in List!Keys \ {"filters"} : at[m] = state.at[m]
        BY <1>0 DEF ListGood, List!Advanced, List!Keys
    <2>2. state' = [state EXCEPT !.at = at]
        BY <1>3 DEF List!Toggle
    <2> HIDE DEF at
    <2> QED  BY <1>0, <2>1, <2>2 DEF ListGood
<1>4. CASE List!Clear
    <2> DEFINE at == [k \in List!Keys |-> List!NoText]
    <2>1. /\ DOMAIN at = List!Keys /\ \A m \in List!Advanced \ {"archived"} : at[m] # "false"
          /\ \A m \in List!Keys : at[m] = List!NoText
        BY ListTexts DEF List!Advanced, List!Keys
    <2>2. state' = [state EXCEPT !.at = at, !.cleared = TRUE]
        BY <1>4 DEF List!Clear
    <2> HIDE DEF at
    <2> QED  BY <1>0, <2>1, <2>2 DEF ListGood
<1> QED  BY <1>1, <1>2, <1>3, <1>4 DEF List!Next

LEMMA ListAdvancedFinite == IsFiniteSet(List!Advanced)
<1>1. \A a, b, c, d, e : IsFiniteSet({a, b, c, d, e})
    <2> SUFFICES ASSUME NEW a, NEW b, NEW c, NEW d, NEW e  PROVE IsFiniteSet({a, b, c, d, e})
        OBVIOUS
    <2>1. IsFiniteSet({a} \union {b}) /\ IsFiniteSet({c} \union {d})
        BY FS_Singleton, FS_Union
    <2>2. IsFiniteSet(({a} \union {b}) \union ({c} \union {d}))
        BY <2>1, FS_Union
    <2>3. IsFiniteSet((({a} \union {b}) \union ({c} \union {d})) \union {e})
        BY <2>2, FS_Singleton, FS_Union
    <2>4. {a, b, c, d, e} = (({a} \union {b}) \union ({c} \union {d})) \union {e}
        OBVIOUS
    <2> QED  BY <2>3, <2>4
<1> DEFINE S == {"state", "owner", "archived", "tag", "group"}
           T == {"language", "topic", "rating", "difficulty", "sourceLanguage"}
<1>2. IsFiniteSet(S) /\ IsFiniteSet(T)
    BY <1>1
<1>3. List!Advanced = S \union T
    BY DEF List!Advanced
<1> HIDE DEF S, T
<1> QED  BY <1>2, <1>3, FS_Union

LEMMA ListCardinality ==
    ASSUME NEW S
    PROVE  List!Cardinality(S) = Cardinality(S)
BY DEF List!Cardinality, Cardinality

\* The filters that are counted.
ListCounted(b) == {k \in List!Applicable(b) : b.at[k] \notin {List!NoText, "false"}}

LEMMA ListCounting ==
    ASSUME NEW b
    PROVE  /\ IsFiniteSet(ListCounted(b)) /\ List!Count(b) = Cardinality(ListCounted(b)) /\ List!Count(b) \in Nat
           /\ List!Count(b) = 0 <=> ListCounted(b) = {}
<1>1. ListCounted(b) \subseteq List!Advanced
    BY DEF ListCounted, List!Applicable
<1>2. IsFiniteSet(ListCounted(b))
    BY <1>1, ListAdvancedFinite, FS_Subset
<1>3. List!Count(b) = Cardinality(ListCounted(b))
    BY ListCardinality DEF List!Count, ListCounted
<1> QED  BY <1>2, <1>3, FS_CardinalityType, FS_EmptySet

LEMMA ListShows ==
    ASSUME ListGood(state)
    PROVE  List!FiltersAreSeen
<1> DEFINE asked == {k \in List!Keys : List!Narrows(state, k)} \union (IF List!Query(state).archived THEN {"archived"} ELSE {})
           own   == IF state.manages THEN {} ELSE List!ForManagers
           open  == [state EXCEPT !.at["filters"] = "open"]
<1>1. List!Query(state).archived <=> state.at["archived"] = "true"
    BY DEF List!Query
<1>2. \A k \in asked \ own :
        /\ k \in {"q", "published"} \union List!Applicable(state) /\ k \in List!Keys
        /\ state.at[k] # List!NoText
        /\ k \notin {"q", "published"} => k \in ListCounted(state)
    <2> SUFFICES ASSUME NEW k \in asked \ own
                 PROVE  /\ k \in {"q", "published"} \union List!Applicable(state) /\ k \in List!Keys
                        /\ state.at[k] # List!NoText
                        /\ k \notin {"q", "published"} => k \in ListCounted(state)
        OBVIOUS
    <2>1. CASE k = "archived"
        <3>1. state.at[k] = "true" /\ state.manages
            BY <1>1, <2>1 DEF ListGood, List!ForManagers, List!Narrows
        <3>2. k \in List!Applicable(state) /\ k \in List!Keys
            BY <2>1, <3>1 DEF List!Applicable, List!Advanced, List!Keys, List!OnlyCurated
        <3> QED  BY <2>1, <3>1, <3>2, ListTexts DEF ListCounted
    <2>2. CASE k # "archived"
        <3>1. k \in List!Keys /\ List!Narrows(state, k) /\ state.at[k] # List!NoText
            BY <2>2 DEF List!Narrows
        <3>2. k \in {"q", "published"} \/ k \in List!Advanced
            BY <3>1 DEF List!Keys, List!Narrows, List!Advanced
        <3>3. k \in List!Advanced => k \in List!Applicable(state) /\ state.at[k] # "false"
            BY <2>2, <3>1 DEF List!Narrows, List!OfType, List!Applicable, ListGood, List!ForManagers, List!Keys
        <3> QED  BY <3>1, <3>2, <3>3 DEF ListCounted
    <2> QED  BY <2>1, <2>2
<1>3. asked \ own \subseteq List!Shown(open)
    <2>1. open.at["filters"] = "open" /\ open.type = state.type /\ open.manages = state.manages
        BY DEF ListGood, List!Keys
    <2> HIDE DEF open
    <2>2. List!Opened(open)
        BY <2>1 DEF List!Opened
    <2>3. {"q", "published"} \union List!Applicable(state) \subseteq List!Shown(open)
        BY <2>1, <2>2 DEF List!Shown, List!Applicable, List!Advanced, List!OnlyCurated, List!ForManagers
    <2> QED  BY <1>2, <2>3
<1>4. List!Cardinality((asked \ own) \ {"q", "published"}) <= List!Count(state)
    <2>1. (asked \ own) \ {"q", "published"} \subseteq ListCounted(state)
        BY <1>2
    <2> HIDE DEF asked, own
    <2> QED  BY <2>1, ListCounting, FS_Subset, ListCardinality
<1>5. asked \ own # {} => List!Active(state)
    <2> SUFFICES ASSUME NEW k \in asked \ own  PROVE List!Active(state)
        OBVIOUS
    <2>1. k \in {"q", "published"} \/ ListCounted(state) # {}
        BY <1>2
    <2>2. ListCounted(state) # {} => List!Count(state) > 0
        BY ListCounting
    <2> QED  BY <1>2, <2>1, <2>2 DEF List!Active
<1>6. state.cleared => List!Query(state) = List!Query(List!NoAddress(state.type)) /\ ~List!Active(state)
    <2> SUFFICES ASSUME state.cleared
                 PROVE  List!Query(state) = List!Query(List!NoAddress(state.type)) /\ ~List!Active(state)
        OBVIOUS
    <2> DEFINE none == List!NoAddress(state.type)
    <2>1. \A k \in List!Keys \ {"filters"} : state.at[k] = List!NoText /\ none.at[k] = List!NoText
        BY DEF ListGood, List!NoAddress
    <2>2. none.type = state.type
        BY DEF List!NoAddress
    <2> HIDE DEF none
    <2>3. {k \in List!Keys : List!Narrows(state, k)} = {} /\ {k \in List!Keys : List!Narrows(none, k)} = {}
        BY <2>1 DEF List!Narrows
    <2>4. /\ state.at["sort"] = List!NoText /\ none.at["sort"] = List!NoText
          /\ state.at["archived"] # "true" /\ none.at["archived"] # "true"
          /\ state.at["q"] = List!NoText /\ state.at["published"] = List!NoText
        BY <2>1, ListTexts DEF List!Keys
    <2>5. List!Query(state) = List!Query(none)
        <3>1. {<<k, state.at[k]>> : k \in {k \in List!Keys : List!Narrows(state, k)}}
              = {<<k, none.at[k]>> : k \in {k \in List!Keys : List!Narrows(none, k)}}
            BY <2>3
        <3> QED  BY <2>2, <2>4, <3>1 DEF List!Query
    <2>6. ListCounted(state) = {}
        BY <2>1 DEF ListCounted, List!Applicable, List!Advanced, List!Keys
    <2>7. ~List!Active(state)
        BY <2>4, <2>6, ListCounting DEF List!Active
    <2> QED  BY <2>5, <2>7 DEF none
<1>7. ~List!SaysNoMatch(state) => asked = {}
    <2>1. List!Query(state).narrowed = {} => {k \in List!Keys : List!Narrows(state, k)} = {}
        BY DEF List!Query
    <2> QED  BY <2>1 DEF List!SaysNoMatch, List!HasFilters
<1> QED  BY <1>3, <1>4, <1>5, <1>6, <1>7 DEF List!FiltersAreSeen

-----------------------------------------------------------------------------
(* Sorted and filtered lists.                                               *)

\* The elements of S, each once.
Lists(q, S) ==
    /\ Cardinality(S) \in Nat /\ q \in [1..Cardinality(S) -> S]
    /\ \A x \in S : \E k \in 1..Cardinality(S) : q[k] = x
    /\ \A i, j \in 1..Cardinality(S) : q[i] = q[j] => i = j

\* below is a strict order in which any two are comparable.
Strict(S, below) ==
    /\ below \in [S -> SUBSET S]
    /\ \A x \in S : x \notin below[x]
    /\ \A x, y \in S : x \in below[y] => below[x] \subseteq below[y]
    /\ \A x, y \in S : x # y => x \in below[y] \/ y \in below[x]

\* Everything has a place, and its own.
LEMMA PlacesList ==
    ASSUME NEW S, IsFiniteSet(S), NEW below, Strict(S, below)
    PROVE  /\ Lists(Places(S, below), S)
           /\ \A i, j \in 1..Cardinality(S) : i < j => Places(S, below)[i] \in below[Places(S, below)[j]]
<1> DEFINE n == Cardinality(S)
           rank == [x \in S |-> Cardinality(below[x]) + 1]
           q == Places(S, below)
<1>1. n \in Nat
    BY FS_CardinalityType
<1>2. \A x \in S : IsFiniteSet(below[x]) /\ Cardinality(below[x]) \in Nat
    <2>1. \A x \in S : below[x] \in SUBSET S
        BY DEF Strict
    <2>2. \A T \in SUBSET S : IsFiniteSet(T)
        BY FS_Subset
    <2> QED  BY <2>1, <2>2, FS_CardinalityType
<1>3. ASSUME NEW x \in S PROVE rank[x] \in 1..n
    <2>1. below[x] \in SUBSET S /\ below[x] # S
        BY DEF Strict
    <2>2. Cardinality(below[x]) <= n /\ Cardinality(below[x]) # n
        BY <2>1, FS_Subset
    <2> QED  BY <1>1, <1>2, <2>2
<1>4. ASSUME NEW x \in S, NEW y \in S, x \in below[y] PROVE rank[x] < rank[y]
    <2>1. below[x] \in SUBSET below[y] /\ below[x] # below[y]
        BY <1>4 DEF Strict
    <2>2. Cardinality(below[x]) <= Cardinality(below[y]) /\ Cardinality(below[x]) # Cardinality(below[y])
        BY <1>2, <2>1, FS_Subset
    <2> QED  BY <1>2, <2>2
<1>5. \A x, y \in S : rank[x] = rank[y] => x = y
    <2>1. \A x \in S : rank[x] \in Nat
        BY <1>2
    <2> HIDE DEF rank
    <2> QED  BY <1>4, <2>1 DEF Strict
<1>6. \A k \in 1..n : \E x \in S : rank[x] = k
    <2>1. rank \in [S -> 1..n]
        BY <1>3
    <2>2. IsFiniteSet(1..n) /\ Cardinality(1..n) = n
        BY <1>1, FS_Interval
    <2> HIDE DEF rank
    <2>3. rank \in Injection(S, 1..n)
        BY <1>5, <2>1 DEF Injection, IsInjective
    <2>4. rank \in Surjection(S, 1..n)
        BY <2>2, <2>3, FS_Injection
    <2> QED  BY <2>4 DEF Surjection
<1>7. ASSUME NEW k \in 1..n PROVE q[k] \in S /\ rank[q[k]] = k
    <2>1. q[k] = CHOOSE x \in S : Cardinality(below[x]) = k - 1
        BY DEF Places
    <2>2. PICK x \in S : rank[x] = k
        BY <1>6
    <2>3. Cardinality(below[x]) = k - 1
        BY <1>1, <1>2, <2>2
    <2>4. q[k] \in S /\ Cardinality(below[q[k]]) = k - 1
        <3> HIDE DEF q
        <3> QED  BY <2>1, <2>3
    <2> QED  BY <1>1, <2>4
<1>8. q = [k \in 1..n |-> q[k]]
    BY DEF Places
<1> HIDE DEF q, rank
<1>9. Lists(q, S)
    <2>1. q \in [1..n -> S]
        BY <1>7, <1>8
    <2>2. \A x \in S : q[rank[x]] = x
        BY <1>3, <1>5, <1>7
    <2> QED  BY <1>1, <1>3, <1>7, <2>1, <2>2 DEF Lists
<1>10. ASSUME NEW i \in 1..n, NEW j \in 1..n, i < j PROVE q[i] \in below[q[j]]
    <2>1. q[i] # q[j]
        BY <1>7, <1>10
    <2>2. ~(q[j] \in below[q[i]])
        BY <1>1, <1>4, <1>7, <1>10
    <2> QED  BY <1>7, <2>1, <2>2 DEF Strict
<1> QED  BY <1>9, <1>10 DEF q

LEMMA ListInterval == \A k \in Nat : IsFiniteSet(1..k) /\ Cardinality(1..k) = k
BY FS_Interval

\* A set of numbers has a least one.
LEMMA LeastNumber ==
    ASSUME NEW T \in SUBSET Nat, T # {}
    PROVE  \E m \in T : \A n \in T : m <= n
<1> DEFINE R == OpToRel(<, Nat)
<1>1. \A m, n \in Nat : m < n <=> <<m, n>> \in R
    BY DEF OpToRel
<1>2. IsWellFoundedOn(R, Nat)
    BY NatLessThanWellFounded
<1> HIDE DEF R
<1>3. PICK m \in T : \A n \in T : ~(<<n, m>> \in R)
    BY <1>2, WFMin
<1>4. ASSUME NEW n \in T
      PROVE  m <= n
    <2>1. m \in Nat /\ n \in Nat
        OBVIOUS
    <2>2. ~(n < m)
        BY <1>1, <1>3, <2>1
    <2> QED  BY <2>1, <2>2
<1> QED  BY <1>4

\* What is kept, by the indexes it is from.
Lower(S, i) == {j \in S : j < i}
KeptFrom(r, s, S) ==
    \E at \in [DOMAIN r -> S] :
        /\ \A k \in DOMAIN r : r[k] = s[at[k]]
        /\ \A i \in S : \E k \in DOMAIN r : at[k] = i
        /\ \A k, l \in DOMAIN r : at[k] = at[l] => k = l
        /\ \A k \in DOMAIN r, i \in S : Cardinality(Lower(S, i)) = k - 1 => at[k] = i

\* Indexes are ordered.
LEMMA IndexesStrict ==
    ASSUME NEW S \in SUBSET Nat
    PROVE  Strict(S, [i \in S |-> {j \in S : j < i}])
<1> DEFINE below == [i \in S |-> {j \in S : j < i}]
<1>1. \A x \in S : x \in Nat
    OBVIOUS
<1>2. below \in [S -> SUBSET S] /\ \A x \in S : below[x] = {y \in S : y < x}
    OBVIOUS
<1> HIDE DEF below
<1>3. \A x, y, z \in S : ~(x < x) /\ (x < y /\ z < x => z < y) /\ (x # y => x < y \/ y < x)
    BY <1>1
<1>4. \A x, y \in S : x \in below[y] <=> x < y
    BY <1>2
<1>5. \A x, y \in S : x \in below[y] => below[x] \subseteq below[y]
    BY <1>2, <1>3
<1>6. \A x, y \in S : x # y => x \in below[y] \/ y \in below[x]
    BY <1>3, <1>4
<1>7. \A x \in S : x \notin below[x]
    BY <1>3, <1>4
<1>8. Strict(S, below)
    BY <1>2, <1>5, <1>6, <1>7 DEF Strict
<1> QED  BY <1>8 DEF below

\* An element is where the number of those below it says.
LEMMA PlacesAt ==
    ASSUME NEW S, IsFiniteSet(S), NEW below, Strict(S, below), NEW k \in 1..Cardinality(S),
           NEW x \in S, Cardinality(below[x]) = k - 1
    PROVE  Places(S, below)[k] = x
<1> DEFINE y == Places(S, below)[k]
<1>1. \A z \in S : IsFiniteSet(below[z]) /\ below[z] \in SUBSET S
    BY FS_Subset DEF Strict
<1>2. y = CHOOSE z \in S : Cardinality(below[z]) = k - 1
    BY DEF Places
<1>3. y \in S /\ Cardinality(below[y]) = k - 1
    BY <1>2
<1> HIDE DEF y
<1>4. ASSUME NEW u \in S, NEW v \in S, u \in below[v]
      PROVE  Cardinality(below[u]) # Cardinality(below[v])
    <2>1. below[u] \in SUBSET below[v] /\ below[u] # below[v]
        BY <1>4 DEF Strict
    <2> QED  BY <1>1, <2>1, FS_Subset
<1>5. y = x
    BY <1>3, <1>4 DEF Strict
<1> QED  BY <1>5 DEF y

\* What is kept of a list, and from where.
LEMMA KeptList ==
    ASSUME NEW T, NEW s \in Seq(T), NEW S \in SUBSET DOMAIN s
    PROVE  LET r == Kept(s, S) IN
           /\ IsFiniteSet(S) /\ Cardinality(S) \in Nat /\ r \in Seq(T) /\ Len(r) = Cardinality(S)
           /\ KeptFrom(r, s, S)
<1> DEFINE below == [i \in S |-> {j \in S : j < i}]
           n == Cardinality(S)
           at == Places(S, below)
           r == Kept(s, S)
<1>1. Len(s) \in Nat /\ DOMAIN s = 1..Len(s)
    OBVIOUS
<1>2. IsFiniteSet(S)
    <2>1. IsFiniteSet(1..Len(s))
        BY <1>1, ListInterval
    <2> QED  BY <1>1, <2>1, FS_Subset
<1>3. Strict(S, below)
    <2>1. S \in SUBSET Nat
        BY <1>1
    <2> QED  BY <2>1, IndexesStrict
<1>4. \A i \in S : below[i] = {j \in S : j < i}
    OBVIOUS
<1>5. r = [k \in DOMAIN at |-> s[at[k]]]
    BY DEF Kept
<1>6. Lists(at, S)
    BY <1>2, <1>3, PlacesList
<1>7. \A k \in 1..n, i \in S : Cardinality(below[i]) = k - 1 => at[k] = i
    BY <1>2, <1>3, PlacesAt
<1> HIDE DEF at, below, r
<1>8. n \in Nat /\ at \in [1..n -> S] /\ (\A x \in S : \E k \in 1..n : at[k] = x) /\ \A i, j \in 1..n : at[i] = at[j] => i = j
    BY <1>6 DEF Lists
<1> HIDE DEF n
<1>9. r \in [1..n -> T] /\ DOMAIN r = 1..n /\ \A k \in 1..n : r[k] = s[at[k]]
    <2>1. \A k \in 1..n : s[at[k]] \in T
        BY <1>1, <1>8
    <2> QED  BY <1>5, <1>8, <2>1
<1>10. r \in Seq(T) /\ Len(r) = n
    BY <1>8, <1>9, SeqDef
<1>11. \A k \in DOMAIN r, i \in S : Cardinality(Lower(S, i)) = k - 1 => at[k] = i
    <2> SUFFICES ASSUME NEW k \in DOMAIN r, NEW i \in S, Cardinality(Lower(S, i)) = k - 1
                 PROVE  at[k] = i
        OBVIOUS
    <2>1. Lower(S, i) = below[i]
        BY <1>4 DEF Lower
    <2>2. k \in 1..n /\ Cardinality(below[i]) = k - 1
        BY <1>9, <2>1
    <2> QED  BY <1>7, <2>2
<1>12. /\ at \in [DOMAIN r -> S] /\ (\A k \in DOMAIN r : r[k] = s[at[k]])
       /\ \A i \in S : \E k \in DOMAIN r : at[k] = i
       /\ \A k, l \in DOMAIN r : at[k] = at[l] => k = l
    BY <1>8, <1>9
<1>13. Cardinality(S) \in Nat /\ Len(r) = Cardinality(S)
    BY <1>8, <1>10 DEF n
<1>14. KeptFrom(r, s, S)
    BY <1>11, <1>12 DEF KeptFrom
<1> QED  BY <1>2, <1>10, <1>13, <1>14 DEF r

\* The end of a list, kept.
LEMMA KeptEnd ==
    ASSUME NEW T, NEW s \in Seq(T), NEW p \in 0..Len(s)
    PROVE  LET r == Kept(s, (p + 1)..Len(s)) IN
           /\ DOMAIN r = 1..(Len(s) - p) /\ \A k \in DOMAIN r : r[k] = s[p + k]
<1> DEFINE S == (p + 1)..Len(s)
           r == Kept(s, S)
<1>1. Len(s) \in Nat /\ p \in Nat /\ S \in SUBSET DOMAIN s
    OBVIOUS
<1>2. Cardinality(S) = Len(s) - p
    <2>1. p + 1 \in Int /\ Len(s) \in Int
        BY <1>1
    <2>2. Cardinality(S) = IF p + 1 > Len(s) THEN 0 ELSE Len(s) - (p + 1) + 1
        BY <2>1, FS_Interval
    <2> QED  BY <1>1, <2>2
<1>a. KeptFrom(r, s, S)
    BY <1>1, KeptList
<1>3. PICK at \in [DOMAIN r -> S] :
            /\ \A k \in DOMAIN r : r[k] = s[at[k]]
            /\ \A k \in DOMAIN r, i \in S : Cardinality(Lower(S, i)) = k - 1 => at[k] = i
    BY <1>a DEF KeptFrom
<1>4. r \in Seq(T) /\ Len(r) = Len(s) - p
    BY <1>1, <1>2, KeptList
<1> HIDE DEF r
<1>5. DOMAIN r = 1..(Len(s) - p)
    BY <1>4
<1>6. ASSUME NEW k \in DOMAIN r
      PROVE  r[k] = s[p + k]
    <2>1. p + k \in S /\ k \in Nat
        BY <1>1, <1>5
    <2>2. Lower(S, p + k) = (p + 1)..(p + k - 1)
        BY <1>1, <2>1 DEF Lower
    <2>3. Cardinality((p + 1)..(p + k - 1)) = k - 1
        <3>1. p + 1 \in Int /\ p + k - 1 \in Int
            BY <1>1, <2>1
        <3>2. Cardinality((p + 1)..(p + k - 1)) = IF p + 1 > p + k - 1 THEN 0 ELSE (p + k - 1) - (p + 1) + 1
            BY <3>1, FS_Interval
        <3> QED  BY <1>1, <1>5, <2>1, <3>2
    <2>4. at[k] = p + k
        BY <1>3, <2>1, <2>2, <2>3
    <2> QED  BY <1>3, <2>4
<1> QED  BY <1>5, <1>6 DEF r

-----------------------------------------------------------------------------
(* The image library: every list of it is the beginning of what there is.   *)

LibKnown == LibraryImages \union Library!Range(Held)
LibPage  == [items : Seq(Nat), next : Nat]
LibRows  == Seq([image : LibKnown, deleted : BOOLEAN])

\* Who is on some page.
LibOn(pages, x) == \E i \in DOMAIN pages : \E k \in DOMAIN pages[i].items : pages[i].items[k] = x

\* A page goes down to where the next one begins, and a chain of pages from each to the next.
LibDown(page) ==
    /\ \A k, l \in DOMAIN page.items : k < l => page.items[k] > page.items[l]
    /\ \A k \in DOMAIN page.items : page.items[k] >= page.next
    /\ page.next # 0 => \E k \in DOMAIN page.items : page.items[k] = page.next
LibChain(pages) ==
    /\ pages \in Seq(LibPage)
    /\ \A i \in DOMAIN pages : LibDown(pages[i])
    /\ \A i, j \in DOMAIN pages : i < j =>
          pages[i].next # 0 /\ \A l \in DOMAIN pages[j].items : pages[j].items[l] < pages[i].next

\* What a filter lists of the rows; the pages are its beginning.
LibAll(rows, all) == {id \in DOMAIN rows : all \/ ~rows[id].deleted}
LibTop(pages, rows, all) ==
    \A x \in Nat : LibOn(pages, x) =>
        x \in LibAll(rows, all) /\ \A id \in LibAll(rows, all) : id >= x => LibOn(pages, id)

LibFields ==
    {"objects", "rows", "lists", "all", "page", "fetch", "upload", "change", "foreign"}
LibShape(b) ==
    /\ DOMAIN b = LibFields /\ b = [f \in LibFields |-> b[f]]
    /\ b.rows \in LibRows /\ b.all \in BOOLEAN

\* An image recorded is stored, one to be recorded too, and none is recorded twice.
LibHeld(rows, objects) ==
    /\ \A id \in DOMAIN rows : rows[id].image \in objects \ Damaged
    /\ \A i, j \in DOMAIN rows : rows[i].image = rows[j].image => i = j
LibStored(b) ==
    /\ LibHeld(b.rows, b.objects)
    /\ DOMAIN b.upload = {"stage", "image"}
    /\ b.upload.stage # "none" => b.upload.image \in LibraryImages
    /\ b.upload.stage = "record" => b.upload.image \in b.objects \ Damaged

LibListed(lists) ==
    /\ DOMAIN lists = BOOLEAN
    /\ \A all \in BOOLEAN : DOMAIN lists[all] = {"pages", "told"} /\ lists[all].told \in BOOLEAN /\ LibChain(lists[all].pages)
LibFetched(fetch) ==
    /\ DOMAIN fetch = {"kind", "pages", "want", "told"} /\ fetch.told \in BOOLEAN
    /\ LibChain(fetch.pages)
    /\ fetch.kind # "none" /\ fetch.pages # <<>> => fetch.pages[Len(fetch.pages)].next # 0

\* While no answer is outstanding to what was done, what is told is so.
LibQuiet(b) == b.upload.stage # "answer" /\ b.change.stage # "answer"
LibTrue(b) ==
    /\ DOMAIN b.change = {"stage", "id"}
    /\ LibQuiet(b) =>
          /\ \A all \in BOOLEAN : b.lists[all].told => LibTop(b.lists[all].pages, b.rows, all)
          /\ b.fetch.told /\ b.fetch.kind # "none" => LibTop(b.fetch.pages, b.rows, b.all)

LibGood(b) == LibShape(b) /\ LibStored(b) /\ LibListed(b.lists) /\ LibFetched(b.fetch) /\ LibTrue(b)

LEMMA LibCardinality ==
    ASSUME NEW S
    PROVE  Library!Cardinality(S) = Cardinality(S)
BY DEF Library!Cardinality, Cardinality

\* Numbers from the greatest down.
LEMMA LibSorted ==
    ASSUME NEW S \in SUBSET Nat, IsFiniteSet(S)
    PROVE  LET q == Library!Places(S, [x \in S |-> {y \in S : y > x}]) IN
           /\ Lists(q, S) /\ \A i, j \in 1..Cardinality(S) : i < j => q[i] > q[j]
<1> DEFINE below == [x \in S |-> {y \in S : y > x}]
<1>1. Strict(S, below)
    <2>1. \A x \in S : x \in Nat
        OBVIOUS
    <2>2. below \in [S -> SUBSET S] /\ \A x \in S : below[x] = {y \in S : y > x}
        OBVIOUS
    <2> HIDE DEF below
    <2>3. \A x, y, z \in S : ~(x > x) /\ (x > y /\ z > x => z > y) /\ (x # y => x > y \/ y > x)
        BY <2>1
    <2>4. \A x, y \in S : x \in below[y] <=> x > y
        BY <2>2
    <2>5. \A x, y \in S : x \in below[y] => below[x] \subseteq below[y]
        BY <2>2, <2>3
    <2>6. \A x, y \in S : x # y => x \in below[y] \/ y \in below[x]
        BY <2>3, <2>4
    <2>7. \A x \in S : x \notin below[x]
        BY <2>3, <2>4
    <2> QED  BY <2>2, <2>5, <2>6, <2>7 DEF Strict
<1>2. \A x \in S : below[x] = {y \in S : y > x}
    OBVIOUS
<1> HIDE DEF below
<1>3. Library!Places(S, below) = Places(S, below)
    BY LibCardinality DEF Library!Places, Places
<1>4. /\ Lists(Places(S, below), S)
      /\ \A i, j \in 1..Cardinality(S) : i < j => Places(S, below)[i] \in below[Places(S, below)[j]]
    BY <1>1, PlacesList
<1>5. \A i, j \in 1..Cardinality(S) : i < j => Places(S, below)[i] > Places(S, below)[j]
    BY <1>2, <1>4 DEF Lists
<1> QED  BY <1>3, <1>4, <1>5 DEF below

LEMMA LibMin ==
    ASSUME NEW m \in Nat, NEW n \in Nat
    PROVE  Library!Min({m, n}) = IF m <= n THEN m ELSE n
<1>1. PICK z \in {m, n} : \A y \in {m, n} : z <= y
    OBVIOUS
<1>2. Library!Min({m, n}) \in {m, n} /\ \A y \in {m, n} : Library!Min({m, n}) <= y
    BY <1>1 DEF Library!Min
<1> QED  BY <1>2

\* One page of what there is below a row.
LEMMA LibPaged ==
    ASSUME NEW b, b.rows \in LibRows, b.all \in BOOLEAN, NEW after \in Nat
    PROVE  LET page == Library!ListedFrom(b, after)
               on(x) == \E k \in DOMAIN page.items : page.items[k] = x IN
           /\ page \in LibPage /\ LibDown(page)
           /\ \A k \in DOMAIN page.items :
                 /\ page.items[k] \in LibAll(b.rows, b.all) /\ (after = 0 \/ page.items[k] < after)
                 /\ \A id \in LibAll(b.rows, b.all) : id >= page.items[k] /\ (after = 0 \/ id < after) => on(id)
<1> DEFINE S == {id \in DOMAIN b.rows : (after = 0 \/ id < after) /\ (b.all \/ Library!Alive(b, id))}
           q == Library!Places(S, [x \in S |-> {y \in S : y > x}])
           n == Cardinality(S)
           m == IF AssetsPerPage <= n THEN AssetsPerPage ELSE n
           page == Library!ListedFrom(b, after)
<1>1. S \in SUBSET (1..Len(b.rows)) /\ Len(b.rows) \in Nat
    BY DEF LibRows
<1>2. IsFiniteSet(S) /\ S \in SUBSET Nat
    <2> HIDE DEF S
    <2>1. IsFiniteSet(1..Len(b.rows))
        BY <1>1, ListInterval
    <2>2. 1..Len(b.rows) \in SUBSET Nat
        OBVIOUS
    <2> QED  BY <1>1, <2>1, <2>2, FS_Subset
<1>3. S = {id \in LibAll(b.rows, b.all) : after = 0 \/ id < after}
    BY DEF LibAll, Library!Alive
<1>4. \A x \in S : x # 0
    BY <1>1
<1>5. /\ n \in Nat /\ q \in [1..n -> S] /\ \A x \in S : \E k \in 1..n : q[k] = x
      /\ \A i, j \in 1..n : i < j => q[i] > q[j]
    <2>1. Lists(q, S) /\ \A i, j \in 1..n : i < j => q[i] > q[j]
        BY <1>2, LibSorted
    <2> HIDE DEF q, S
    <2> QED  BY <2>1 DEF Lists
<1>6. AssetsPerPage \in Nat \ {0}
    BY LibraryAssumption
<1>7. page = [items |-> SubSeq(q, 1, Library!Min({AssetsPerPage, Len(q)})), next |-> IF Len(q) > AssetsPerPage THEN q[AssetsPerPage] ELSE 0]
    BY Zenon DEF Library!ListedFrom, Library!Sorted
<1> HIDE DEF page, q, S
<1>8. Len(q) = n /\ q \in Seq(S)
    BY <1>5
<1> HIDE DEF n
<1>9. Library!Min({AssetsPerPage, Len(q)}) = m
    BY <1>5, <1>6, <1>8, LibMin
<1>10. m \in Nat /\ m <= n
    BY <1>5, <1>6
<1>11. /\ SubSeq(q, 1, m) \in Seq(S) /\ DOMAIN SubSeq(q, 1, m) = 1..m
       /\ \A k \in 1..m : SubSeq(q, 1, m)[k] = q[k]
    BY <1>5, <1>8, <1>10
<1>12. page.items = SubSeq(q, 1, m) /\ page.next = (IF n > AssetsPerPage THEN q[AssetsPerPage] ELSE 0) /\ page = [items |-> page.items, next |-> page.next]
    BY <1>7, <1>8, <1>9
<1>13. page.next = 0 \/ (page.next = q[m] /\ m >= 1)
    BY <1>5, <1>6, <1>12
<1>14. page \in LibPage
    <2>1. page.items \in Seq(Nat)
        BY <1>2, <1>11, <1>12
    <2>2. page.next \in Nat
        BY <1>2, <1>5, <1>10, <1>12, <1>13
    <2> QED  BY <1>12, <2>1, <2>2 DEF LibPage
<1>15. LibDown(page)
    <2>1. \A k, l \in 1..m : k < l => q[k] > q[l]
        BY <1>5, <1>10
    <2>2. \A k \in 1..m : q[k] \in Nat
        <3>1. \A x \in S : x \in Nat
            BY <1>2
        <3> QED  BY <1>5, <1>10, <3>1
    <2>6. \A k \in 1..m : q[k] >= page.next
        <3>1. ASSUME NEW k \in 1..m, m >= 1 PROVE q[k] >= q[m]
            BY <1>10, <2>1, <2>2, <3>1
        <3> QED  BY <1>10, <1>13, <2>2, <3>1
    <2>3. page.next # 0 => \E k \in 1..m : q[k] = page.next
        BY <1>10, <1>13
    <2> QED  BY <1>11, <1>12, <2>1, <2>2, <2>3, <2>6 DEF LibDown
<1>16. ASSUME NEW k \in 1..m
       PROVE  /\ q[k] \in LibAll(b.rows, b.all) /\ (after = 0 \/ q[k] < after)
              /\ \A id \in LibAll(b.rows, b.all) : id >= q[k] /\ (after = 0 \/ id < after) => \E l \in 1..m : q[l] = id
    <2>1. q[k] \in S
        BY <1>5, <1>10
    <2>2. ASSUME NEW id \in S, id >= q[k] PROVE \E l \in 1..m : q[l] = id
        <3>1. PICK l \in 1..n : q[l] = id
            BY <1>5
        <3>2. ~(k < l)
            <4>1. q[k] \in Nat /\ q[l] \in Nat
                BY <1>2, <2>1, <3>1
            <4> QED  BY <1>5, <1>10, <2>2, <3>1, <4>1
        <3> QED  BY <1>5, <1>10, <3>1, <3>2
    <2> QED  BY <1>3, <2>1, <2>2
<1> QED  BY <1>11, <1>12, <1>14, <1>15, <1>16 DEF page
LEMMA LibChained ==
    ASSUME NEW b, b.rows \in LibRows, b.all \in BOOLEAN,
           NEW pages, LibChain(pages), pages # <<>> => pages[Len(pages)].next # 0,
           NEW after, after = IF pages = <<>> THEN 0 ELSE pages[Len(pages)].next
    PROVE  LET more == Append(pages, Library!ListedFrom(b, after)) IN
           /\ LibChain(more) /\ more # <<>> /\ Len(more) \in Nat \ {0}
           /\ LibTop(pages, b.rows, b.all) => LibTop(more, b.rows, b.all)
<1> DEFINE page == Library!ListedFrom(b, after)
           n    == Len(pages)
           more == Append(pages, page)
           S    == LibAll(b.rows, b.all)
<1>1. pages \in Seq(LibPage) /\ n \in Nat /\ DOMAIN pages = 1..n
    BY DEF LibChain
<1>2. \A i \in 1..n : pages[i].next \in Nat /\ pages[i].items \in Seq(Nat)
    <2>1. \A i \in 1..n : pages[i] \in LibPage
        BY <1>1
    <2> QED  BY <2>1 DEF LibPage
<1>3. after \in Nat
    BY <1>1, <1>2
<1>4. /\ page \in LibPage /\ LibDown(page)
      /\ \A k \in DOMAIN page.items :
            /\ page.items[k] \in S /\ (after = 0 \/ page.items[k] < after)
            /\ \A id \in S : id >= page.items[k] /\ (after = 0 \/ id < after) => \E l \in DOMAIN page.items : page.items[l] = id
    BY <1>3, LibPaged
<1>5. S \subseteq Nat
    BY DEF LibAll, LibRows
<1> HIDE DEF page, S
<1>6. /\ more \in Seq(LibPage) /\ Len(more) = n + 1 /\ DOMAIN more = 1..(n + 1)
      /\ more[n + 1] = page /\ \A i \in 1..n : more[i] = pages[i]
    BY <1>1, <1>4
<1> HIDE DEF more
<1>7. n # 0 => pages # <<>> /\ after = pages[n].next /\ after # 0
    BY <1>1
<1>8. n = 0 => after = 0
    BY <1>1
<1> HIDE DEF n
<1>9. ASSUME NEW i \in 1..n, NEW k \in DOMAIN page.items
      PROVE  pages[i].next # 0 /\ page.items[k] < pages[i].next
    <2>0. n # 0
        BY <1>1
    <2>1. page.items[k] < after /\ page.items[k] \in Nat
        BY <1>4, <1>5, <1>7, <2>0
    <2>2. CASE i = n
        BY <1>1, <1>7, <2>1, <2>2
    <2>3. CASE i # n
        <3>1. i \in DOMAIN pages /\ n \in DOMAIN pages /\ i < n
            BY <1>1, <2>3
        <3>2. pages[i].next # 0 /\ \A l \in DOMAIN pages[n].items : pages[n].items[l] < pages[i].next
            BY <3>1 DEF LibChain
        <3>3. PICK l \in DOMAIN pages[n].items : pages[n].items[l] = after
            BY <1>1, <1>7, <3>1 DEF LibChain, LibDown
        <3> QED  BY <1>2, <1>3, <2>1, <3>1, <3>2, <3>3
    <2> QED  BY <2>2, <2>3
<1>10. LibChain(more)
    <2>1. ASSUME NEW i \in 1..(n + 1) PROVE LibDown(more[i])
        BY <1>1, <1>4, <1>6 DEF LibChain
    <2>2. ASSUME NEW i \in 1..(n + 1), NEW j \in 1..(n + 1), i < j
          PROVE  more[i].next # 0 /\ \A l \in DOMAIN more[j].items : more[j].items[l] < more[i].next
        <3>1. i \in 1..n /\ more[i] = pages[i]
            BY <1>1, <1>6, <2>2
        <3>2. CASE j = n + 1
            <4>1. pages[i].next # 0
                <5>1. CASE i = n
                    BY <1>1, <1>7, <3>1, <5>1
                <5>2. CASE i # n
                    <6>1. i \in DOMAIN pages /\ n \in DOMAIN pages /\ i < n
                        BY <1>1, <3>1, <5>2
                    <6> QED  BY <6>1 DEF LibChain
                <5> QED  BY <5>1, <5>2
            <4> QED  BY <1>6, <1>9, <3>1, <3>2, <4>1
        <3>3. CASE j # n + 1
            <4>1. j \in 1..n /\ more[j] = pages[j]
                BY <1>1, <1>6, <3>3
            <4> QED  BY <1>1, <2>2, <3>1, <4>1 DEF LibChain
        <3> QED  BY <3>2, <3>3
    <2> QED  BY <1>6, <2>1, <2>2 DEF LibChain
<1>11. \A x : LibOn(more, x) <=> LibOn(pages, x) \/ \E k \in DOMAIN page.items : page.items[k] = x
    <2>1. ASSUME NEW x, LibOn(pages, x) PROVE LibOn(more, x)
        BY <1>1, <1>6, <2>1 DEF LibOn
    <2>2. ASSUME NEW k \in DOMAIN page.items PROVE LibOn(more, page.items[k])
        <3>1. n + 1 \in DOMAIN more
            BY <1>1, <1>6
        <3> QED  BY <1>6, <3>1 DEF LibOn
    <2>3. ASSUME NEW x, LibOn(more, x) PROVE LibOn(pages, x) \/ \E k \in DOMAIN page.items : page.items[k] = x
        <3>1. PICK i \in DOMAIN more : \E k \in DOMAIN more[i].items : more[i].items[k] = x
            BY <2>3 DEF LibOn
        <3>2. CASE i = n + 1
            BY <1>6, <3>1, <3>2
        <3>3. CASE i # n + 1
            <4>1. i \in DOMAIN pages /\ more[i] = pages[i]
                BY <1>1, <1>6, <3>3
            <4> QED  BY <3>1, <4>1 DEF LibOn
        <3> QED  BY <3>2, <3>3
    <2> QED  BY <2>1, <2>2, <2>3
<1>12. ASSUME LibTop(pages, b.rows, b.all) PROVE LibTop(more, b.rows, b.all)
    <2>1. ASSUME NEW x \in Nat, LibOn(more, x)
          PROVE  x \in S /\ \A id \in S : id >= x => LibOn(more, id)
        <3>1. CASE LibOn(pages, x)
            BY <1>11, <1>12, <3>1 DEF LibTop, S
        <3>2. CASE \E k \in DOMAIN page.items : page.items[k] = x
            <4>1. PICK k \in DOMAIN page.items : page.items[k] = x
                BY <3>2
            <4>2. x \in S
                BY <1>4, <4>1
            <4>3. ASSUME NEW id \in S, id >= x PROVE LibOn(more, id)
                <5>1. CASE after = 0 \/ id < after
                    BY <1>4, <1>11, <4>1, <4>3, <5>1
                <5>2. CASE after # 0 /\ ~(id < after)
                    <6>1. n # 0 /\ n \in DOMAIN pages
                        BY <1>1, <1>8, <5>2
                    <6>2. LibOn(pages, after)
                        BY <1>7, <6>1 DEF LibChain, LibDown, LibOn
                    <6>3. id >= after
                        BY <1>3, <1>5, <5>2
                    <6>4. LibOn(pages, id)
                        BY <1>3, <1>12, <6>2, <6>3 DEF LibTop, S
                    <6> QED  BY <1>11, <6>4
                <5> QED  BY <5>1, <5>2
            <4> QED  BY <4>2, <4>3
        <3> QED  BY <1>11, <2>1, <3>1, <3>2
    <2> QED  BY <2>1 DEF LibTop, S
<1>13. more # <<>> /\ Len(more) \in Nat \ {0}
    BY <1>1, <1>6
<1> QED  BY <1>10, <1>12, <1>13 DEF more, page

LEMMA LibEmpty ==
    /\ LibChain(<<>>)
    /\ \A rows, all : LibTop(<<>>, rows, all)
BY DEF LibChain, LibTop, LibOn

\* Lists that tell nothing.
LEMMA LibForgotten ==
    ASSUME NEW lists, LibListed(lists)
    PROVE  LET none == Library!NoneTold(lists) IN
           LibListed(none) /\ \A all \in BOOLEAN : ~none[all].told /\ none[all].pages = lists[all].pages
<1> DEFINE none == Library!NoneTold(lists)
<1>1. /\ DOMAIN none = BOOLEAN
      /\ \A all \in BOOLEAN : none[all] = [lists[all] EXCEPT !.told = FALSE]
    BY DEF Library!NoneTold
<1> HIDE DEF none
<1>2. ASSUME NEW all \in BOOLEAN
      PROVE  DOMAIN none[all] = {"pages", "told"} /\ none[all].told = FALSE /\ none[all].pages = lists[all].pages
    BY <1>1 DEF LibListed
<1>3. LibListed(none)
    BY <1>1, <1>2 DEF LibListed
<1> QED  BY <1>2, <1>3 DEF none

LibUnread(fetch) == [fetch EXCEPT !.told = @ /\ fetch.kind = "again" /\ fetch.pages = <<>>]

LEMMA LibForgetful ==
    ASSUME NEW fetch, LibFetched(fetch)
    PROVE  /\ LibFetched(LibUnread(fetch))
           /\ LibUnread(fetch).told => LibUnread(fetch).pages = <<>>
<1> DEFINE v == fetch.told /\ fetch.kind = "again" /\ fetch.pages = <<>>
           f == [fetch EXCEPT !.told = v]
<1>1. LibUnread(fetch) = f
    BY Zenon DEF LibUnread
<1>2. v \in BOOLEAN /\ (v => fetch.pages = <<>>)
    OBVIOUS
<1> HIDE DEF v
<1>3. DOMAIN f = {"kind", "pages", "want", "told"} /\ f.told = v /\ f.pages = fetch.pages /\ f.kind = fetch.kind
    BY DEF LibFetched
<1> HIDE DEF f
<1>4. LibFetched(f)
    BY <1>2, <1>3 DEF LibFetched
<1> QED  BY <1>1, <1>2, <1>3, <1>4

LEMMA LibUntolds ==
    ASSUME NEW b, LibShape(b)
    PROVE  Library!Untold(b) = [b EXCEPT !.lists = Library!NoneTold(b.lists), !.fetch = LibUnread(b.fetch)]
<1> DEFINE v == b.fetch.kind = "again" /\ b.fetch.pages = <<>>
<1>1. Library!Untold(b) = [b EXCEPT !.lists = Library!NoneTold(@), !.fetch.told = @ /\ v]
    BY Zenon DEF Library!Untold
<1>2. LibUnread(b.fetch) = [b.fetch EXCEPT !.told = @ /\ v]
    BY Zenon DEF LibUnread
<1> HIDE DEF v
<1>3. b = [f \in LibFields |-> b[f]] /\ DOMAIN b = LibFields
    BY DEF LibShape
<1> QED  BY <1>1, <1>2, <1>3 DEF LibFields
LEMMA LibInit ==
    ASSUME Library!Init
    PROVE  LibGood(state)
<1> DEFINE rows  == [id \in DOMAIN Held |-> [image |-> Held[id], deleted |-> FALSE]]
           none  == [pages |-> <<>>, told |-> FALSE]
           lists == [all \in BOOLEAN |-> none]
           fetch == Library!Again(1)
           upload == [stage |-> "none", image |-> Library!NoImage]
           change == [stage |-> "none", id |-> 0]
<1>1. state = [objects |-> Library!Range(Held), rows |-> rows, lists |-> lists, all |-> FALSE, page |-> 1,
               fetch |-> fetch, upload |-> upload, change |-> change, foreign |-> 0]
    BY Zenon DEF Library!Init
<1>2. Held \in Seq(LibKnown) /\ \A id \in DOMAIN Held : Held[id] \in Library!Range(Held) \ Damaged
    BY LibraryAssumption DEF LibKnown
<1>3. /\ rows \in LibRows /\ DOMAIN rows = DOMAIN Held
      /\ \A id \in DOMAIN Held : rows[id].image = Held[id]
    <2>1. rows \in [1..Len(Held) -> [image : LibKnown, deleted : BOOLEAN]] /\ Len(Held) \in Nat
        BY <1>2
    <2> HIDE DEF rows
    <2>2. rows \in LibRows
        BY <2>1, SeqDef DEF LibRows
    <2> QED  BY <2>2 DEF rows
<1>4. LibListed(lists)
    BY LibEmpty DEF LibListed
<1>5. LibFetched(fetch) /\ fetch.pages = <<>>
    BY LibEmpty DEF LibFetched, Library!Again
<1>6. DOMAIN upload = {"stage", "image"} /\ upload.stage = "none"
    OBVIOUS
<1>7. DOMAIN change = {"stage", "id"} /\ change.stage = "none"
    OBVIOUS
<1>8. \A all \in BOOLEAN : ~lists[all].told
    OBVIOUS
<1>9. \A id \in DOMAIN Held : Held[id] \in Library!Range(Held) \ Damaged
    BY <1>2 DEF Library!Range
<1> HIDE DEF rows, none, lists, fetch, upload, change
<1>10. /\ LibShape(state) /\ state.rows = rows /\ state.objects = Library!Range(Held) /\ state.lists = lists
       /\ state.fetch = fetch /\ state.upload = upload /\ state.change = change
    BY <1>1, <1>3 DEF LibShape, LibFields
<1>11. LibStored(state)
    BY <1>3, <1>6, <1>9, <1>10, LibraryAssumption DEF LibStored, LibHeld
<1>12. LibTrue(state)
    BY <1>5, <1>7, <1>8, <1>10, LibEmpty DEF LibTrue
<1> QED  BY <1>4, <1>5, <1>10, <1>11, <1>12 DEF LibGood

\* A row is added for an image that is stored and has none.
LEMMA LibRecorded ==
    ASSUME NEW b, LibShape(b), LibStored(b), NEW f \in LibraryImages, f \in b.objects \ Damaged
    PROVE  LET c == Library!Recorded(b, f) IN
           /\ LibShape(c) /\ LibStored(c)
           /\ \A x \in LibFields \ {"rows"} : c[x] = b[x]
           /\ c.rows = b.rows \/ \E id \in Library!RowOf(c, f) : Library!Alive(c, id)
<1> DEFINE row  == [image |-> f, deleted |-> FALSE]
           more == Append(b.rows, row)
           c    == Library!Recorded(b, f)
<1>1. CASE c = b
    BY <1>1
<1>2. CASE c # b
    <2>1. Library!RowOf(b, f) = {} /\ c = [b EXCEPT !.rows = Append(b.rows, row)]
        BY <1>2 DEF Library!Recorded
    <2>2. \A id \in DOMAIN b.rows : b.rows[id].image # f
        BY <2>1 DEF Library!RowOf
    <2>3. row \in [image : LibKnown, deleted : BOOLEAN] /\ row.image = f /\ row.deleted = FALSE
        BY DEF LibKnown
    <2> HIDE DEF row
    <2>4. b.rows \in LibRows /\ Len(b.rows) \in Nat /\ DOMAIN b.rows = 1..Len(b.rows)
        BY DEF LibShape, LibRows
    <2>5. /\ more \in LibRows /\ DOMAIN more = 1..(Len(b.rows) + 1) /\ more[Len(b.rows) + 1] = row
          /\ \A id \in 1..Len(b.rows) : more[id] = b.rows[id]
        BY <2>3, <2>4 DEF LibRows
    <2>6. c = [b EXCEPT !.rows = more]
        BY <2>1
    <2> HIDE DEF more, c
    <2>7. LibShape(c) /\ c.rows = more /\ \A x \in LibFields \ {"rows"} : c[x] = b[x]
        BY <2>5, <2>6 DEF LibShape, LibFields
    <2>8. c.objects = b.objects /\ c.upload = b.upload
        BY <2>7 DEF LibFields
    <2>9. ASSUME NEW i \in DOMAIN more, NEW j \in DOMAIN more, more[i].image = more[j].image PROVE i = j
        <3>1. i \in 1..Len(b.rows) \/ i = Len(b.rows) + 1
            BY <2>4, <2>5
        <3>2. j \in 1..Len(b.rows) \/ j = Len(b.rows) + 1
            BY <2>4, <2>5
        <3> QED  BY <2>2, <2>3, <2>4, <2>5, <2>9, <3>1, <3>2 DEF LibStored, LibHeld
    <2>10. ASSUME NEW i \in DOMAIN more PROVE more[i].image \in b.objects \ Damaged
        <3>1. i \in 1..Len(b.rows) \/ i = Len(b.rows) + 1
            BY <2>4, <2>5
        <3> QED  BY <2>3, <2>4, <2>5, <3>1 DEF LibStored, LibHeld
    <2>11. LibStored(c)
        BY <2>7, <2>8, <2>9, <2>10 DEF LibStored, LibHeld
    <2>12. \E id \in Library!RowOf(c, f) : Library!Alive(c, id)
        <3>1. Len(b.rows) + 1 \in DOMAIN more
            BY <2>4, <2>5
        <3> QED  BY <2>3, <2>5, <2>7, <3>1 DEF Library!RowOf, Library!Alive
    <2> QED  BY <2>7, <2>11, <2>12 DEF c
<1> QED  BY <1>1, <1>2

LEMMA LibForeign ==
    ASSUME LibGood(state), Library!Foreign
    PROVE  LibGood(state')
<1> DEFINE lists == Library!NoneTold(state.lists)
           fetch == LibUnread(state.fetch)
           b == [Library!Untold(state) EXCEPT !.foreign = @ + 1]
<1>1. /\ LibListed(lists) /\ \A all \in BOOLEAN : ~lists[all].told
      /\ LibFetched(fetch) /\ (fetch.told => fetch.pages = <<>>)
    BY LibForgotten, LibForgetful DEF LibGood
<1> DEFINE u == Library!Untold(state)
<1>2. u = [state EXCEPT !.lists = lists, !.fetch = fetch] /\ b = [u EXCEPT !.foreign = u.foreign + 1]
    <2>1. LibShape(state)
        BY DEF LibGood
    <2> HIDE DEF u
    <2>2. b = [u EXCEPT !.foreign = u.foreign + 1]
        BY DEF u
    <2> QED  BY <2>1, <2>2, LibUntolds DEF u
<1> HIDE DEF lists, fetch, u, b
<1>3. /\ LibShape(b) /\ b.lists = lists /\ b.fetch = fetch
      /\ \A x \in LibFields \ {"lists", "fetch", "foreign"} : b[x] = state[x]
    BY <1>2 DEF LibGood, LibShape, LibFields
<1>4. ASSUME NEW c, LibShape(c), LibStored(c), c.lists = lists, c.fetch = fetch, c.change = state.change
      PROVE  LibGood(c)
    BY <1>1, <1>4, LibEmpty DEF LibGood, LibTrue
<1>5. ASSUME NEW f \in LibraryImages, Library!SameBytes(f),
             NEW c, c = [b EXCEPT !.objects = @ \union {f}]
      PROVE  LibShape(c) /\ LibStored(c) /\ f \in c.objects \ Damaged /\ \A x \in LibFields \ {"objects"} : c[x] = b[x]
    <2>1. LibShape(c) /\ c.objects = b.objects \union {f} /\ \A x \in LibFields \ {"objects"} : c[x] = b[x]
        BY <1>3, <1>5 DEF LibShape, LibFields
    <2>2. c.rows = state.rows /\ c.upload = state.upload /\ c.objects = state.objects \union {f}
        BY <1>3, <2>1 DEF LibFields
    <2>3. LibStored(c)
        BY <2>2 DEF LibGood, LibStored, LibHeld
    <2> QED  BY <1>5, <2>1, <2>3 DEF Library!SameBytes
<1>6. CASE \E f \in LibraryImages, ends \in BOOLEAN :
             /\ Library!SameBytes(f) /\ (ends => f \notin state.objects)
             /\ state' = IF ends THEN [b EXCEPT !.objects = @ \union {f}]
                         ELSE Library!Recorded([b EXCEPT !.objects = @ \union {f}], f)
    <2>1. PICK f \in LibraryImages : /\ Library!SameBytes(f)
                                     /\ \/ state' = [b EXCEPT !.objects = @ \union {f}]
                                        \/ state' = Library!Recorded([b EXCEPT !.objects = @ \union {f}], f)
        BY <1>6
    <2> DEFINE c == [b EXCEPT !.objects = @ \union {f}]
    <2>2. LibShape(c) /\ LibStored(c) /\ f \in c.objects \ Damaged /\ \A x \in LibFields \ {"objects"} : c[x] = b[x]
        BY <1>5, <2>1
    <2>3. state' = c \/ state' = Library!Recorded(c, f)
        BY <2>1
    <2> HIDE DEF c
    <2>4. /\ LibShape(state') /\ LibStored(state')
          /\ \A x \in LibFields \ {"objects", "rows"} : state'[x] = b[x]
        BY <2>2, <2>3, LibRecorded
    <2>5. state'.lists = lists /\ state'.fetch = fetch /\ state'.change = state.change
        BY <1>3, <2>4 DEF LibFields
    <2> QED  BY <1>4, <2>4, <2>5
<1>7. CASE \E id \in DOMAIN state.rows : state' = [b EXCEPT !.rows[id].deleted = ~@]
    <2>1. PICK id \in DOMAIN state.rows : state' = [b EXCEPT !.rows[id].deleted = ~@]
        BY <1>7
    <2> DEFINE rows == [state.rows EXCEPT ![id].deleted = ~@]
    <2>2. state.rows \in LibRows /\ b.rows = state.rows
        BY <1>3 DEF LibGood, LibShape, LibFields
    <2>3. rows \in LibRows /\ DOMAIN rows = DOMAIN state.rows /\ \A j \in DOMAIN rows : rows[j].image = state.rows[j].image
        <3> DEFINE row == [state.rows[id] EXCEPT !.deleted = ~state.rows[id].deleted]
        <3> HIDE DEF rows
        <3>1. state.rows[id] \in [image : LibKnown, deleted : BOOLEAN]
            <4> DEFINE T == [image : LibKnown, deleted : BOOLEAN]
            <4>1. state.rows \in Seq(T)
                BY <2>2 DEF LibRows
            <4> HIDE DEF T
            <4>2. id \in 1..Len(state.rows)
                BY <4>1
            <4>3. state.rows[id] \in T
                BY <4>1, <4>2, ElementOfSeq
            <4> QED  BY <4>3 DEF T
        <3>2. \A r \in [image : LibKnown, deleted : BOOLEAN], d \in BOOLEAN :
                 [r EXCEPT !.deleted = d] \in [image : LibKnown, deleted : BOOLEAN] /\ [r EXCEPT !.deleted = d].image = r.image
            OBVIOUS
        <3>4. (~state.rows[id].deleted) \in BOOLEAN
            BY Zenon
        <3>3. rows = [state.rows EXCEPT ![id] = row]
            BY DEF rows
        <3> HIDE DEF row
        <3>5. row \in [image : LibKnown, deleted : BOOLEAN] /\ row.image = state.rows[id].image
            BY <3>1, <3>2, <3>4, Zenon DEF row
        <3> QED  BY <2>2, <3>3, <3>5 DEF LibRows
    <2>4. state' = [b EXCEPT !.rows = rows]
        BY <2>1, <2>2
    <2> HIDE DEF rows
    <2>5. LibShape(state') /\ state'.rows = rows /\ \A x \in LibFields \ {"rows"} : state'[x] = b[x]
        BY <1>3, <2>3, <2>4 DEF LibShape, LibFields
    <2>6. /\ state'.lists = lists /\ state'.fetch = fetch /\ state'.change = state.change
          /\ state'.objects = state.objects /\ state'.upload = state.upload
        BY <1>3, <2>5 DEF LibFields
    <2>7. LibStored(state')
        BY <2>3, <2>5, <2>6 DEF LibGood, LibStored, LibHeld
    <2> QED  BY <1>4, <2>5, <2>6, <2>7
<1> QED  BY <1>6, <1>7 DEF Library!Foreign, b
\* What the browser turns, reads and fails to read leaves the service as it was.
LEMMA LibBrowsed ==
    ASSUME LibGood(state), NEW lists, NEW all \in BOOLEAN, NEW page, NEW fetch,
           NEW c, c = [state EXCEPT !.lists = lists, !.all = all, !.page = page, !.fetch = fetch],
           LibListed(lists), LibFetched(fetch),
           LibQuiet(state) =>
               /\ \A x \in BOOLEAN : lists[x].told => LibTop(lists[x].pages, state.rows, x)
               /\ fetch.told /\ fetch.kind # "none" => LibTop(fetch.pages, state.rows, all)
    PROVE  LibGood(c)
<1>1. /\ LibShape(c) /\ c.lists = lists /\ c.all = all /\ c.fetch = fetch
      /\ c.objects = state.objects /\ c.rows = state.rows /\ c.upload = state.upload /\ c.change = state.change
    BY DEF LibGood, LibShape, LibFields
<1> QED  BY <1>1 DEF LibGood, LibStored, LibHeld, LibTrue, LibQuiet

LEMMA LibRead ==
    ASSUME LibGood(state), Library!PageAnswered
    PROVE  LibGood(state')
<1> DEFINE f     == state.fetch
           after == IF f.pages = <<>> THEN 0 ELSE f.pages[Len(f.pages)].next
           pages == Append(f.pages, Library!ListedFrom(state, after))
           page  == IF f.kind = "next" /\ pages[Len(pages)].items # <<>> THEN Library!Current + 1 ELSE state.page
           list  == [pages |-> pages, told |-> f.told]
           more  == [f EXCEPT !.pages = pages]
           lists == [state.lists EXCEPT ![state.all] = list]
<1>1. /\ f.kind # "none"
      /\ \/ /\ pages[Len(pages)].next # 0
            /\ state' = [state EXCEPT !.fetch.pages = pages]
         \/ state' = [state EXCEPT !.fetch = Library!NoFetch, !.lists[state.all] = [pages |-> pages, told |-> f.told], !.page = page]
    BY Zenon DEF Library!PageAnswered
<1>2. LibShape(state) /\ state.rows \in LibRows /\ state.all \in BOOLEAN /\ LibChain(f.pages) /\ LibListed(state.lists) /\ LibFetched(f)
    BY DEF LibGood, LibShape, LibFetched
<1>3. after = (IF f.pages = <<>> THEN 0 ELSE f.pages[Len(f.pages)].next)
    OBVIOUS
<1>4. f.pages # <<>> => f.pages[Len(f.pages)].next # 0
    BY <1>1, <1>2 DEF LibFetched
<1> HIDE DEF after
<1>5. /\ LibChain(pages) /\ pages # <<>> /\ Len(pages) \in Nat \ {0}
      /\ LibTop(f.pages, state.rows, state.all) => LibTop(pages, state.rows, state.all)
    BY <1>2, <1>3, <1>4, LibChained
<1>6. LibQuiet(state) => /\ \A all \in BOOLEAN : state.lists[all].told => LibTop(state.lists[all].pages, state.rows, all)
                         /\ f.told => LibTop(pages, state.rows, state.all)
    BY <1>1, <1>5 DEF LibGood, LibTrue
<1> HIDE DEF pages, page, f
<1>7. CASE pages[Len(pages)].next # 0 /\ state' = [state EXCEPT !.fetch.pages = pages]
    <2>1. state' = [state EXCEPT !.fetch = more]
        BY <1>7 DEF f
    <2>2. /\ DOMAIN more = {"kind", "pages", "want", "told"} /\ more.told = f.told /\ more.pages = pages /\ more.kind = f.kind
        BY <1>2 DEF LibFetched
    <2> HIDE DEF more
    <2>3. LibFetched(more)
        BY <1>2, <1>5, <1>7, <2>2 DEF LibFetched
    <2>4. state' = [state EXCEPT !.lists = state.lists, !.all = state.all, !.page = state.page, !.fetch = more]
        BY <1>2, <2>1 DEF LibShape, LibFields
    <2> QED  BY <1>2, <1>6, <2>2, <2>3, <2>4, LibBrowsed
<1>8. CASE state' = [state EXCEPT !.fetch = Library!NoFetch, !.lists[state.all] = [pages |-> pages, told |-> f.told], !.page = page]
    <2>1. state' = [state EXCEPT !.lists = lists, !.all = state.all, !.page = page, !.fetch = Library!NoFetch]
        BY <1>2, <1>8 DEF LibShape, LibFields
    <2>2. DOMAIN list = {"pages", "told"} /\ list.told = f.told /\ list.pages = pages
        OBVIOUS
    <2> HIDE DEF list
    <2>3. LibListed(lists)
        BY <1>2, <1>5, <2>2 DEF LibListed, LibFetched
    <2>4. LibFetched(Library!NoFetch) /\ Library!NoFetch.kind = "none"
        BY LibEmpty DEF LibFetched, Library!NoFetch
    <2>5. ASSUME LibQuiet(state), NEW x \in BOOLEAN, lists[x].told PROVE LibTop(lists[x].pages, state.rows, x)
        <3>1. CASE x = state.all
            BY <1>2, <1>6, <2>2, <2>5, <3>1 DEF LibListed
        <3>2. CASE x # state.all
            <4>1. lists[x] = state.lists[x]
                BY <1>2, <3>2 DEF LibListed
            <4> QED  BY <1>6, <2>5, <4>1
        <3> QED  BY <3>1, <3>2
    <2> HIDE DEF lists
    <2> QED  BY <1>2, <2>1, <2>3, <2>4, <2>5, LibBrowsed
<1> QED  BY <1>1, <1>7, <1>8

LEMMA LibTurns ==
    ASSUME LibGood(state),
           Library!FetchFails \/ Library!Previous \/ Library!NextPage \/ Library!Toggle \/ Library!Retry
    PROVE  LibGood(state')
<1>1. LibShape(state) /\ state.all \in BOOLEAN /\ LibListed(state.lists) /\ LibFetched(state.fetch)
    BY DEF LibGood, LibShape
<1>2. LibQuiet(state) =>
          /\ \A x \in BOOLEAN : state.lists[x].told => LibTop(state.lists[x].pages, state.rows, x)
          /\ state.fetch.told /\ state.fetch.kind # "none" => LibTop(state.fetch.pages, state.rows, state.all)
    BY DEF LibGood, LibTrue
<1>3. ASSUME NEW page, state' = [state EXCEPT !.page = page] PROVE LibGood(state')
    <2>1. state' = [state EXCEPT !.lists = state.lists, !.all = state.all, !.page = page, !.fetch = state.fetch]
        BY <1>1, <1>3 DEF LibShape, LibFields
    <2> QED  BY <1>1, <1>2, <2>1, LibBrowsed
<1>4. ASSUME NEW fetch, LibFetched(fetch), NEW all \in BOOLEAN, NEW page,
             state' = [state EXCEPT !.all = all, !.page = page, !.fetch = fetch],
             LibQuiet(state) /\ fetch.told /\ fetch.kind # "none" => LibTop(fetch.pages, state.rows, all)
      PROVE  LibGood(state')
    <2>1. state' = [state EXCEPT !.lists = state.lists, !.all = all, !.page = page, !.fetch = fetch]
        BY <1>1, <1>4 DEF LibShape, LibFields
    <2>2. LibQuiet(state) =>
              /\ \A x \in BOOLEAN : state.lists[x].told => LibTop(state.lists[x].pages, state.rows, x)
              /\ fetch.told /\ fetch.kind # "none" => LibTop(fetch.pages, state.rows, all)
        BY <1>2, <1>4
    <2>3. LibFetched(fetch)
        BY <1>4
    <2> QED  BY <1>1, <2>1, <2>2, <2>3, LibBrowsed
<1>5. CASE Library!FetchFails
    <2>1. LibFetched(Library!NoFetch) /\ Library!NoFetch.kind = "none"
        BY LibEmpty DEF LibFetched, Library!NoFetch
    <2>2. state' = [state EXCEPT !.all = state.all, !.page = state.page, !.fetch = Library!NoFetch]
        BY <1>1, <1>5 DEF LibShape, LibFields, Library!FetchFails
    <2> QED  BY <1>1, <1>4, <2>1, <2>2
<1>6. CASE Library!Previous
    <2> DEFINE page == Library!Current - 1
    <2>1. state' = [state EXCEPT !.page = page]
        BY <1>6, Zenon DEF Library!Previous
    <2> HIDE DEF page
    <2> QED  BY <1>3, <2>1
<1>7. ASSUME NEW n PROVE LibFetched(Library!Again(n)) /\ Library!Again(n).pages = <<>>
    BY LibEmpty DEF LibFetched, Library!Again
<1>8. CASE Library!NextPage
    <2> DEFINE page  == Library!Current + 1
               list  == state.lists[state.all]
               fetch == [kind |-> "next", pages |-> list.pages, want |-> Len(list.pages) + 1, told |-> list.told]
    <2>1. \/ state' = [state EXCEPT !.page = page]
          \/ list.pages # <<>> /\ list.pages[Len(list.pages)].next # 0 /\ state' = [state EXCEPT !.fetch = fetch]
        BY <1>8, Zenon DEF Library!NextPage, Library!List
    <2>2. LibChain(list.pages) /\ list.told \in BOOLEAN
        BY <1>1 DEF LibListed
    <2>3. LibQuiet(state) /\ list.told => LibTop(list.pages, state.rows, state.all)
        BY <1>1, <1>2
    <2> HIDE DEF page, list
    <2>4. DOMAIN fetch = {"kind", "pages", "want", "told"} /\ fetch.kind = "next" /\ fetch.pages = list.pages /\ fetch.told = list.told
        OBVIOUS
    <2> HIDE DEF fetch
    <2>5. CASE list.pages # <<>> /\ list.pages[Len(list.pages)].next # 0 /\ state' = [state EXCEPT !.fetch = fetch]
        <3>1. LibFetched(fetch)
            BY <2>2, <2>4, <2>5 DEF LibFetched
        <3>2. state' = [state EXCEPT !.all = state.all, !.page = state.page, !.fetch = fetch]
            BY <1>1, <2>5 DEF LibShape, LibFields
        <3>3. state.all \in BOOLEAN /\ (LibQuiet(state) /\ fetch.told => LibTop(fetch.pages, state.rows, state.all))
            BY <1>1, <2>3, <2>4
        <3> QED  BY <1>4, <3>1, <3>2, <3>3, ZenonT(60)
    <2> QED  BY <1>3, <2>1, <2>5
<1>9. CASE Library!Toggle
    <2> DEFINE fetch == Library!Again(Len(state.lists[~state.all].pages))
               all   == ~state.all
    <2>1. state' = [state EXCEPT !.all = all, !.page = 1, !.fetch = fetch]
        BY <1>9, Zenon DEF Library!Toggle
    <2>2. LibFetched(fetch) /\ fetch.pages = <<>>
        BY <1>7
    <2>3. all \in BOOLEAN
        BY <1>1
    <2> HIDE DEF fetch, all
    <2>4. LibTop(fetch.pages, state.rows, all)
        BY <2>2, LibEmpty
    <2> QED  BY <1>4, <2>1, <2>2, <2>3, <2>4
<1>10. CASE Library!Retry
    <2> DEFINE fetch == Library!Again(1)
    <2>1. LibFetched(fetch) /\ fetch.pages = <<>> /\ state' = [state EXCEPT !.fetch = fetch]
        BY <1>7, <1>10 DEF Library!Retry
    <2> HIDE DEF fetch
    <2>2. state' = [state EXCEPT !.all = state.all, !.page = state.page, !.fetch = fetch]
        BY <1>1, <2>1 DEF LibShape, LibFields
    <2>3. LibTop(fetch.pages, state.rows, state.all)
        BY <2>1, LibEmpty
    <2> QED  BY <1>1, <1>4, <2>1, <2>2, <2>3, ZenonT(60)
<1> QED  BY <1>5, <1>6, <1>8, <1>9, <1>10

\* A box whose lists tell nothing, and whose fetch has read nothing yet if it tells anything.
LEMMA LibUnknown ==
    ASSUME NEW c, LibShape(c), LibStored(c), LibListed(c.lists), LibFetched(c.fetch), DOMAIN c.change = {"stage", "id"},
           \A all \in BOOLEAN : ~c.lists[all].told, c.fetch.told => c.fetch.pages = <<>>
    PROVE  LibGood(c)
BY LibEmpty DEF LibGood, LibTrue

\* What is asked again, and what is no longer known.
LEMMA LibAsksAgain ==
    ASSUME NEW b, LibShape(b), LibStored(b), LibListed(b.lists), LibFetched(b.fetch), DOMAIN b.change = {"stage", "id"}
    PROVE  /\ LibGood(Library!Invalidated(b))
           /\ LibGood(Library!Untold(b))
           /\ \A x \in LibFields \ {"lists", "fetch"} : Library!Invalidated(b)[x] = b[x] /\ Library!Untold(b)[x] = b[x]
           /\ \A all \in BOOLEAN : ~Library!Untold(b).lists[all].told
           /\ Library!Untold(b).fetch.told => Library!Untold(b).fetch.pages = <<>>
<1> DEFINE lists == Library!NoneTold(b.lists)
           again == Library!Again(Len(b.lists[b.all].pages))
           fetch == LibUnread(b.fetch)
           c     == Library!Invalidated(b)
           d     == Library!Untold(b)
<1>1. c = [b EXCEPT !.lists = lists, !.fetch = again]
    BY DEF Library!Invalidated
<1>2. d = [b EXCEPT !.lists = lists, !.fetch = fetch]
    BY LibUntolds
<1>3. LibListed(lists) /\ \A all \in BOOLEAN : ~lists[all].told
    BY LibForgotten
<1>4. LibFetched(fetch) /\ (fetch.told => fetch.pages = <<>>)
    BY LibForgetful
<1>5. LibFetched(again) /\ again.pages = <<>>
    BY LibEmpty DEF LibFetched, Library!Again
<1> HIDE DEF lists, again, fetch, c, d
<1>6. LibShape(c) /\ c.lists = lists /\ c.fetch = again /\ \A x \in LibFields \ {"lists", "fetch"} : c[x] = b[x]
    BY <1>1 DEF LibShape, LibFields
<1>7. LibShape(d) /\ d.lists = lists /\ d.fetch = fetch /\ \A x \in LibFields \ {"lists", "fetch"} : d[x] = b[x]
    BY <1>2 DEF LibShape, LibFields
<1>8. LibStored(c) /\ c.change = b.change
    BY <1>6 DEF LibStored, LibHeld, LibFields
<1>9. LibStored(d) /\ d.change = b.change
    BY <1>7 DEF LibStored, LibHeld, LibFields
<1>10. LibGood(c)
    BY <1>3, <1>5, <1>6, <1>8, LibUnknown
<1>11. LibGood(d)
    BY <1>3, <1>4, <1>7, <1>9, LibUnknown
<1> QED  BY <1>3, <1>4, <1>6, <1>7, <1>10, <1>11 DEF c, d

\* What is sent or answered of an upload.
LEMMA LibUploading ==
    ASSUME LibGood(state), NEW b, LibShape(b), LibHeld(b.rows, b.objects),
           b.lists = state.lists, b.fetch = state.fetch, b.all = state.all, b.change = state.change,
           DOMAIN b.upload = {"stage", "image"}, b.upload.stage # "none" => b.upload.image \in LibraryImages,
           b.upload.stage = "record" => b.upload.image \in b.objects \ Damaged,
           b.upload.stage # "answer" => b.rows = state.rows /\ state.upload.stage # "answer"
    PROVE  LibGood(b)
<1>1. LibStored(b)
    BY DEF LibStored
<1> QED  BY <1>1 DEF LibGood, LibTrue, LibQuiet

LEMMA LibUploads ==
    ASSUME LibGood(state), Library!Upload \/ Library!Store \/ Library!Record
    PROVE  LibGood(state')
<1>1. LibShape(state) /\ LibHeld(state.rows, state.objects) /\ LibStored(state)
    BY DEF LibGood, LibStored
<1>2. /\ DOMAIN state.upload = {"stage", "image"}
      /\ state.upload.stage # "none" => state.upload.image \in LibraryImages
      /\ state.upload.stage = "record" => state.upload.image \in state.objects \ Damaged
    BY <1>1 DEF LibStored
<1>3. CASE Library!Upload
    <2>1. PICK f \in LibraryImages : state' = [state EXCEPT !.upload = [stage |-> "store", image |-> f]]
        BY <1>3 DEF Library!Upload
    <2> DEFINE upload == [stage |-> "store", image |-> f]
    <2>2. state' = [state EXCEPT !.upload = upload] /\ state.upload.stage = "none"
        BY <1>3, <2>1 DEF Library!Upload
    <2>3. DOMAIN upload = {"stage", "image"} /\ upload.stage = "store" /\ upload.image = f
        OBVIOUS
    <2> HIDE DEF upload
    <2>4. LibShape(state') /\ state'.upload = upload /\ \A x \in LibFields \ {"upload"} : state'[x] = state[x]
        BY <1>1, <2>2 DEF LibShape, LibFields
    <2>5. /\ state'.rows = state.rows /\ state'.objects = state.objects /\ state'.lists = state.lists
          /\ state'.fetch = state.fetch /\ state'.all = state.all /\ state'.change = state.change
        BY <2>4 DEF LibFields
    <2> QED  BY <1>1, <2>2, <2>3, <2>4, <2>5, LibUploading, ZenonT(60)
<1>4. CASE Library!Store
    <2> DEFINE f == state.upload.image
               stored == [state.upload EXCEPT !.stage = "record"]
               none   == [state.upload EXCEPT !.stage = "none"]
    <2>1. /\ DOMAIN stored = {"stage", "image"} /\ stored.stage = "record" /\ stored.image = f
          /\ DOMAIN none = {"stage", "image"} /\ none.stage = "none" /\ none.image = f
        BY <1>2
    <2>2. /\ state.upload.stage = "store" /\ f \in LibraryImages
          /\ \/ f \notin Damaged /\ state' = [state EXCEPT !.upload = stored, !.objects = state.objects \union {f}]
             \/ state' = [state EXCEPT !.upload = none]
        BY <1>1, <1>2, <1>4 DEF Library!Store, Library!SameBytes
    <2> HIDE DEF f, stored, none
    <2>3. CASE f \notin Damaged /\ state' = [state EXCEPT !.upload = stored, !.objects = state.objects \union {f}]
        <3>1. /\ LibShape(state') /\ state'.upload = stored /\ state'.objects = state.objects \union {f}
              /\ \A x \in LibFields \ {"upload", "objects"} : state'[x] = state[x]
            BY <1>1, <2>3 DEF LibShape, LibFields
        <3>2. /\ state'.rows = state.rows /\ state'.lists = state.lists
              /\ state'.fetch = state.fetch /\ state'.all = state.all /\ state'.change = state.change
            BY <3>1 DEF LibFields
        <3>3. LibHeld(state'.rows, state'.objects)
            BY <1>1, <3>1, <3>2 DEF LibHeld
        <3> QED  BY <2>1, <2>2, <2>3, <3>1, <3>2, <3>3, LibUploading, ZenonT(60)
    <2>4. CASE state' = [state EXCEPT !.upload = none]
        <3>1. /\ LibShape(state') /\ state'.upload = none /\ \A x \in LibFields \ {"upload"} : state'[x] = state[x]
            BY <1>1, <2>4 DEF LibShape, LibFields
        <3>2. /\ state'.rows = state.rows /\ state'.objects = state.objects /\ state'.lists = state.lists
              /\ state'.fetch = state.fetch /\ state'.all = state.all /\ state'.change = state.change
            BY <3>1 DEF LibFields
        <3> QED  BY <1>1, <2>1, <2>2, <3>1, <3>2, LibUploading
    <2> QED  BY <2>2, <2>3, <2>4
<1>5. CASE Library!Record
    <2> DEFINE f == state.upload.image
               b == Library!Recorded(state, f)
               answer == [state.upload EXCEPT !.stage = "answer"]
               none   == [state.upload EXCEPT !.stage = "none"]
               alive  == \E id \in Library!RowOf(b, f) : Library!Alive(b, id)
    <2>1. /\ DOMAIN answer = {"stage", "image"} /\ answer.stage = "answer" /\ answer.image = f
          /\ DOMAIN none = {"stage", "image"} /\ none.stage = "none" /\ none.image = f
        BY <1>2
    <2>2. state.upload.stage = "record" /\ f \in LibraryImages /\ f \in state.objects \ Damaged
        BY <1>2, <1>5 DEF Library!Record
    <2>3. /\ LibShape(b) /\ LibStored(b) /\ \A x \in LibFields \ {"rows"} : b[x] = state[x]
          /\ b.rows = state.rows \/ alive
        BY <1>1, <2>2, LibRecorded
    <2>4. state' = IF alive THEN [b EXCEPT !.upload.stage = "answer"] ELSE [b EXCEPT !.upload.stage = "none"]
        BY <1>5, Zenon DEF Library!Record
    <2> HIDE DEF f, b, alive
    <2>5. /\ b.upload = state.upload /\ b.objects = state.objects /\ b.lists = state.lists /\ b.fetch = state.fetch
          /\ b.all = state.all /\ b.change = state.change
        BY <2>3 DEF LibFields
    <2>6. \/ alive /\ state' = [b EXCEPT !.upload = answer]
          \/ b.rows = state.rows /\ state' = [b EXCEPT !.upload = none]
        BY <2>3, <2>4, <2>5
    <2> HIDE DEF answer, none
    <2>7. PICK upload \in {answer, none} :
             /\ state' = [b EXCEPT !.upload = upload]
             /\ upload.stage # "answer" => b.rows = state.rows
        BY <2>1, <2>6
    <2>8. LibShape(state') /\ state'.upload = upload /\ \A x \in LibFields \ {"upload"} : state'[x] = b[x]
        BY <2>3, <2>7 DEF LibShape, LibFields
    <2>9. /\ state'.rows = b.rows /\ state'.objects = state.objects /\ state'.lists = state.lists
          /\ state'.fetch = state.fetch /\ state'.all = state.all /\ state'.change = state.change
        BY <2>5, <2>8 DEF LibFields
    <2>10. LibHeld(state'.rows, state'.objects)
        BY <2>3, <2>5, <2>9 DEF LibStored
    <2>11. DOMAIN upload = {"stage", "image"} /\ upload.image = f /\ upload.stage \in {"answer", "none"}
        BY <2>1
    <2> QED  BY <2>2, <2>7, <2>8, <2>9, <2>10, <2>11, LibUploading
<1> QED  BY <1>3, <1>4, <1>5
\* The lists cut to their first page.
LEMMA LibCut ==
    ASSUME NEW lists, LibListed(lists)
    PROVE  LibListed(Library!FirstPages(lists))
<1> DEFINE cut == Library!FirstPages(lists)
           first(s) == SubSeq(s, 1, Library!Min({1, Len(s)}))
<1>1. ASSUME NEW s, LibChain(s) PROVE LibChain(first(s))
    <2>1. s \in Seq(LibPage) /\ Len(s) \in Nat
        BY <1>1 DEF LibChain
    <2>2. Library!Min({1, Len(s)}) = IF 1 <= Len(s) THEN 1 ELSE Len(s)
        BY <2>1, LibMin
    <2> DEFINE m == Library!Min({1, Len(s)})
    <2>7. m \in {0, 1} /\ m <= Len(s) /\ first(s) = SubSeq(s, 1, m)
        BY <2>1, <2>2
    <2> HIDE DEF m
    <2>3. PICK n \in {0, 1} : n <= Len(s) /\ first(s) = SubSeq(s, 1, n)
        BY <2>7
    <2> HIDE DEF first
    <2>4. /\ first(s) \in Seq(LibPage) /\ DOMAIN first(s) = 1..n /\ \A i \in 1..n : first(s)[i] = s[i]
        BY <2>1, <2>3
    <2>5. \A i, j \in 1..n : ~(i < j)
        OBVIOUS
    <2>6. \A i \in 1..n : i \in DOMAIN s
        BY <2>1, <2>3
    <2> QED  BY <1>1, <2>4, <2>5, <2>6 DEF LibChain
<1>2. DOMAIN cut = BOOLEAN /\ \A all \in BOOLEAN : cut[all] = [lists[all] EXCEPT !.pages = first(lists[all].pages)]
    BY Zenon DEF Library!FirstPages
<1> HIDE DEF cut, first
<1>3. ASSUME NEW all \in BOOLEAN
      PROVE  DOMAIN cut[all] = {"pages", "told"} /\ cut[all].told \in BOOLEAN /\ LibChain(cut[all].pages)
    <2>1. DOMAIN lists[all] = {"pages", "told"} /\ lists[all].told \in BOOLEAN /\ LibChain(first(lists[all].pages))
        BY <1>1 DEF LibListed
    <2> QED  BY <1>2, <2>1
<1> QED  BY <1>2, <1>3 DEF LibListed, cut

LEMMA LibAnswers ==
    ASSUME LibGood(state),
           Library!Uploaded \/ Library!UploadFails \/ Library!Changed \/ Library!ChangeFails
    PROVE  LibGood(state')
<1>1. /\ LibShape(state) /\ LibStored(state) /\ LibListed(state.lists) /\ LibFetched(state.fetch)
      /\ DOMAIN state.change = {"stage", "id"} /\ DOMAIN state.upload = {"stage", "image"}
    BY DEF LibGood, LibTrue, LibStored
<1> DEFINE uploadNone == [state.upload EXCEPT !.stage = "none"]
           changeNone == [state.change EXCEPT !.stage = "none"]
<1>2. DOMAIN uploadNone = {"stage", "image"} /\ uploadNone.stage = "none"
    BY <1>1
<1>3. DOMAIN changeNone = {"stage", "id"} /\ changeNone.stage = "none"
    BY <1>1
<1>4. CASE Library!Uploaded
    <2> DEFINE lists == Library!FirstPages(state.lists)
               b == [state EXCEPT !.upload = uploadNone, !.page = 1, !.lists = lists]
    <2>1. state' = Library!Invalidated([state EXCEPT !.upload.stage = "none", !.page = 1, !.lists = Library!FirstPages(@)])
        BY <1>4, Zenon DEF Library!Uploaded
    <2>2. [state EXCEPT !.upload.stage = "none", !.page = 1, !.lists = Library!FirstPages(@)] = b
        BY <1>1 DEF LibShape, LibFields
    <2>3. LibListed(lists)
        BY <1>1, LibCut
    <2> HIDE DEF uploadNone, lists
    <2>4. /\ LibShape(b) /\ b.upload = uploadNone /\ b.lists = lists /\ b.fetch = state.fetch /\ b.change = state.change
          /\ b.rows = state.rows /\ b.objects = state.objects
        BY <1>1 DEF LibShape, LibFields
    <2> HIDE DEF b
    <2>5. LibStored(b)
        BY <1>1, <1>2, <2>4 DEF LibStored
    <2>6. LibGood(Library!Invalidated(b))
        BY <1>1, <2>3, <2>4, <2>5, LibAsksAgain
    <2>7. state' = Library!Invalidated(b)
        BY <2>1, <2>2, Zenon
    <2> QED  BY <2>6, <2>7
<1>5. CASE Library!Changed
    <2> DEFINE b == [state EXCEPT !.change = changeNone]
    <2>1. state' = Library!Invalidated([state EXCEPT !.change.stage = "none"])
        BY <1>5, Zenon DEF Library!Changed
    <2>2. [state EXCEPT !.change.stage = "none"] = b
        BY <1>1 DEF LibShape, LibFields
    <2> HIDE DEF changeNone
    <2>4. /\ LibShape(b) /\ b.change = changeNone /\ b.lists = state.lists /\ b.fetch = state.fetch /\ b.upload = state.upload
          /\ b.rows = state.rows /\ b.objects = state.objects
        BY <1>1 DEF LibShape, LibFields
    <2> HIDE DEF b
    <2>5. LibStored(b)
        BY <1>1, <2>4 DEF LibStored
    <2>6. LibGood(Library!Invalidated(b))
        BY <1>1, <1>3, <2>4, <2>5, LibAsksAgain
    <2>7. state' = Library!Invalidated(b)
        BY <2>1, <2>2, Zenon
    <2> QED  BY <2>6, <2>7
<1> DEFINE u == Library!Untold(state)
<1>6. /\ LibGood(u) /\ \A x \in LibFields \ {"lists", "fetch"} : u[x] = state[x]
      /\ \A all \in BOOLEAN : ~u.lists[all].told
      /\ u.fetch.told => u.fetch.pages = <<>>
    BY <1>1, LibAsksAgain
<1> HIDE DEF u
<1>7. u.upload = state.upload /\ u.change = state.change
    BY <1>6 DEF LibFields
<1>8. LibShape(u) /\ LibStored(u) /\ LibListed(u.lists) /\ LibFetched(u.fetch)
    BY <1>6 DEF LibGood
<1>9. CASE Library!UploadFails
    <2>1. state' = [u EXCEPT !.upload.stage = "none"]
        BY <1>9, Zenon DEF Library!UploadFails, u
    <2>2. state' = [u EXCEPT !.upload = uploadNone]
        BY <1>7, <1>8, <2>1 DEF LibShape, LibFields
    <2> HIDE DEF uploadNone
    <2>3. /\ LibShape(state') /\ state'.upload = uploadNone /\ state'.lists = u.lists /\ state'.fetch = u.fetch
          /\ state'.change = u.change /\ state'.rows = u.rows /\ state'.objects = u.objects
        BY <1>8, <2>2 DEF LibShape, LibFields
    <2>4. LibStored(state')
        BY <1>2, <1>8, <2>3 DEF LibStored
    <2> QED  BY <1>1, <1>6, <1>7, <1>8, <2>3, <2>4, LibUnknown
<1>10. CASE Library!ChangeFails
    <2>1. state' = [u EXCEPT !.change.stage = "none"]
        BY <1>10, Zenon DEF Library!ChangeFails, u
    <2>2. state' = [u EXCEPT !.change = changeNone]
        BY <1>7, <1>8, <2>1 DEF LibShape, LibFields
    <2> HIDE DEF changeNone
    <2>3. /\ LibShape(state') /\ state'.change = changeNone /\ state'.lists = u.lists /\ state'.fetch = u.fetch
          /\ state'.upload = u.upload /\ state'.rows = u.rows /\ state'.objects = u.objects
        BY <1>8, <2>2 DEF LibShape, LibFields
    <2>4. LibStored(state')
        BY <1>8, <2>3 DEF LibStored
    <2> QED  BY <1>3, <1>6, <1>8, <2>3, <2>4, LibUnknown
<1> QED  BY <1>4, <1>5, <1>9, <1>10

LEMMA LibChanges ==
    ASSUME LibGood(state), Library!Change \/ Library!SetDeleted
    PROVE  LibGood(state')
<1>1. LibShape(state) /\ LibStored(state) /\ DOMAIN state.change = {"stage", "id"}
    BY DEF LibGood, LibTrue
<1>2. CASE Library!Change
    <2>1. PICK id : state' = [state EXCEPT !.change = [stage |-> "asked", id |-> id]]
        BY <1>2, Zenon DEF Library!Change
    <2> DEFINE change == [stage |-> "asked", id |-> id]
    <2>2. DOMAIN change = {"stage", "id"} /\ change.stage = "asked"
        OBVIOUS
    <2>3. state' = [state EXCEPT !.change = change] /\ state.change.stage = "none"
        BY <1>2, <2>1 DEF Library!Change, Library!Busy
    <2> HIDE DEF change
    <2>4. LibShape(state') /\ state'.change = change /\ \A x \in LibFields \ {"change"} : state'[x] = state[x]
        BY <1>1, <2>3 DEF LibShape, LibFields
    <2>5. /\ state'.rows = state.rows /\ state'.objects = state.objects /\ state'.lists = state.lists
          /\ state'.fetch = state.fetch /\ state'.all = state.all /\ state'.upload = state.upload
        BY <2>4 DEF LibFields
    <2> QED  BY <2>2, <2>3, <2>4, <2>5 DEF LibGood, LibStored, LibTrue, LibQuiet
<1>3. CASE Library!SetDeleted
    <2> DEFINE id == state.change.id
               change == [state.change EXCEPT !.stage = "answer"]
    <2>1. PICK deleted \in BOOLEAN : state' = [state EXCEPT !.rows[state.change.id].deleted = deleted, !.change.stage = "answer"]
        BY <1>3, Zenon DEF Library!SetDeleted
    <2> DEFINE rows == [state.rows EXCEPT ![id].deleted = deleted]
    <2>2. DOMAIN change = {"stage", "id"} /\ change.stage = "answer"
        BY <1>1
    <2>3. state' = [state EXCEPT !.rows = rows, !.change = change]
        BY <1>1, <2>1 DEF LibShape, LibFields
    <2> HIDE DEF change
    <2>4. rows \in LibRows /\ DOMAIN rows = DOMAIN state.rows /\ \A j \in DOMAIN rows : rows[j].image = state.rows[j].image
        <3> DEFINE T == [image : LibKnown, deleted : BOOLEAN]
        <3>1. state.rows \in Seq(T)
            BY <1>1 DEF LibShape, LibRows
        <3>2. CASE id \in DOMAIN state.rows
            <4> DEFINE row == [state.rows[id] EXCEPT !.deleted = deleted]
            <4>1. rows = [state.rows EXCEPT ![id] = row]
                OBVIOUS
            <4>2. \A r \in T, d \in BOOLEAN : [r EXCEPT !.deleted = d] \in T /\ [r EXCEPT !.deleted = d].image = r.image
                OBVIOUS
            <4> HIDE DEF T, rows
            <4>3. state.rows[id] \in T
                <5>1. id \in 1..Len(state.rows)
                    BY <3>1, <3>2
                <5> QED  BY <3>1, <5>1, ElementOfSeq
            <4>4. row \in T /\ row.image = state.rows[id].image
                BY <4>2, <4>3
            <4> HIDE DEF row
            <4>5. rows \in Seq(T)
                BY <3>1, <3>2, <4>1, <4>4
            <4> QED  BY <3>1, <4>1, <4>4, <4>5 DEF LibRows, T
        <3>3. CASE id \notin DOMAIN state.rows
            <4>1. rows = state.rows
                BY <3>1, <3>3
            <4> QED  BY <3>1, <4>1 DEF LibRows
        <3> QED  BY <3>2, <3>3
    <2> HIDE DEF rows, id
    <2>5. LibShape(state') /\ state'.change = change /\ state'.rows = rows /\ \A x \in LibFields \ {"change", "rows"} : state'[x] = state[x]
        BY <1>1, <2>3, <2>4 DEF LibShape, LibFields
    <2>6. /\ state'.objects = state.objects /\ state'.lists = state.lists
          /\ state'.fetch = state.fetch /\ state'.all = state.all /\ state'.upload = state.upload
        BY <2>5 DEF LibFields
    <2>7. LibStored(state')
        BY <1>1, <2>4, <2>5, <2>6 DEF LibStored, LibHeld
    <2> QED  BY <2>2, <2>5, <2>6, <2>7 DEF LibGood, LibTrue, LibQuiet
<1> QED  BY <1>2, <1>3

LEMMA LibStep ==
    ASSUME LibGood(state), Library!Next
    PROVE  LibGood(state')
BY LibForeign, LibRead, LibTurns, LibUploads, LibAnswers, LibChanges DEF Library!Next

LEMMA LibShows ==
    ASSUME LibGood(state)
    PROVE  Library!LibraryIsWhole
<1> DEFINE pages == Library!List.pages
<1>1. LibShape(state) /\ LibStored(state) /\ LibListed(state.lists) /\ state.all \in BOOLEAN /\ state.rows \in LibRows
    BY DEF LibGood, LibShape
<1>2. Library!List = state.lists[state.all] /\ LibChain(pages)
    BY <1>1 DEF Library!List, LibListed
<1>3. \A id \in DOMAIN state.rows : state.rows[id].image \in state.objects \ Damaged
    BY <1>1 DEF LibStored, LibHeld
<1>4. ASSUME NEW f \in LibraryImages PROVE Library!Cardinality(Library!RowOf(state, f)) <= 1
    <2> DEFINE S == Library!RowOf(state, f)
    <2>1. \A i, j \in S : i = j
        BY <1>1 DEF LibStored, LibHeld, Library!RowOf
    <2> HIDE DEF S
    <2>2. S = {} \/ \E i \in S : S = {i}
        BY <2>1
    <2>3. \A i : Cardinality({i}) = 1
        BY FS_Singleton
    <2>4. Cardinality({}) = 0
        BY FS_EmptySet
    <2>5. Cardinality(S) <= 1
        <3>1. Cardinality(S) = 0 \/ Cardinality(S) = 1
            BY <2>2, <2>3, <2>4, Zenon
        <3> QED  BY <3>1
    <2> QED  BY <2>5, LibCardinality DEF S
<1>5. ASSUME NEW i \in DOMAIN pages, NEW j \in DOMAIN pages,
             NEW k \in DOMAIN pages[i].items, NEW l \in DOMAIN pages[j].items, i < j \/ (i = j /\ k < l)
      PROVE  pages[i].items[k] > pages[j].items[l]
    <2>1. pages[i] \in LibPage /\ pages[j] \in LibPage
        BY <1>2 DEF LibChain
    <2>2. pages[i].items[k] \in Nat /\ pages[j].items[l] \in Nat /\ pages[i].next \in Nat
        BY <2>1 DEF LibPage
    <2> HIDE DEF pages
    <2>3. CASE i < j
        <3>1. pages[j].items[l] < pages[i].next /\ pages[i].items[k] >= pages[i].next
            BY <1>2, <2>3 DEF LibChain, LibDown
        <3> QED  BY <2>2, <3>1
    <2>4. CASE i = j /\ k < l
        BY <1>2, <2>4 DEF LibChain, LibDown
    <2> QED  BY <1>5, <2>3, <2>4
<1>6. ASSUME NEW x PROVE x \in Library!Listed <=> LibOn(pages, x)
    BY DEF Library!Listed, LibOn, Library!Range
<1>7. ASSUME Library!List.told, ~Library!Busy
      PROVE  LET all == {id \in DOMAIN state.rows : state.all \/ Library!Alive(state, id)}
             IN  Library!Listed \subseteq all /\ \A id \in all \ Library!Listed, x \in Library!Listed : x > id
    <2> DEFINE all == {id \in DOMAIN state.rows : state.all \/ Library!Alive(state, id)}
    <2>1. LibTop(pages, state.rows, state.all)
        BY <1>1, <1>2, <1>7 DEF LibGood, LibTrue, LibQuiet, Library!Busy
    <2>2. all = LibAll(state.rows, state.all) /\ all \subseteq Nat
        BY <1>1 DEF LibAll, Library!Alive, LibRows
    <2>3. ASSUME NEW x, LibOn(pages, x) PROVE x \in Nat
        <3>1. PICK i \in DOMAIN pages : \E k \in DOMAIN pages[i].items : pages[i].items[k] = x
            BY <2>3 DEF LibOn
        <3>2. pages[i] \in LibPage
            BY <1>2 DEF LibChain
        <3> QED  BY <3>1, <3>2 DEF LibPage
    <2> HIDE DEF pages, all
    <2>4. ASSUME NEW x \in Library!Listed
          PROVE  x \in Nat /\ x \in all /\ \A id \in all : id >= x => id \in Library!Listed
        BY <1>6, <2>1, <2>2, <2>3 DEF LibTop
    <2>5. \A id \in all \ Library!Listed, x \in Library!Listed : x > id
        BY <2>2, <2>4
    <2> QED  BY <2>4, <2>5 DEF all
<1> QED  BY <1>3, <1>4, <1>5, <1>7 DEF Library!LibraryIsWhole

-----------------------------------------------------------------------------
(* The relations of a draft: what the form holds, the server takes.         *)

LEMMA FormCardinality ==
    ASSUME NEW S
    PROVE  Form!Cardinality(S) = Cardinality(S)
BY DEF Form!Cardinality, Cardinality

LEMMA FormRemoved ==
    ASSUME NEW T, NEW s \in Seq(T), NEW i \in DOMAIN s
    PROVE  LET r == Form!RemoveAt(s, i) IN
           /\ r \in Seq(T) /\ Len(r) = Len(s) - 1 /\ DOMAIN r = 1..(Len(s) - 1)
           /\ \A k \in 1..(Len(s) - 1) : r[k] = IF k < i THEN s[k] ELSE s[k + 1]
<1>1. Len(s) \in Nat /\ i \in 1..Len(s)
    OBVIOUS
<1> DEFINE a == SubSeq(s, 1, i - 1)
           b == SubSeq(s, i + 1, Len(s))
<1>2. a \in Seq(T) /\ Len(a) = i - 1 /\ \A k \in 1..(i - 1) : a[k] = s[k]
    BY <1>1
<1>3. b \in Seq(T) /\ Len(b) = Len(s) - i /\ \A k \in 1..(Len(s) - i) : b[k] = s[k + i]
    BY <1>1
<1>4. Form!RemoveAt(s, i) = a \o b
    BY DEF Form!RemoveAt
<1> HIDE DEF a, b
<1>5. a \o b \in Seq(T) /\ Len(a \o b) = Len(s) - 1
    BY <1>1, <1>2, <1>3
<1>6. ASSUME NEW k \in 1..(Len(s) - 1) PROVE (a \o b)[k] = IF k < i THEN s[k] ELSE s[k + 1]
    <2>1. CASE k < i
        <3>1. k \in 1..(i - 1)
            BY <1>1, <2>1
        <3> QED  BY <1>1, <1>2, <1>3, <2>1, <3>1
    <2>2. CASE ~(k < i)
        <3>1. k - (i - 1) \in 1..(Len(s) - i) /\ (k - (i - 1)) + i = k + 1
            BY <1>1, <2>2
        <3>2. k \in 1..(Len(a) + Len(b)) /\ ~(k <= Len(a)) /\ k - Len(a) = k - (i - 1)
            BY <1>1, <1>2, <1>3, <2>2
        <3>3. (a \o b)[k] = b[k - Len(a)]
            <4>1. a \in Seq(T) /\ b \in Seq(T)
                BY <1>2, <1>3
            <4> QED  BY <3>2, <4>1
        <3> QED  BY <1>3, <2>2, <3>1, <3>2, <3>3
    <2> QED  BY <2>1, <2>2
<1> QED  BY <1>4, <1>5, <1>6

LEMMA FormInserted ==
    ASSUME NEW T, NEW s \in Seq(T), NEW i \in 1..(Len(s) + 1), NEW e \in T
    PROVE  LET r == Form!InsertAt(s, i, e) IN
           /\ r \in Seq(T) /\ Len(r) = Len(s) + 1 /\ DOMAIN r = 1..(Len(s) + 1)
           /\ \A k \in 1..(Len(s) + 1) : r[k] = IF k < i THEN s[k] ELSE IF k = i THEN e ELSE s[k - 1]
<1>1. Len(s) \in Nat
    OBVIOUS
<1> DEFINE a == SubSeq(s, 1, i - 1)
           b == SubSeq(s, i, Len(s))
           c == a \o <<e>>
<1>2. a \in Seq(T) /\ Len(a) = i - 1 /\ \A k \in 1..(i - 1) : a[k] = s[k]
    BY <1>1
<1>3. b \in Seq(T) /\ Len(b) = Len(s) + 1 - i /\ \A k \in 1..(Len(s) + 1 - i) : b[k] = s[k + i - 1]
    BY <1>1
<1>4. Form!InsertAt(s, i, e) = c \o b
    BY DEF Form!InsertAt
<1> HIDE DEF a, b
<1>5. c \in Seq(T) /\ Len(c) = i /\ c[i] = e /\ \A k \in 1..(i - 1) : c[k] = s[k]
    BY <1>1, <1>2
<1> HIDE DEF c
<1>6. c \o b \in Seq(T) /\ Len(c \o b) = Len(s) + 1
    BY <1>1, <1>3, <1>5
<1>7. ASSUME NEW k \in 1..(Len(s) + 1) PROVE (c \o b)[k] = IF k < i THEN s[k] ELSE IF k = i THEN e ELSE s[k - 1]
    <2>1. CASE k <= i
        <3>1. (c \o b)[k] = c[k]
            BY <1>1, <1>3, <1>5, <2>1
        <3>2. k = i \/ k \in 1..(i - 1)
            BY <1>1, <2>1
        <3> QED  BY <1>5, <2>1, <3>1, <3>2
    <2>2. CASE ~(k <= i)
        <3>1. k - i \in 1..(Len(s) + 1 - i) /\ (k - i) + i - 1 = k - 1
            BY <1>1, <2>2
        <3>2. (c \o b)[k] = b[k - i]
            BY <1>1, <1>3, <1>5, <2>2
        <3> QED  BY <1>3, <2>2, <3>1, <3>2
    <2> QED  BY <2>1, <2>2
<1> QED  BY <1>4, <1>6, <1>7

LEMMA FormKept ==
    ASSUME NEW T, NEW s \in Seq(T), NEW S \in SUBSET DOMAIN s
    PROVE  LET r == Form!Kept(s, S) IN
           /\ r \in Seq(T) /\ Len(r) <= Len(s)
           /\ \E at \in [DOMAIN r -> S] :
                 /\ \A k \in DOMAIN r : r[k] = s[at[k]]
                 /\ \A i \in S : \E k \in DOMAIN r : at[k] = i
                 /\ \A k, l \in DOMAIN r : at[k] = at[l] => k = l
<1> DEFINE below == [i \in S |-> {j \in S : j < i}]
           n == Cardinality(S)
           at == Places(S, below)
           r == Form!Kept(s, S)
<1>1. Len(s) \in Nat /\ DOMAIN s = 1..Len(s)
    OBVIOUS
<1>2. IsFiniteSet(S) /\ n <= Len(s)
    <2>1. IsFiniteSet(1..Len(s)) /\ Cardinality(1..Len(s)) = Len(s)
        BY <1>1, ListInterval
    <2> QED  BY <1>1, <2>1, FS_Subset
<1>3. Strict(S, below)
    <2>1. \A x \in S : x \in Nat
        BY <1>1
    <2>2. below \in [S -> SUBSET S] /\ \A x \in S : below[x] = {y \in S : y < x}
        OBVIOUS
    <2> HIDE DEF below
    <2>3. \A x, y, z \in S : ~(x < x) /\ (x < y /\ z < x => z < y) /\ (x # y => x < y \/ y < x)
        BY <2>1
    <2>4. \A x, y \in S : x \in below[y] <=> x < y
        BY <2>2
    <2>5. \A x, y \in S : x \in below[y] => below[x] \subseteq below[y]
        BY <2>2, <2>3
    <2>6. \A x, y \in S : x # y => x \in below[y] \/ y \in below[x]
        BY <2>3, <2>4
    <2>7. \A x \in S : x \notin below[x]
        BY <2>3, <2>4
    <2> QED  BY <2>2, <2>5, <2>6, <2>7 DEF Strict
<1> HIDE DEF below
<1>4. Form!Places(S, below) = at
    BY FormCardinality DEF Form!Places, Places
<1>5. r = LET q == Form!Places(S, below) IN [k \in DOMAIN q |-> s[q[k]]]
    BY DEF Form!Kept, below
<1> HIDE DEF r
<1>6. Lists(at, S)
    BY <1>2, <1>3, PlacesList
<1>7. r = [k \in DOMAIN at |-> s[at[k]]]
    BY <1>4, <1>5
<1> HIDE DEF at
<1>8. n \in Nat /\ at \in [1..n -> S] /\ (\A x \in S : \E k \in 1..n : at[k] = x) /\ \A i, j \in 1..n : at[i] = at[j] => i = j
    BY <1>6 DEF Lists
<1> HIDE DEF n
<1>9. r \in [1..n -> T] /\ DOMAIN r = 1..n /\ \A k \in 1..n : r[k] = s[at[k]]
    <2>1. \A k \in 1..n : s[at[k]] \in T
        BY <1>1, <1>8
    <2> QED  BY <1>7, <1>8, <2>1
<1>10. r \in Seq(T) /\ Len(r) = n
    BY <1>8, <1>9, SeqDef
<1>11. /\ at \in [DOMAIN r -> S] /\ (\A k \in DOMAIN r : r[k] = s[at[k]])
       /\ \A i \in S : \E k \in DOMAIN r : at[k] = i
       /\ \A k, l \in DOMAIN r : at[k] = at[l] => k = l
    BY <1>8, <1>9
<1>12. Len(r) <= Len(s)
    BY <1>2, <1>10 DEF n
<1> QED  BY <1>10, <1>11, <1>12 DEF r

LEMMA FormMinMax ==
    ASSUME NEW m \in Nat, NEW n \in Nat
    PROVE  /\ Form!Min({m, n}) = IF m <= n THEN m ELSE n
           /\ Form!Max({m, n}) = IF m >= n THEN m ELSE n
<1>1. \E z \in {m, n} : \A y \in {m, n} : z <= y
    OBVIOUS
<1>2. Form!Min({m, n}) \in {m, n} /\ \A y \in {m, n} : Form!Min({m, n}) <= y
    BY <1>1 DEF Form!Min
<1>3. \E z \in {m, n} : \A y \in {m, n} : z >= y
    OBVIOUS
<1>4. Form!Max({m, n}) \in {m, n} /\ \A y \in {m, n} : Form!Max({m, n}) >= y
    BY <1>3 DEF Form!Max
<1> QED  BY <1>2, <1>4

\* r has what s has, where place says; but for what is at f, in the same order.
FormPermutes(s, r, f, place) ==
    /\ DOMAIN r = DOMAIN s /\ place \in [DOMAIN s -> DOMAIN s]
    /\ \A q \in DOMAIN s : r[place[q]] = s[q]
    /\ \A p \in DOMAIN s : \E q \in DOMAIN s : place[q] = p
    /\ \A p, q \in DOMAIN s : place[p] = place[q] => p = q
    /\ \A p, q \in DOMAIN s \ {f} : p < q => place[p] < place[q]

FormPlace(n, from, at) ==
    [q \in 1..n |-> IF q = from THEN at + 1
                    ELSE IF q < from THEN (IF q <= at THEN q ELSE q + 1) ELSE (IF q - 1 <= at THEN q - 1 ELSE q)]

LEMMA FormMoved ==
    ASSUME NEW T, NEW s \in Seq(T), NEW from \in DOMAIN s, NEW at \in 0..(Len(s) - 1)
    PROVE  LET r == Form!InsertAt(Form!RemoveAt(s, from), at + 1, s[from]) IN
           /\ r \in Seq(T) /\ Len(r) = Len(s)
           /\ FormPermutes(s, r, from, FormPlace(Len(s), from, at))
<1> DEFINE n == Len(s)
           rest == Form!RemoveAt(s, from)
           r == Form!InsertAt(rest, at + 1, s[from])
           place == FormPlace(n, from, at)
<1>1. n \in Nat /\ DOMAIN s = 1..n /\ from \in 1..n /\ s[from] \in T
    OBVIOUS
<1>2. /\ rest \in Seq(T) /\ Len(rest) = n - 1
      /\ \A k \in 1..(n - 1) : rest[k] = IF k < from THEN s[k] ELSE s[k + 1]
    BY FormRemoved
<1> HIDE DEF rest, n
<1>3. at + 1 \in 1..(Len(rest) + 1)
    BY <1>1, <1>2 DEF n
<1>4. /\ r \in Seq(T) /\ Len(r) = n /\ DOMAIN r = 1..n
      /\ \A k \in 1..n : r[k] = IF k < at + 1 THEN rest[k] ELSE IF k = at + 1 THEN s[from] ELSE rest[k - 1]
    <2>1. /\ r \in Seq(T) /\ Len(r) = Len(rest) + 1 /\ DOMAIN r = 1..(Len(rest) + 1)
          /\ \A k \in 1..(Len(rest) + 1) : r[k] = IF k < at + 1 THEN rest[k] ELSE IF k = at + 1 THEN s[from] ELSE rest[k - 1]
        BY <1>1, <1>2, <1>3, FormInserted
    <2>2. Len(rest) + 1 = n
        BY <1>1, <1>2
    <2> HIDE DEF r
    <2> QED  BY <2>1, <2>2
<1> HIDE DEF r
<1>5. at \in Nat /\ at <= n - 1
    BY <1>1 DEF n
<1>6. \A q \in 1..n : place[q] = IF q = from THEN at + 1
                    ELSE IF q < from THEN (IF q <= at THEN q ELSE q + 1) ELSE (IF q - 1 <= at THEN q - 1 ELSE q)
    BY DEF FormPlace
<1>7. DOMAIN place = 1..n
    BY DEF FormPlace
<1>8. place = [q \in 1..n |-> place[q]]
    BY DEF FormPlace
<1> HIDE DEF place
<1>9. \A q \in 1..n : place[q] \in 1..n
    BY <1>1, <1>5, <1>6
<1>10. ASSUME NEW q \in 1..n PROVE r[place[q]] = s[q]
    <2>1. CASE q = from
        BY <1>1, <1>4, <1>5, <1>6, <2>1
    <2>2. CASE q < from
        <3>1. q \in 1..(n - 1) /\ rest[q] = s[q]
            BY <1>1, <1>2, <2>2
        <3>2. CASE q <= at
            <4>1. place[q] = q /\ q < at + 1
                BY <1>1, <1>5, <1>6, <2>2, <3>2
            <4> QED  BY <1>4, <3>1, <4>1
        <3>3. CASE ~(q <= at)
            <4>1. place[q] = q + 1 /\ q + 1 \in 1..n /\ ~(q + 1 < at + 1) /\ q + 1 # at + 1 /\ (q + 1) - 1 = q
                BY <1>1, <1>5, <1>6, <2>2, <3>3
            <4> QED  BY <1>4, <3>1, <4>1
        <3> QED  BY <3>2, <3>3
    <2>3. CASE q > from
        <3>1. q - 1 \in 1..(n - 1) /\ ~(q - 1 < from) /\ (q - 1) + 1 = q
            BY <1>1, <2>3
        <3>2. rest[q - 1] = s[q]
            BY <1>2, <3>1
        <3>3. CASE q - 1 <= at
            <4>1. place[q] = q - 1 /\ q - 1 < at + 1 /\ q - 1 \in 1..n
                BY <1>1, <1>5, <1>6, <2>3, <3>3
            <4> QED  BY <1>4, <3>2, <4>1
        <3>4. CASE ~(q - 1 <= at)
            <4>1. place[q] = q /\ ~(q < at + 1) /\ q # at + 1
                BY <1>1, <1>5, <1>6, <2>3, <3>4
            <4> QED  BY <1>4, <3>2, <4>1
        <3> QED  BY <3>3, <3>4
    <2> QED  BY <1>1, <2>1, <2>2, <2>3
<1>11. ASSUME NEW p \in 1..n PROVE \E q \in 1..n : place[q] = p
    <2>1. CASE p = at + 1
        BY <1>1, <1>6, <2>1
    <2>2. CASE p <= at
        <3>1. CASE p < from
            BY <1>1, <1>6, <2>2, <3>1
        <3>2. CASE ~(p < from)
            <4>1. p + 1 \in 1..n /\ place[p + 1] = p
                BY <1>1, <1>5, <1>6, <2>2, <3>2
            <4> QED  BY <4>1
        <3> QED  BY <3>1, <3>2
    <2>3. CASE p > at + 1
        <3>1. CASE p - 1 < from
            <4>1. p - 1 \in 1..n /\ place[p - 1] = p
                BY <1>1, <1>5, <1>6, <2>3, <3>1
            <4> QED  BY <4>1
        <3>2. CASE ~(p - 1 < from)
            <4>1. place[p] = p
                BY <1>1, <1>5, <1>6, <2>3, <3>2
            <4> QED  BY <4>1
        <3> QED  BY <3>1, <3>2
    <2> QED  BY <1>5, <2>1, <2>2, <2>3
<1>12. ASSUME NEW p \in 1..n, NEW q \in 1..n, p # from, q # from, p < q PROVE place[p] < place[q]
    BY <1>1, <1>5, <1>6, <1>12
<1>13. ASSUME NEW p \in 1..n, NEW q \in 1..n, place[p] = place[q] PROVE p = q
    BY <1>1, <1>5, <1>6, <1>13
<1>14. place \in [1..n -> 1..n]
    BY <1>8, <1>9
<1> QED  BY <1>1, <1>4, <1>10, <1>11, <1>12, <1>13, <1>14 DEF FormPermutes, place, r, rest, n

\* What is where says what is there, and what comes before what.
LEMMA FormSameOrder ==
    ASSUME NEW b, NEW c, NEW T, b.entries \in Seq(T), c.entries \in Seq(T), NEW f \in DOMAIN b.entries, NEW place,
           FormPermutes(b.entries, c.entries, f, place), Form!IsInjective(b.entries)
    PROVE  /\ Form!IsInjective(c.entries) /\ Form!ToSet(c.entries) = Form!ToSet(b.entries)
           /\ \A y, z \in Form!ToSet(b.entries) \ {b.entries[f]} : Form!Before(c, y, z) <=> Form!Before(b, y, z)
<1> DEFINE s == b.entries
           r == c.entries
           n == Len(s)
<1>1. n \in Nat /\ DOMAIN s = 1..n
    OBVIOUS
<1> HIDE DEF s, r, n
<1>2. /\ DOMAIN r = 1..n /\ place \in [1..n -> 1..n]
      /\ \A q \in 1..n : r[place[q]] = s[q]
      /\ \A p \in 1..n : \E q \in 1..n : place[q] = p
      /\ \A p, q \in 1..n : place[p] = place[q] => p = q
      /\ \A p, q \in 1..n \ {f} : p < q => place[p] < place[q]
    BY <1>1 DEF FormPermutes, s, r
<1>3. \A p, q \in 1..n : s[p] = s[q] => p = q
    BY <1>1 DEF Form!IsInjective, s
<1>4. ASSUME NEW p \in 1..n, NEW q \in 1..n, r[p] = r[q] PROVE p = q
    <2>1. PICK i \in 1..n : place[i] = p
        BY <1>2
    <2>2. PICK j \in 1..n : place[j] = q
        BY <1>2
    <2>3. s[i] = s[j]
        BY <1>2, <1>4, <2>1, <2>2
    <2> QED  BY <1>3, <2>1, <2>2, <2>3
<1>5. ASSUME NEW y PROVE (\E p \in 1..n : r[p] = y) <=> (\E q \in 1..n : s[q] = y)
    <2>1. ASSUME NEW p \in 1..n, r[p] = y PROVE \E q \in 1..n : s[q] = y
        BY <1>2, <2>1
    <2>2. ASSUME NEW q \in 1..n, s[q] = y PROVE \E p \in 1..n : r[p] = y
        BY <1>2, <2>2
    <2> QED  BY <2>1, <2>2
<1>6. ASSUME NEW y, NEW z, y # s[f], z # s[f],
             NEW i \in 1..n, NEW j \in 1..n, s[i] = y, s[j] = z
      PROVE  /\ Form!Before(c, y, z) <=> place[i] < place[j]
             /\ Form!Before(b, y, z) <=> i < j
             /\ i < j <=> place[i] < place[j]
    <2>1. Form!Before(c, y, z) <=> \E p, q \in 1..n : p < q /\ r[p] = y /\ r[q] = z
        BY <1>2 DEF Form!Before, r
    <2>2. Form!Before(b, y, z) <=> \E p, q \in 1..n : p < q /\ s[p] = y /\ s[q] = z
        BY <1>1 DEF Form!Before, s
    <2>3. place[i] \in 1..n /\ place[j] \in 1..n /\ r[place[i]] = y /\ r[place[j]] = z
        BY <1>2, <1>6
    <2>4. Form!Before(c, y, z) <=> place[i] < place[j]
        BY <1>4, <2>1, <2>3
    <2>5. Form!Before(b, y, z) <=> i < j
        BY <1>3, <1>6, <2>2
    <2>6. i # f /\ j # f
        BY <1>6
    <2>7. i < j => place[i] < place[j]
        BY <1>2, <2>6
    <2>8. j < i => place[j] < place[i]
        BY <1>2, <2>6
    <2>9. i < j \/ j < i \/ i = j
        BY <1>1
    <2>10. ~(place[i] < place[j] /\ place[j] < place[i]) /\ ~(place[i] < place[i])
        BY <2>3
    <2>11. i < j <=> place[i] < place[j]
        BY <2>7, <2>8, <2>9, <2>10
    <2> QED  BY <2>4, <2>5, <2>11
<1>7. Form!ToSet(s) = {s[q] : q \in 1..n} /\ Form!ToSet(r) = {r[q] : q \in 1..n}
    BY <1>1, <1>2 DEF Form!ToSet
<1>8. Form!ToSet(r) = Form!ToSet(s)
    <2> HIDE DEF r, s
    <2>1. \A y : y \in Form!ToSet(r) <=> \E p \in 1..n : r[p] = y
        BY <1>7
    <2>2. \A y : y \in Form!ToSet(s) <=> \E q \in 1..n : s[q] = y
        BY <1>7
    <2>3. \A y : y \in Form!ToSet(r) <=> y \in Form!ToSet(s)
        BY <1>5, <2>1, <2>2
    <2> QED  BY <2>3
<1>9. ASSUME NEW y \in Form!ToSet(s), NEW z \in Form!ToSet(s), y # s[f], z # s[f]
      PROVE  Form!Before(c, y, z) <=> Form!Before(b, y, z)
    <2>1. PICK i \in 1..n : s[i] = y
        BY <1>7
    <2>2. PICK j \in 1..n : s[j] = z
        BY <1>7
    <2> QED  BY <1>6, <1>9, <2>1, <2>2
<1>10. Form!IsInjective(r)
    BY <1>2, <1>4 DEF Form!IsInjective
<1> QED  BY <1>8, <1>9, <1>10 DEF s, r

\* An article stays in its section when its place stays on the same side of the boundary.
LEMMA FormSameSection ==
    ASSUME NEW b, NEW c, NEW T, b.entries \in Seq(T), c.entries \in Seq(T), NEW f, NEW place,
           FormPermutes(b.entries, c.entries, f, place), Form!IsInjective(b.entries), Form!IsInjective(c.entries),
           b.count \in Nat, b.count <= Len(b.entries), c.count \in Nat, c.count <= Len(c.entries),
           NEW q \in DOMAIN b.entries, place[q] <= c.count <=> q <= b.count
    PROVE  Form!Section(c, b.entries[q]) = Form!Section(b, b.entries[q])
<1> DEFINE s == b.entries
           r == c.entries
           n == Len(s)
<1>1. n \in Nat /\ DOMAIN s = 1..n /\ Len(r) \in Nat /\ DOMAIN r = 1..Len(r)
    OBVIOUS
<1> HIDE DEF s, r, n
<1>2. DOMAIN r = 1..n /\ place \in [1..n -> 1..n] /\ \A i \in 1..n : r[place[i]] = s[i]
    BY <1>1 DEF FormPermutes, s, r
<1>3. \A i, j \in 1..n : s[i] = s[j] => i = j
    BY <1>1 DEF Form!IsInjective, s
<1>4. \A i, j \in 1..n : r[i] = r[j] => i = j
    BY <1>2 DEF Form!IsInjective, r
<1>5. q \in 1..n /\ place[q] \in 1..n /\ r[place[q]] = s[q]
    BY <1>1, <1>2 DEF s
<1>6. 1..b.count \subseteq 1..n
    BY <1>1 DEF s, n
<1>7. 1..c.count \subseteq 1..n
    <2>1. 1..Len(r) = 1..n
        BY <1>1, <1>2
    <2>2. 1..c.count \subseteq 1..Len(r)
        BY <1>1 DEF r
    <2> QED  BY <2>1, <2>2
<1>8. Form!Section(b, s[q]) <=> q <= b.count
    <2>1. Form!Section(b, s[q]) <=> \E i \in 1..b.count : s[i] = s[q]
        BY DEF Form!Section, s
    <2>2. ASSUME NEW i \in 1..b.count, s[i] = s[q] PROVE q <= b.count
        <3>1. i = q
            BY <1>3, <1>5, <1>6, <2>2
        <3> QED  BY <3>1
    <2>3. ASSUME q <= b.count PROVE q \in 1..b.count
        BY <1>5, <2>3
    <2> QED  BY <2>1, <2>2, <2>3
<1>9. Form!Section(c, s[q]) <=> place[q] <= c.count
    <2>1. Form!Section(c, s[q]) <=> \E i \in 1..c.count : r[i] = s[q]
        BY DEF Form!Section, r
    <2>2. ASSUME NEW i \in 1..c.count, r[i] = s[q] PROVE place[q] <= c.count
        <3>1. i = place[q]
            BY <1>4, <1>5, <1>7, <2>2
        <3> QED  BY <3>1
    <2>3. ASSUME place[q] <= c.count PROVE place[q] \in 1..c.count
        BY <1>5, <2>3
    <2> QED  BY <1>5, <2>1, <2>2, <2>3
<1>10. Form!Section(c, s[q]) <=> Form!Section(b, s[q])
    BY <1>8, <1>9 DEF s
<1> QED  BY <1>10, Zenon DEF Form!Section, s

-----------------------------------------------------------------------------
(* What the form holds.                                                     *)

FormItems  == (UNION Pages) \union {0}
FormUrls   == Urls \union {Form!NoText}
FormLabel  == [url : FormUrls]
FormFields ==
    {"type", "found", "entries", "count", "dragging", "choice", "tags", "links", "labels", "slug", "mirror", "version"}

FormShape(b) ==
    /\ DOMAIN b = FormFields /\ b = [f \in FormFields |-> b[f]]
    /\ b.found \in Pages /\ b.type \in {"note", "curated_article", "topic"}

\* The articles, each once and none the text itself, the first of them recommended.
FormEntries(type, entries, count) ==
    /\ entries \in Seq(FormItems) /\ Len(entries) <= RelationLimit
    /\ count \in Nat /\ count <= Len(entries)
    /\ Form!IsInjective(entries) /\ \A i \in DOMAIN entries : entries[i] # Own
    /\ type # "topic" => entries = <<>>
FormTags(type, tags) ==
    /\ tags \in Seq(FormItems) /\ Len(tags) <= RelationLimit /\ Form!IsInjective(tags)
    /\ type = "topic" => tags = <<>>

\* Every label is of a link, and of one label only.
FormLinks(type, links, labels) ==
    /\ links \in Seq(FormUrls) /\ Len(links) <= LinkLimit
    /\ labels \in Seq(FormLabel) /\ Form!IsInjective(labels)
    /\ \A i \in DOMAIN labels : labels[i].url # Form!NoText /\ \E j \in DOMAIN links : links[j] = labels[i].url
    /\ type = "topic" => labels = <<>>

FormGood(b) ==
    /\ FormShape(b) /\ b.choice \in FormItems
    /\ b.dragging \in Nat /\ (b.dragging # 0 => b.type = "topic")
    /\ FormEntries(b.type, b.entries, b.count) /\ FormTags(b.type, b.tags) /\ FormLinks(b.type, b.links, b.labels)
    /\ b.mirror[1] = b.slug

\* What the property says of one step: of the articles, and of the labels.
FormMovesOne(old, new) ==
    old.entries # <<>> /\ new.entries # old.entries /\ Len(new.entries) = Len(old.entries) =>
        \E x \in Form!ToSet(old.entries) :
           /\ Form!ToSet(new.entries) = Form!ToSet(old.entries)
           /\ \A y, z \in Form!ToSet(old.entries) \ {x} : Form!Before(new, y, z) <=> Form!Before(old, y, z)
           /\ \A y \in Form!ToSet(old.entries) \ {x} :
                 \/ Form!Section(new, y) = Form!Section(old, y)
                 \/ new.count = old.count /\ {x, y} = {old.entries[old.count], old.entries[old.count + 1]}
FormLabelsStay(old, new) ==
    \A url \in Urls : Form!Uses(new, url) # Form!Uses(old, url) => ~Form!Labelled(new, url)

LEMMA FormFewLabels ==
    ASSUME NEW type, NEW links, NEW labels, FormLinks(type, links, labels)
    PROVE  Len(labels) <= LinkLimit
<1> DEFINE m == Len(labels)
           n == Len(links)
           at == [i \in 1..m |-> CHOOSE j \in 1..n : links[j] = labels[i].url]
<1>1. /\ m \in Nat /\ DOMAIN labels = 1..m /\ n \in Nat /\ DOMAIN links = 1..n
      /\ \A i \in 1..m : labels[i] \in FormLabel
      /\ \A i, j \in 1..m : labels[i] = labels[j] => i = j
      /\ \A i \in 1..m : \E j \in 1..n : links[j] = labels[i].url
    BY DEF FormLinks, Form!IsInjective
<1>2. n <= LinkLimit
    BY DEF FormLinks
<1> HIDE DEF m, n
<1>3. \A i \in 1..m : at[i] \in 1..n /\ links[at[i]] = labels[i].url
    BY <1>1
<1>4. DOMAIN at = 1..m /\ at = [i \in 1..m |-> at[i]]
    OBVIOUS
<1> HIDE DEF at
<1>5. \A i, j \in 1..m : labels[i].url = labels[j].url => labels[i] = labels[j]
    BY <1>1 DEF FormLabel
<1>6. at \in Injection(1..m, 1..n)
    BY <1>1, <1>3, <1>4, <1>5, SMTT(30) DEF Injection, IsInjective
<1>7. Cardinality(1..m) <= Cardinality(1..n)
    BY <1>1, <1>6, ListInterval, FS_Injection
<1>8. m <= n
    BY <1>1, <1>7, ListInterval
<1> QED  BY <1>1, <1>2, <1>8, FormAssumption DEF m

\* The server takes what is good.
LEMMA FormTaken ==
    ASSUME NEW b, FormGood(b)
    PROVE  Form!Sendable(b) /\ Form!Taken(b)
<1>1. FormEntries(b.type, b.entries, b.count) /\ FormTags(b.type, b.tags) /\ FormLinks(b.type, b.links, b.labels)
    BY DEF FormGood
<1>2. Form!Sendable(b)
    <2>1. b.count <= RelationLimit
        BY <1>1, FormAssumption DEF FormEntries
    <2> QED  BY <1>1, <2>1, FormFewLabels DEF Form!Sendable, FormEntries, FormTags, FormLinks
<1>3. ~Form!Contains(b.entries, Own)
    BY <1>1 DEF FormEntries, Form!Contains
<1>4. \A i \in DOMAIN b.labels : b.labels[i].url # Form!NoText /\ Form!Contains(b.links, b.labels[i].url)
    BY <1>1 DEF FormLinks, Form!Contains
<1> QED  BY <1>1, <1>2, <1>3, <1>4 DEF Form!Taken, FormEntries, FormTags, FormLinks

LEMMA FormParts ==
    /\ Form!Has("entries") /\ FormShape(state) => state.type = "topic"
    /\ Form!Has("tags") /\ FormShape(state) => state.type # "topic"
    /\ Form!Has("links") /\ FormShape(state) => state.type = "curated_article"
<1>1. FormShape(state) => state.type \in {"note", "curated_article", "topic"}
    BY DEF FormShape
<1>2. state.type = "note" => Form!Parts(state.type) = {"tags", "group"}
    BY DEF Form!Parts
<1>3. state.type = "curated_article" => Form!Parts(state.type) = {"tags", "links"}
    BY DEF Form!Parts
<1>4. state.type = "topic" => Form!Parts(state.type) = {"entries"}
    BY DEF Form!Parts
<1> QED  BY <1>1, <1>2, <1>3, <1>4 DEF Form!Has

\* Steps that arrange the articles.
FormIs(c, entries, count, dragging, choice) ==
    c = [state EXCEPT !.entries = entries, !.count = count, !.dragging = dragging, !.choice = choice]

LEMMA FormArranged ==
    ASSUME FormGood(state), NEW entries, NEW count, NEW dragging \in Nat, NEW choice \in FormItems,
           FormEntries(state.type, entries, count), dragging # 0 => state.type = "topic",
           NEW c, FormIs(c, entries, count, dragging, choice)
    PROVE  FormGood(c) /\ FormLabelsStay(state, c) /\ c.entries = entries /\ c.count = count
<1>1. /\ FormShape(c) /\ c.entries = entries /\ c.count = count /\ c.dragging = dragging /\ c.choice = choice
      /\ c.type = state.type /\ c.tags = state.tags /\ c.links = state.links /\ c.labels = state.labels
      /\ c.mirror = state.mirror /\ c.slug = state.slug
    BY DEF FormGood, FormShape, FormFields, FormIs
<1>2. \A url : Form!Uses(c, url) = Form!Uses(state, url)
    BY <1>1 DEF Form!Uses
<1> QED  BY <1>1, <1>2 DEF FormGood, FormLabelsStay

\* reorderTopic: where the article goes, and how many are recommended then.
FormReordered(b, entries, count) ==
    /\ b = [state EXCEPT !.entries = entries, !.count = count]
    /\ FormEntries(state.type, entries, count)
    /\ \A c : c.entries = entries /\ c.count = count => FormMovesOne(state, c)

LEMMA FormReorders ==
    ASSUME FormGood(state), NEW from \in Nat, NEW to \in Nat, NEW recommended \in BOOLEAN
    PROVE  \E entries, count : FormReordered(Form!Reorder(from, to, recommended), entries, count)
<1> DEFINE s == state.entries
           n == Len(s)
           c0 == state.count
           rest == Form!RemoveAt(s, from)
           left == IF from <= c0 THEN c0 - 1 ELSE c0
           at   == IF recommended THEN Form!Min({to, left}) ELSE Form!Max({left, Form!Min({to, Len(rest)})})
           r    == Form!InsertAt(rest, at + 1, s[from])
           count == left + (IF recommended THEN 1 ELSE 0)
<1>1. /\ s \in Seq(FormItems) /\ n <= RelationLimit /\ c0 \in Nat /\ c0 <= n /\ n \in Nat /\ DOMAIN s = 1..n
      /\ Form!IsInjective(s) /\ (\A i \in DOMAIN s : s[i] # Own) /\ (state.type # "topic" => s = <<>>)
    BY DEF FormGood, FormEntries
<1>2. CASE from \notin DOMAIN s
    <2>1. Form!Reorder(from, to, recommended) = state
        BY <1>2 DEF Form!Reorder
    <2>2. state = [state EXCEPT !.entries = s, !.count = c0]
        BY DEF FormGood, FormShape, FormFields
    <2>3. FormEntries(state.type, s, c0)
        BY DEF FormGood
    <2>4. \A c : c.entries = s => FormMovesOne(state, c)
        BY DEF FormMovesOne
    <2> QED  BY <2>1, <2>2, <2>3, <2>4 DEF FormReordered
<1>3. CASE from \in DOMAIN s
    <2>1. Form!Reorder(from, to, recommended) = [state EXCEPT !.entries = r, !.count = count]
        BY <1>3 DEF Form!Reorder
    <2>2. from \in 1..n /\ Len(rest) = n - 1
        BY <1>1, <1>3, FormRemoved
    <2> HIDE DEF rest
    <2>3. left \in Nat /\ left <= n - 1
        BY <1>1, <2>2
    <2> HIDE DEF left
    <2>4. /\ at \in Nat /\ at <= n - 1
          /\ recommended => at <= left
          /\ ~recommended => at >= left
        <3> DEFINE m == Form!Min({to, n - 1})
        <3>1. m \in Nat /\ m <= n - 1
            BY <1>1, <2>2, FormMinMax
        <3>2. recommended => at = Form!Min({to, left})
            OBVIOUS
        <3>3. ~recommended => at = Form!Max({left, m})
            BY <2>2
        <3> HIDE DEF m, at
        <3>4. Form!Min({to, left}) \in Nat /\ Form!Min({to, left}) <= left
            BY <2>3, FormMinMax
        <3>6. Form!Max({left, m}) = IF left >= m THEN left ELSE m
            BY <2>3, <3>1, FormMinMax
        <3>5. Form!Max({left, m}) \in Nat /\ Form!Max({left, m}) <= n - 1 /\ Form!Max({left, m}) >= left
            BY <2>3, <3>1, <3>6
        <3> QED  BY <1>1, <2>3, <3>2, <3>3, <3>4, <3>5
    <2> HIDE DEF at
    <2>5. at \in 0..(n - 1)
        BY <1>1, <2>4
    <2> DEFINE place == FormPlace(n, from, at)
    <2>6. r \in Seq(FormItems) /\ Len(r) = n /\ FormPermutes(s, r, from, place)
        BY <1>1, <1>3, <2>5, FormMoved DEF rest
    <2>7. count \in Nat /\ count <= n
        BY <1>1, <2>3
    <2>8. ASSUME NEW q \in 1..n, q # from PROVE place[q] <= count <=> q <= c0
        <3>1. place[q] = IF q < from THEN (IF q <= at THEN q ELSE q + 1) ELSE (IF q - 1 <= at THEN q - 1 ELSE q)
            BY <2>8 DEF FormPlace
        <3> HIDE DEF place
        <3>2. CASE recommended
            BY <1>1, <2>2, <2>3, <2>4, <2>8, <3>1, <3>2 DEF left
        <3>3. CASE ~recommended
            BY <1>1, <2>2, <2>3, <2>4, <2>8, <3>1, <3>3 DEF left
        <3> QED  BY <3>2, <3>3
    <2> HIDE DEF r, count, place
    <2>9. ASSUME NEW c, c.entries = r, c.count = count
          PROVE  Form!IsInjective(r) /\ Form!ToSet(r) = Form!ToSet(s) /\ FormMovesOne(state, c)
        <3>1. /\ Form!IsInjective(r) /\ Form!ToSet(r) = Form!ToSet(s)
              /\ \A y, z \in Form!ToSet(s) \ {s[from]} : Form!Before(c, y, z) <=> Form!Before(state, y, z)
            BY <1>1, <1>3, <2>6, <2>9, FormSameOrder
        <3>2. s[from] \in Form!ToSet(s)
            BY <1>3 DEF Form!ToSet
        <3>3. ASSUME NEW y \in Form!ToSet(s), y # s[from] PROVE Form!Section(c, y) = Form!Section(state, y)
            <4>1. PICK q \in 1..n : s[q] = y
                BY <1>1 DEF Form!ToSet
            <4>2. q # from
                BY <3>3, <4>1
            <4>3. place[q] <= c.count <=> q <= state.count
                BY <2>8, <2>9, <4>2
            <4> QED  BY <1>1, <2>6, <2>7, <2>9, <3>1, <4>1, <4>3, FormSameSection
        <3>4. c.entries = r /\ c.count = count
            BY <2>9
        <3>5. FormMovesOne(state, c)
            BY <3>1, <3>2, <3>3, <3>4 DEF FormMovesOne
        <3> QED  BY <3>1, <3>5
    <2>10. Form!IsInjective(r) /\ Form!ToSet(r) = Form!ToSet(s)
        <3> DEFINE c == [entries |-> r, count |-> count]
        <3>1. c.entries = r /\ c.count = count
            OBVIOUS
        <3> HIDE DEF c
        <3> QED  BY <2>9, <3>1
    <2>11. \A i \in DOMAIN r : r[i] # Own
        BY <1>1, <2>10 DEF Form!ToSet
    <2>12. state.type = "topic"
        BY <1>1, <1>3
    <2>13. FormEntries(state.type, r, count)
        BY <1>1, <2>6, <2>7, <2>10, <2>11, <2>12 DEF FormEntries
    <2> QED  BY <2>1, <2>9, <2>13 DEF FormReordered
<1> QED  BY <1>2, <1>3

FormKeeps(c) == FormGood(c) /\ FormMovesOne(state, c) /\ FormLabelsStay(state, c)

\* The arrows.
LEMMA FormSwaps ==
    ASSUME FormGood(state), NEW i \in 1..(Len(state.entries) - 1),
           NEW r, r = [state.entries EXCEPT ![i] = state.entries[i + 1], ![i + 1] = state.entries[i]]
    PROVE  /\ FormEntries(state.type, r, state.count)
           /\ \A c : c.entries = r /\ c.count = state.count => FormMovesOne(state, c)
<1> DEFINE s == state.entries
           n == Len(s)
           place == [q \in 1..n |-> IF q = i THEN i + 1 ELSE IF q = i + 1 THEN i ELSE q]
<1>1. /\ s \in Seq(FormItems) /\ n <= RelationLimit /\ state.count \in Nat /\ state.count <= n /\ n \in Nat /\ DOMAIN s = 1..n
      /\ Form!IsInjective(s) /\ (\A k \in DOMAIN s : s[k] # Own) /\ (state.type # "topic" => s = <<>>)
    BY DEF FormGood, FormEntries
<1>2. i \in 1..n /\ i + 1 \in 1..n /\ s # <<>>
    BY <1>1
<1>3. /\ r \in Seq(FormItems) /\ Len(r) = n /\ DOMAIN r = 1..n
      /\ r[i] = s[i + 1] /\ r[i + 1] = s[i] /\ \A q \in 1..n \ {i, i + 1} : r[q] = s[q]
    <2>1. s[i] \in FormItems /\ s[i + 1] \in FormItems
        BY <1>1, <1>2, ElementOfSeq
    <2> HIDE DEF n
    <2> QED  BY <1>1, <1>2, <2>1 DEF n
<1> HIDE DEF s, n
<1>4. /\ place \in [1..n -> 1..n] /\ i \in Nat /\ 1..n \subseteq Nat
      /\ \A q \in 1..n : place[q] = IF q = i THEN i + 1 ELSE IF q = i + 1 THEN i ELSE q
    BY <1>1, <1>2
<1> HIDE DEF place
<1>5. FormPermutes(s, r, i, place)
    <2>1. \A q \in 1..n : r[place[q]] = s[q]
        BY <1>2, <1>3, <1>4
    <2>2. \A p \in 1..n : \E q \in 1..n : place[q] = p
        BY <1>2, <1>4
    <2>3. ASSUME NEW p \in 1..n, NEW q \in 1..n, place[p] = place[q] PROVE p = q
        <3>1. /\ p \in Nat /\ place[p] = IF p = i THEN i + 1 ELSE IF p = i + 1 THEN i ELSE p
              /\ q \in Nat /\ place[q] = IF q = i THEN i + 1 ELSE IF q = i + 1 THEN i ELSE q
            BY <1>4
        <3> QED  BY <1>4, <2>3, <3>1
    <2>4. ASSUME NEW p \in 1..n, NEW q \in 1..n, p # i, q # i, p < q PROVE place[p] < place[q]
        <3>1. /\ p \in Nat /\ place[p] = IF p = i + 1 THEN i ELSE p
              /\ q \in Nat /\ place[q] = IF q = i + 1 THEN i ELSE q
            BY <1>4, <2>4
        <3> QED  BY <1>4, <2>4, <3>1
    <2> QED  BY <1>1, <1>3, <1>4, <2>1, <2>2, <2>3, <2>4 DEF FormPermutes
<1>6. ASSUME NEW c, c.entries = r, c.count = state.count
      PROVE  Form!IsInjective(r) /\ Form!ToSet(r) = Form!ToSet(s) /\ FormMovesOne(state, c)
    <2>1. /\ Form!IsInjective(r) /\ Form!ToSet(r) = Form!ToSet(s)
          /\ \A y, z \in Form!ToSet(s) \ {s[i]} : Form!Before(c, y, z) <=> Form!Before(state, y, z)
        <3>1. /\ state.entries \in Seq(FormItems) /\ c.entries \in Seq(FormItems) /\ i \in DOMAIN state.entries
              /\ FormPermutes(state.entries, c.entries, i, place) /\ Form!IsInjective(state.entries)
            BY <1>1, <1>2, <1>3, <1>5, <1>6 DEF s
        <3>2. /\ Form!IsInjective(c.entries) /\ Form!ToSet(c.entries) = Form!ToSet(state.entries)
              /\ \A y, z \in Form!ToSet(state.entries) \ {state.entries[i]} : Form!Before(c, y, z) <=> Form!Before(state, y, z)
            BY <3>1, FormSameOrder
        <3>3. c.entries = r
            BY <1>6
        <3> QED  BY <3>2, <3>3 DEF s
    <2>2. s[i] \in Form!ToSet(s)
        BY <1>1, <1>2 DEF Form!ToSet
    <2>3. ASSUME NEW y \in Form!ToSet(s), y # s[i]
          PROVE  \/ Form!Section(c, y) = Form!Section(state, y)
                 \/ c.count = state.count /\ {s[i], y} = {s[state.count], s[state.count + 1]}
        <3>1. PICK q \in 1..n : s[q] = y
            BY <1>1 DEF Form!ToSet
        <3>2. q # i
            BY <2>3, <3>1
        <3>3. CASE q = i + 1 /\ state.count = i
            BY <1>6, <3>1, <3>3
        <3>4. CASE ~(q = i + 1 /\ state.count = i)
            <4>1. place[q] <= c.count <=> q <= state.count
                <5>1. q \in Nat /\ place[q] = IF q = i + 1 THEN i ELSE q
                    BY <1>4, <3>2
                <5>2. c.count = state.count /\ state.count \in Nat
                    BY <1>1, <1>6
                <5> QED  BY <1>4, <3>2, <3>4, <5>1, <5>2
            <4>2. /\ state.entries \in Seq(FormItems) /\ c.entries \in Seq(FormItems) /\ q \in DOMAIN state.entries
                  /\ FormPermutes(state.entries, c.entries, i, place) /\ Form!IsInjective(state.entries)
                BY <1>1, <1>3, <1>5, <1>6 DEF s
            <4>3. c.count \in Nat /\ c.count <= Len(c.entries) /\ state.count \in Nat /\ state.count <= Len(state.entries)
                BY <1>1, <1>3, <1>6 DEF s, n
            <4>4. Form!IsInjective(c.entries)
                BY <1>6, <2>1
            <4>5. Form!Section(c, state.entries[q]) = Form!Section(state, state.entries[q])
                BY <4>1, <4>2, <4>3, <4>4, FormSameSection
            <4> QED  BY <3>1, <4>5 DEF s
        <3> QED  BY <3>3, <3>4
    <2>4. c.entries = r /\ c.count = state.count
        BY <1>6
    <2>5. FormMovesOne(state, c)
        BY <2>1, <2>2, <2>3, <2>4 DEF FormMovesOne, s
    <2> QED  BY <2>1, <2>5
<1>7. Form!IsInjective(r) /\ Form!ToSet(r) = Form!ToSet(s)
    <2> DEFINE c == [entries |-> r, count |-> state.count]
    <2>1. c.entries = r /\ c.count = state.count
        OBVIOUS
    <2> HIDE DEF c
    <2> QED  BY <1>6, <2>1
<1>8. ASSUME NEW k \in DOMAIN r PROVE r[k] # Own
    <2>1. r[k] \in Form!ToSet(s)
        BY <1>7 DEF Form!ToSet
    <2>2. PICK j \in DOMAIN s : s[j] = r[k]
        BY <2>1 DEF Form!ToSet
    <2> QED  BY <1>1, <2>2
<1>9. state.type = "topic"
    BY <1>1, <1>2
<1>10. FormEntries(state.type, r, state.count)
    BY <1>1, <1>3, <1>7, <1>8, <1>9 DEF FormEntries
<1> QED  BY <1>6, <1>10

LEMMA FormArranges ==
    ASSUME FormGood(state),
           \/ Form!DragStart \/ Form!DragEnd \/ Form!Drop \/ Form!Move \/ Form!RemoveEntry
           \/ Form!Recommend \/ Form!Choose \/ Form!AddEntry
    PROVE  FormKeeps(state')
<1>1. /\ FormShape(state) /\ FormEntries(state.type, state.entries, state.count) /\ state.choice \in FormItems
      /\ state.dragging \in Nat /\ (state.dragging # 0 => state.type = "topic")
    BY DEF FormGood
<1>2. /\ state.entries \in Seq(FormItems) /\ Len(state.entries) \in Nat /\ DOMAIN state.entries = 1..Len(state.entries)
      /\ Len(state.entries) <= RelationLimit /\ RelationLimit \in Nat
      /\ state.count \in Nat /\ state.count <= Len(state.entries)
      /\ \A i, j \in DOMAIN state.entries : state.entries[i] = state.entries[j] => i = j
      /\ \A i \in DOMAIN state.entries : state.entries[i] # Own
    BY <1>1, FormAssumption DEF FormEntries, Form!IsInjective
<1>3. Form!Has("entries") => state.type = "topic"
    BY <1>1, FormParts
<1>4. ASSUME NEW dragging \in Nat, NEW choice \in FormItems, dragging # 0 => state.type = "topic",
             FormIs(state', state.entries, state.count, dragging, choice)
      PROVE  FormKeeps(state')
    <2>1. FormGood(state') /\ FormLabelsStay(state, state') /\ state'.entries = state.entries
        BY <1>1, <1>4, FormArranged
    <2> QED  BY <2>1 DEF FormKeeps, FormMovesOne
<1>5. ASSUME NEW entries, NEW count, NEW dragging \in Nat, dragging # 0 => state.type = "topic",
             FormEntries(state.type, entries, count),
             \A c : c.entries = entries /\ c.count = count => FormMovesOne(state, c),
             FormIs(state', entries, count, dragging, state.choice)
      PROVE  FormKeeps(state')
    <2>1. FormGood(state') /\ FormLabelsStay(state, state') /\ state'.entries = entries /\ state'.count = count
        BY <1>1, <1>5, FormArranged
    <2>2. FormMovesOne(state, state')
        BY <1>5, <2>1
    <2> QED  BY <2>1, <2>2 DEF FormKeeps
<1>6. ASSUME NEW from \in Nat, NEW to \in Nat, NEW recommended \in BOOLEAN, NEW dragging \in Nat,
             dragging # 0 => state.type = "topic",
             state' = [Form!Reorder(from, to, recommended) EXCEPT !.dragging = dragging]
      PROVE  FormKeeps(state')
    <2>1. from \in Nat /\ to \in Nat /\ recommended \in BOOLEAN /\ dragging \in Nat /\ (dragging # 0 => state.type = "topic")
        BY <1>6
    <2>2. PICK entries, count : FormReordered(Form!Reorder(from, to, recommended), entries, count)
        BY <2>1, FormReorders
    <2>3. state' = [[state EXCEPT !.entries = entries, !.count = count] EXCEPT !.dragging = dragging]
        BY <1>6, <2>2, Zenon DEF FormReordered
    <2>4. FormIs(state', entries, count, dragging, state.choice)
        BY <1>1, <2>3 DEF FormShape, FormFields, FormIs
    <2>5. FormEntries(state.type, entries, count) /\ \A c : c.entries = entries /\ c.count = count => FormMovesOne(state, c)
        BY <2>2 DEF FormReordered
    <2> QED  BY <1>5, <2>1, <2>4, <2>5
<1>7. ASSUME Form!DragStart PROVE FormKeeps(state')
    <2>1. PICK i \in DOMAIN state.entries : state' = [state EXCEPT !.dragging = i]
        BY <1>7 DEF Form!DragStart
    <2>2. FormIs(state', state.entries, state.count, i, state.choice)
        BY <1>1, <2>1 DEF FormShape, FormFields, FormIs
    <2>4. i \in Nat
        BY <1>2
    <2>3. state.type = "topic"
        BY <1>3, <1>7 DEF Form!DragStart
    <2> QED  BY <1>1, <1>4, <2>2, <2>3, <2>4
<1>8. ASSUME Form!DragEnd PROVE FormKeeps(state')
    <2>1. FormIs(state', state.entries, state.count, 0, state.choice)
        BY <1>1, <1>8 DEF Form!DragEnd, FormShape, FormFields, FormIs
    <2> QED  BY <1>1, <1>4, <2>1
<1>9. ASSUME Form!Drop PROVE FormKeeps(state')
    <2>1. CASE \E i \in DOMAIN state.entries :
                  state' = [Form!Reorder(state.dragging, i - 1, i <= state.count) EXCEPT !.dragging = 0]
        <3>1. PICK i \in DOMAIN state.entries :
                  state' = [Form!Reorder(state.dragging, i - 1, i <= state.count) EXCEPT !.dragging = 0]
            BY <2>1
        <3>2. i - 1 \in Nat /\ (i <= state.count) \in BOOLEAN
            BY <1>2
        <3> QED  BY <1>1, <1>6, <3>1, <3>2
    <2>2. CASE \E recommended \in BOOLEAN :
                  LET end == IF recommended THEN state.count ELSE Len(state.entries)
                  IN  state' = [Form!Reorder(state.dragging, end, recommended) EXCEPT !.dragging = 0]
        <3>1. PICK recommended \in BOOLEAN :
                  LET end == IF recommended THEN state.count ELSE Len(state.entries)
                  IN  state' = [Form!Reorder(state.dragging, end, recommended) EXCEPT !.dragging = 0]
            BY <2>2
        <3> DEFINE end == IF recommended THEN state.count ELSE Len(state.entries)
        <3>2. end \in Nat /\ state' = [Form!Reorder(state.dragging, end, recommended) EXCEPT !.dragging = 0]
            BY <1>2, <3>1
        <3> HIDE DEF end
        <3> QED  BY <1>1, <1>6, <3>2
    <2> QED  BY <1>9, <2>1, <2>2 DEF Form!Drop
<1>10. ASSUME Form!Move PROVE FormKeeps(state')
    <2>1. PICK i \in 1..(Len(state.entries) - 1) :
              state' = [state EXCEPT !.entries = [@ EXCEPT ![i] = state.entries[i + 1], ![i + 1] = state.entries[i]]]
        BY <1>10, Zenon DEF Form!Move
    <2> DEFINE r == [state.entries EXCEPT ![i] = state.entries[i + 1], ![i + 1] = state.entries[i]]
    <2>2. state' = [state EXCEPT !.entries = r]
        BY <1>1, <2>1, Zenon DEF FormShape, FormFields
    <2> HIDE DEF r
    <2>3. FormIs(state', r, state.count, state.dragging, state.choice)
        BY <1>1, <2>2 DEF FormShape, FormFields, FormIs
    <2>4. /\ FormEntries(state.type, r, state.count)
          /\ \A c : c.entries = r /\ c.count = state.count => FormMovesOne(state, c)
        BY FormSwaps DEF r
    <2> QED  BY <1>1, <1>5, <2>3, <2>4
<1>11. ASSUME Form!RemoveEntry PROVE FormKeeps(state')
    <2>1. PICK i \in DOMAIN state.entries :
              state' = [state EXCEPT !.entries = Form!RemoveAt(@, i), !.count = IF i <= @ THEN @ - 1 ELSE @]
        BY <1>11 DEF Form!RemoveEntry
    <2> DEFINE r == Form!RemoveAt(state.entries, i)
               count == IF i <= state.count THEN state.count - 1 ELSE state.count
               n == Len(state.entries)
    <2>2. state' = [state EXCEPT !.entries = r, !.count = count]
        BY <1>1, <2>1 DEF FormShape, FormFields
    <2>3. /\ r \in Seq(FormItems) /\ Len(r) = n - 1 /\ DOMAIN r = 1..(n - 1)
          /\ \A k \in 1..(n - 1) : r[k] = IF k < i THEN state.entries[k] ELSE state.entries[k + 1]
        <3> DEFINE entries == state.entries
        <3>1. entries \in Seq(FormItems) /\ i \in DOMAIN entries
            BY <1>2
        <3> HIDE DEF entries
        <3>2. LET left == Form!RemoveAt(entries, i) IN
              /\ left \in Seq(FormItems) /\ Len(left) = Len(entries) - 1 /\ DOMAIN left = 1..(Len(entries) - 1)
              /\ \A k \in 1..(Len(entries) - 1) : left[k] = IF k < i THEN entries[k] ELSE entries[k + 1]
            BY <3>1, FormRemoved
        <3> QED  BY <3>2 DEF entries
    <2> HIDE DEF r
    <2>4. count \in Nat /\ count <= n - 1
        BY <1>2
    <2> HIDE DEF count
    <2>5. \A k \in 1..(n - 1) : k \in 1..n /\ k + 1 \in 1..n
        BY <1>2
    <2>6. Form!IsInjective(r) /\ \A k \in DOMAIN r : r[k] # Own
        <3>1. ASSUME NEW k \in 1..(n - 1)
              PROVE  \E p \in 1..n : r[k] = state.entries[p] /\ p = IF k < i THEN k ELSE k + 1
            BY <2>3, <2>5
        <3>2. \A k \in 1..(n - 1) : r[k] # Own
            BY <1>2, <3>1
        <3>3. ASSUME NEW k \in 1..(n - 1), NEW l \in 1..(n - 1), r[k] = r[l] PROVE k = l
            <4>1. PICK p \in 1..n : r[k] = state.entries[p] /\ p = IF k < i THEN k ELSE k + 1
                BY <3>1
            <4>2. PICK q \in 1..n : r[l] = state.entries[q] /\ q = IF l < i THEN l ELSE l + 1
                BY <3>1
            <4>3. p = q
                BY <1>2, <3>3, <4>1, <4>2
            <4>4. i \in Nat
                BY <1>2
            <4> QED  BY <4>1, <4>2, <4>3, <4>4
        <3> QED  BY <2>3, <3>2, <3>3 DEF Form!IsInjective
    <2>7. state.type = "topic"
        BY <1>3, <1>11 DEF Form!RemoveEntry
    <2>8. FormEntries(state.type, r, count)
        BY <1>2, <2>3, <2>4, <2>6, <2>7 DEF FormEntries
    <2>9. \A c : c.entries = r => FormMovesOne(state, c)
        BY <1>2, <2>3 DEF FormMovesOne
    <2>10. FormIs(state', r, count, state.dragging, state.choice)
        BY <1>1, <2>2 DEF FormShape, FormFields, FormIs
    <2> QED  BY <1>1, <1>5, <2>8, <2>9, <2>10
<1>12. ASSUME Form!Recommend PROVE FormKeeps(state')
    <2>1. PICK i \in DOMAIN state.entries : state' = Form!Reorder(i, state.count, i > state.count)
        BY <1>12 DEF Form!Recommend
    <2>2. i \in Nat /\ (i > state.count) \in BOOLEAN
        BY <1>2
    <2>3. PICK entries, count : FormReordered(Form!Reorder(i, state.count, i > state.count), entries, count)
        BY <1>2, <2>2, FormReorders
    <2>4. FormIs(state', entries, count, state.dragging, state.choice)
        BY <1>1, <2>1, <2>3 DEF FormShape, FormFields, FormIs, FormReordered
    <2>5. FormEntries(state.type, entries, count) /\ \A c : c.entries = entries /\ c.count = count => FormMovesOne(state, c)
        BY <2>3 DEF FormReordered
    <2> QED  BY <1>1, <1>5, <2>4, <2>5
<1>13. ASSUME Form!Choose PROVE FormKeeps(state')
    <2>1. PICK id \in state.found : state' = [state EXCEPT !.choice = id]
        BY <1>13 DEF Form!Choose
    <2>2. FormIs(state', state.entries, state.count, state.dragging, id)
        BY <1>1, <2>1 DEF FormShape, FormFields, FormIs
    <2>3. id \in FormItems
        BY <1>1 DEF FormShape, FormItems
    <2> QED  BY <1>1, <1>4, <2>2, <2>3
<1>14. ASSUME Form!AddEntry PROVE FormKeeps(state')
    <2> DEFINE r == Append(state.entries, state.choice)
               n == Len(state.entries)
    <2>1. /\ state.choice # Own /\ state.choice \notin Form!ToSet(state.entries) /\ n < RelationLimit
          /\ state.type = "topic" /\ state' = [state EXCEPT !.entries = Append(@, state.choice), !.choice = 0]
        BY <1>3, <1>14 DEF Form!AddEntry
    <2>2. /\ r \in Seq(FormItems) /\ Len(r) = n + 1 /\ DOMAIN r = 1..(n + 1) /\ r[n + 1] = state.choice
          /\ \A k \in 1..n : r[k] = state.entries[k]
        BY <1>1, <1>2
    <2>3. \A k \in 1..n : state.entries[k] # state.choice
        BY <1>2, <2>1 DEF Form!ToSet
    <2>4. FormIs(state', r, state.count, state.dragging, 0)
        BY <1>1, <2>1 DEF FormShape, FormFields, FormIs
    <2> HIDE DEF r
    <2>5. \A k \in 1..(n + 1) : k \in 1..n \/ k = n + 1
        BY <1>2
    <2>6. Form!IsInjective(r) /\ \A k \in DOMAIN r : r[k] # Own
        BY <1>2, <2>1, <2>2, <2>3, <2>5 DEF Form!IsInjective
    <2>7. FormEntries(state.type, r, state.count)
        BY <1>2, <2>1, <2>2, <2>6 DEF FormEntries
    <2>8. 0 \in FormItems
        BY DEF FormItems
    <2>9. FormGood(state') /\ FormLabelsStay(state, state') /\ state'.entries = r
        <3>1. state.dragging \in Nat /\ (state.dragging # 0 => state.type = "topic")
            BY <1>1
        <3> QED  BY <2>4, <2>7, <2>8, <3>1, FormArranged
    <2>10. FormMovesOne(state, state')
        BY <1>2, <2>2, <2>9 DEF FormMovesOne
    <2> QED  BY <2>9, <2>10 DEF FormKeeps
<1> QED  BY <1>7, <1>8, <1>9, <1>10, <1>11, <1>12, <1>13, <1>14

-----------------------------------------------------------------------------
(* The tags, the links and the labels.                                      *)

LEMMA FormKeptOnce ==
    ASSUME NEW T, NEW s \in Seq(T), NEW S \in SUBSET DOMAIN s, Form!IsInjective(s)
    PROVE  LET r == Form!Kept(s, S) IN
           /\ r \in Seq(T) /\ Len(r) <= Len(s) /\ Form!IsInjective(r)
           /\ \A k \in DOMAIN r : \E i \in S : r[k] = s[i]
<1> DEFINE r == Form!Kept(s, S)
<1>1. /\ r \in Seq(T) /\ Len(r) <= Len(s)
      /\ \E at \in [DOMAIN r -> S] :
            /\ \A k \in DOMAIN r : r[k] = s[at[k]]
            /\ \A i \in S : \E k \in DOMAIN r : at[k] = i
            /\ \A k, l \in DOMAIN r : at[k] = at[l] => k = l
    BY FormKept
<1> HIDE DEF r
<1>2. PICK at \in [DOMAIN r -> S] :
            /\ \A k \in DOMAIN r : r[k] = s[at[k]]
            /\ \A k, l \in DOMAIN r : at[k] = at[l] => k = l
    BY <1>1
<1>3. \A k \in DOMAIN r : at[k] \in S /\ at[k] \in DOMAIN s /\ r[k] = s[at[k]]
    BY <1>2
<1>4. \A i, j \in DOMAIN s : s[i] = s[j] => i = j
    BY DEF Form!IsInjective
<1>5. \A k, l \in DOMAIN r : r[k] = r[l] => k = l
    BY <1>2, <1>3, <1>4
<1>6. Form!IsInjective(r)
    BY <1>5 DEF Form!IsInjective
<1> QED  BY <1>1, <1>3, <1>6 DEF r

LEMMA FormAppendedOnce ==
    ASSUME NEW T, NEW s \in Seq(T), Form!IsInjective(s), NEW e \in T, \A i \in DOMAIN s : s[i] # e
    PROVE  LET r == Append(s, e) IN
           /\ r \in Seq(T) /\ Len(r) = Len(s) + 1 /\ Form!IsInjective(r)
           /\ \A k \in DOMAIN r : r[k] = e \/ \E i \in DOMAIN s : r[k] = s[i]
<1> DEFINE r == Append(s, e)
           n == Len(s)
<1>1. n \in Nat /\ DOMAIN s = 1..n
    OBVIOUS
<1>2. r \in Seq(T) /\ Len(r) = n + 1 /\ DOMAIN r = 1..(n + 1) /\ r[n + 1] = e /\ \A k \in 1..n : r[k] = s[k]
    OBVIOUS
<1> HIDE DEF r, n
<1>3. \A k \in 1..(n + 1) : k \in 1..n \/ k = n + 1
    BY <1>1
<1>4. \A i, j \in 1..n : s[i] = s[j] => i = j
    BY <1>1 DEF Form!IsInjective
<1>5. \A k \in 1..n : r[k] = s[k] /\ r[k] # e
    BY <1>1, <1>2
<1>6. \A k, l \in DOMAIN r : r[k] = r[l] => k = l
    BY <1>2, <1>3, <1>4, <1>5
<1>7. Form!IsInjective(r)
    BY <1>6 DEF Form!IsInjective
<1>8. \A k \in DOMAIN r : r[k] = e \/ \E i \in DOMAIN s : r[k] = s[i]
    BY <1>1, <1>2, <1>3
<1> QED  BY <1>2, <1>7, <1>8 DEF r, n

\* Steps that change what a note or an article has.
FormHas(c, tags, links, labels) == c = [state EXCEPT !.tags = tags, !.links = links, !.labels = labels]

LEMMA FormEquipped ==
    ASSUME FormGood(state), NEW tags, NEW links, NEW labels,
           FormTags(state.type, tags), FormLinks(state.type, links, labels),
           NEW c, FormHas(c, tags, links, labels)
    PROVE  FormGood(c) /\ FormMovesOne(state, c) /\ c.links = links /\ c.labels = labels
<1>1. /\ FormShape(c) /\ c.tags = tags /\ c.links = links /\ c.labels = labels
      /\ c.type = state.type /\ c.entries = state.entries /\ c.count = state.count /\ c.choice = state.choice
      /\ c.dragging = state.dragging /\ c.mirror = state.mirror /\ c.slug = state.slug
    BY DEF FormGood, FormShape, FormFields, FormHas
<1> QED  BY <1>1 DEF FormGood, FormMovesOne

LEMMA FormTagged ==
    ASSUME FormGood(state), Form!ToggleTag
    PROVE  FormKeeps(state')
<1>1. /\ FormShape(state) /\ FormTags(state.type, state.tags) /\ FormLinks(state.type, state.links, state.labels)
    BY DEF FormGood
<1>2. state.type # "topic"
    BY <1>1, FormParts DEF Form!ToggleTag
<1>3. /\ state.tags \in Seq(FormItems) /\ Len(state.tags) \in Nat /\ Len(state.tags) <= RelationLimit
      /\ Form!IsInjective(state.tags) /\ RelationLimit \in Nat
    BY <1>1, FormAssumption DEF FormTags
<1>4. PICK tag \in state.found :
        /\ Form!Contains(state.tags, tag) \/ Len(state.tags) < RelationLimit
        /\ state' = [state EXCEPT !.tags = IF Form!Contains(@, tag) THEN Form!Kept(@, {i \in DOMAIN @ : @[i] # tag})
                                           ELSE Append(@, tag)]
    BY DEF Form!ToggleTag
<1> DEFINE S == {i \in DOMAIN state.tags : state.tags[i] # tag}
           kept == Form!Kept(state.tags, S)
           tags == IF Form!Contains(state.tags, tag) THEN kept ELSE Append(state.tags, tag)
<1>5. state' = [state EXCEPT !.tags = tags]
    BY <1>4, Zenon
<1>6. ASSUME Form!Contains(state.tags, tag) PROVE FormTags(state.type, tags)
    <2>1. S \in SUBSET DOMAIN state.tags
        OBVIOUS
    <2> HIDE DEF S
    <2>2. kept \in Seq(FormItems) /\ Len(kept) <= Len(state.tags) /\ Form!IsInjective(kept)
        BY <1>3, <2>1, FormKeptOnce
    <2>3. Len(kept) \in Nat
        BY <2>2
    <2>4. tags = kept
        BY <1>6
    <2> HIDE DEF kept, tags
    <2> QED  BY <1>2, <1>3, <2>2, <2>3, <2>4 DEF FormTags
<1>7. ASSUME ~Form!Contains(state.tags, tag) PROVE FormTags(state.type, tags)
    <2>1. tag \in FormItems
        BY <1>1 DEF FormShape, FormItems
    <2>2. \A i \in DOMAIN state.tags : state.tags[i] # tag
        BY <1>3, <1>7 DEF Form!Contains
    <2>3. tags = Append(state.tags, tag)
        BY <1>7
    <2> HIDE DEF tags
    <2>4. tags \in Seq(FormItems) /\ Len(tags) = Len(state.tags) + 1 /\ Form!IsInjective(tags)
        BY <1>3, <2>1, <2>2, <2>3, FormAppendedOnce
    <2>5. Len(tags) <= RelationLimit
        BY <1>3, <1>4, <1>7, <2>4
    <2> QED  BY <1>2, <2>4, <2>5 DEF FormTags
<1>8. FormTags(state.type, tags)
    BY <1>6, <1>7
<1> HIDE DEF tags
<1>9. FormHas(state', tags, state.links, state.labels)
    BY <1>1, <1>5 DEF FormShape, FormFields, FormHas
<1>10. FormGood(state') /\ FormMovesOne(state, state') /\ state'.links = state.links
    BY <1>1, <1>8, <1>9, FormEquipped
<1>11. FormLabelsStay(state, state')
    BY <1>10 DEF FormLabelsStay, Form!Uses
<1> QED  BY <1>10, <1>11 DEF FormKeeps

\* What is left of the labels, of other links.
LEMMA FormWithout ==
    ASSUME NEW labels \in Seq(FormLabel), Form!IsInjective(labels), NEW urls
    PROVE  LET r == Form!Without(labels, urls) IN
           /\ r \in Seq(FormLabel) /\ Form!IsInjective(r)
           /\ \A k \in DOMAIN r : r[k].url \notin urls /\ \E i \in DOMAIN labels : r[k] = labels[i]
<1> DEFINE S == {i \in DOMAIN labels : labels[i].url \notin urls}
           r == Form!Kept(labels, S)
<1>1. S \in SUBSET DOMAIN labels
    OBVIOUS
<1>2. Form!Without(labels, urls) = r
    BY DEF Form!Without
<1>3. \A i \in S : i \in DOMAIN labels /\ labels[i].url \notin urls
    OBVIOUS
<1> HIDE DEF S
<1>4. r \in Seq(FormLabel) /\ Form!IsInjective(r) /\ \A k \in DOMAIN r : \E i \in S : r[k] = labels[i]
    BY <1>1, FormKeptOnce
<1> HIDE DEF r
<1> QED  BY <1>2, <1>3, <1>4

LEMMA FormUnlabelled ==
    ASSUME NEW c, NEW url, c.labels \in Seq(FormLabel), \A k \in DOMAIN c.labels : c.labels[k].url # url
    PROVE  ~Form!Labelled(c, url)
<1>1. \A k \in 1..Len(c.labels) : c.labels[k] # [url |-> url]
    OBVIOUS
<1> QED  BY <1>1 DEF Form!Labelled, Form!Contains

LEMMA FormUsesSame ==
    ASSUME NEW b, NEW c, NEW url, NEW n \in Nat, DOMAIN b.links = 1..n, NEW at,
           at \in Bijection({j \in DOMAIN b.links : b.links[j] = url}, {j \in DOMAIN c.links : c.links[j] = url})
    PROVE  Form!Uses(c, url) = Form!Uses(b, url)
<1> DEFINE S == {j \in DOMAIN b.links : b.links[j] = url}
           R == {j \in DOMAIN c.links : c.links[j] = url}
<1>1. S \subseteq 1..n
    OBVIOUS
<1> HIDE DEF S
<1>3. IsFiniteSet(S)
    BY <1>1, ListInterval, FS_Subset
<1>4. at \in Bijection(S, R)
    BY DEF S
<1> HIDE DEF R
<1>5. Cardinality(R) = Cardinality(S)
    BY <1>3, <1>4, FS_Bijection DEF ExistsBijection
<1> QED  BY <1>5, FormCardinality DEF Form!Uses, S, R

LEMMA FormLinked ==
    ASSUME FormGood(state), Form!RemoveLink \/ Form!TypeLabel \/ Form!TypeUrl \/ Form!AppendLink
    PROVE  FormKeeps(state')
<1>1. /\ FormShape(state) /\ FormTags(state.type, state.tags) /\ FormLinks(state.type, state.links, state.labels)
    BY DEF FormGood
<1>2. state.type # "topic"
    BY <1>1, FormParts DEF Form!RemoveLink, Form!TypeLabel, Form!TypeUrl, Form!AppendLink
<1> DEFINE links == state.links
           labels == state.labels
           n == Len(links)
<1>3. /\ links \in Seq(FormUrls) /\ n \in Nat /\ DOMAIN links = 1..n /\ n <= LinkLimit /\ LinkLimit \in Nat
      /\ labels \in Seq(FormLabel) /\ Form!IsInjective(labels)
      /\ \A i \in DOMAIN labels : labels[i].url # Form!NoText /\ \E j \in 1..n : links[j] = labels[i].url
    BY <1>1, FormAssumption DEF FormLinks
<1> HIDE DEF links, labels, n
<1>4. ASSUME NEW urls
      PROVE  LET r == Form!Without(labels, urls) IN
             /\ r \in Seq(FormLabel) /\ Form!IsInjective(r)
             /\ \A k \in DOMAIN r : /\ r[k].url \notin urls /\ r[k].url # Form!NoText
                                   /\ \E j \in 1..n : links[j] = r[k].url
             /\ \A c : c.labels = r => \A url \in urls : ~Form!Labelled(c, url)
    <2> DEFINE r == Form!Without(labels, urls)
    <2>1. /\ r \in Seq(FormLabel) /\ Form!IsInjective(r)
          /\ \A k \in DOMAIN r : r[k].url \notin urls /\ \E i \in DOMAIN labels : r[k] = labels[i]
        BY <1>3, FormWithout
    <2> HIDE DEF r
    <2>2. ASSUME NEW k \in DOMAIN r PROVE r[k].url # Form!NoText /\ \E j \in 1..n : links[j] = r[k].url
        <3>1. PICK i \in DOMAIN labels : r[k] = labels[i]
            BY <2>1
        <3>2. labels[i].url # Form!NoText /\ \E j \in 1..n : links[j] = labels[i].url
            BY <1>3
        <3> HIDE DEF Form!NoText
        <3> QED  BY <3>1, <3>2
    <2>3. ASSUME NEW c, c.labels = r, NEW url \in urls PROVE ~Form!Labelled(c, url)
        <3>1. c.labels \in Seq(FormLabel) /\ \A k \in DOMAIN c.labels : c.labels[k].url # url
            BY <2>1, <2>3
        <3> QED  BY <3>1, FormUnlabelled
    <2> QED  BY <2>1, <2>2, <2>3 DEF r
<1>5. ASSUME NEW new, NEW rest, FormLinks(state.type, new, rest), FormHas(state', state.tags, new, rest)
      PROVE  FormGood(state') /\ FormMovesOne(state, state') /\ state'.links = new /\ state'.labels = rest
    BY <1>1, <1>5, FormEquipped
<1>6. ASSUME Form!RemoveLink PROVE FormKeeps(state')
    <2>1. PICK i \in 1..n : state' = [state EXCEPT !.labels = Form!Without(@, {links[i]}), !.links = Form!RemoveAt(@, i)]
        BY <1>3, <1>6 DEF Form!RemoveLink, links
    <2> DEFINE rest == Form!Without(labels, {links[i]})
               new == Form!RemoveAt(links, i)
    <2>2. FormHas(state', state.tags, new, rest)
        BY <1>1, <2>1 DEF FormShape, FormFields, FormHas, links, labels
    <2>3. /\ new \in Seq(FormUrls) /\ Len(new) = n - 1 /\ DOMAIN new = 1..(n - 1)
          /\ \A k \in 1..(n - 1) : new[k] = IF k < i THEN links[k] ELSE links[k + 1]
        BY <1>3, FormRemoved DEF n
    <2>4. /\ rest \in Seq(FormLabel) /\ Form!IsInjective(rest)
          /\ \A k \in DOMAIN rest : /\ rest[k].url # links[i] /\ rest[k].url # Form!NoText
                                   /\ \E j \in 1..n : links[j] = rest[k].url
          /\ \A c : c.labels = rest => ~Form!Labelled(c, links[i])
        BY <1>4
    <2> HIDE DEF rest, new
    <2>5. ASSUME NEW j \in 1..n, j # i
          PROVE  LET k == IF j < i THEN j ELSE j - 1 IN k \in 1..(n - 1) /\ new[k] = links[j]
        <3>1. CASE j < i
            <4>1. j \in 1..(n - 1)
                BY <1>3, <3>1
            <4> QED  BY <2>3, <3>1, <4>1
        <3>2. CASE ~(j < i)
            <4>1. j - 1 \in 1..(n - 1) /\ ~(j - 1 < i) /\ (j - 1) + 1 = j
                BY <1>3, <2>5, <3>2
            <4> QED  BY <2>3, <3>2, <4>1
        <3> QED  BY <3>1, <3>2
    <2>6. FormLinks(state.type, new, rest)
        <3>1. ASSUME NEW k \in DOMAIN rest PROVE \E l \in DOMAIN new : new[l] = rest[k].url
            <4>1. PICK j \in 1..n : links[j] = rest[k].url
                BY <2>4
            <4>2. j # i
                BY <2>4, <4>1
            <4> QED  BY <2>3, <2>5, <4>1, <4>2
        <3>2. Len(new) <= LinkLimit
            BY <1>3, <2>3
        <3> QED  BY <1>2, <2>3, <2>4, <3>1, <3>2 DEF FormLinks
    <2>7. FormGood(state') /\ FormMovesOne(state, state') /\ state'.links = new /\ state'.labels = rest
        BY <1>5, <2>2, <2>6
    <2>8. ASSUME NEW url \in Urls, url # links[i] PROVE Form!Uses(state', url) = Form!Uses(state, url)
        <3> DEFINE S == {j \in 1..n : links[j] = url}
                   R == {k \in 1..(n - 1) : new[k] = url}
                   at == [j \in S |-> IF j < i THEN j ELSE j - 1]
        <3>1. \A j \in S : j \in 1..n /\ j # i /\ links[j] = url
            BY <2>8
        <3>2. ASSUME NEW j \in S PROVE at[j] \in R
            BY <2>5, <3>1
        <3>3. ASSUME NEW k \in R PROVE \E j \in S : at[j] = k
            <4>1. k \in 1..(n - 1) /\ new[k] = url /\ new[k] = IF k < i THEN links[k] ELSE links[k + 1]
                BY <2>3
            <4>2. CASE k < i
                BY <1>3, <4>1, <4>2
            <4>3. CASE ~(k < i)
                <5>1. k + 1 \in 1..n /\ ~(k + 1 < i) /\ (k + 1) - 1 = k /\ links[k + 1] = url
                    BY <1>3, <4>1, <4>3
                <5>2. k + 1 \in S /\ at[k + 1] = k
                    BY <5>1
                <5> QED  BY <5>2
            <4> QED  BY <4>2, <4>3
        <3>4. ASSUME NEW j \in S, NEW k \in S, at[j] = at[k] PROVE j = k
            <4>1. /\ j \in Nat /\ k \in Nat /\ i \in Nat /\ j # i /\ k # i
                BY <1>3, <3>1
            <4>2. (IF j < i THEN j ELSE j - 1) = (IF k < i THEN k ELSE k - 1)
                BY <3>4
            <4> QED  BY <4>1, <4>2
        <3>5. DOMAIN at = S /\ at = [j \in S |-> at[j]]
            OBVIOUS
        <3> HIDE DEF at, S, R
        <3>6. at \in Bijection(S, R)
            BY <3>2, <3>3, <3>4, <3>5 DEF Bijection, Injection, Surjection, IsInjective
        <3>7. S = {j \in DOMAIN state.links : state.links[j] = url}
            BY <1>3 DEF S, links
        <3>8. R = {j \in DOMAIN state'.links : state'.links[j] = url}
            BY <2>3, <2>7 DEF R
        <3>9. n \in Nat /\ DOMAIN state.links = 1..n
            BY <1>3 DEF links
        <3> QED  BY <3>6, <3>7, <3>8, <3>9, FormUsesSame
    <2>9. FormLabelsStay(state, state')
        BY <2>4, <2>7, <2>8 DEF FormLabelsStay
    <2> QED  BY <2>7, <2>9 DEF FormKeeps
<1>7. ASSUME Form!TypeLabel PROVE FormKeeps(state')
    <2>1. PICK i \in 1..n, empty \in BOOLEAN :
            LET url == links[i] rest == Form!Without(labels, {url})
            IN  state' = [state EXCEPT !.labels = IF url = Form!NoText \/ empty THEN rest ELSE Append(rest, [url |-> url])]
        BY <1>3, <1>7 DEF Form!TypeLabel, links, labels
    <2> DEFINE url == links[i]
               rest == Form!Without(labels, {url})
               new == IF url = Form!NoText \/ empty THEN rest ELSE Append(rest, [url |-> url])
    <2>2. state' = [state EXCEPT !.labels = new]
        BY <2>1
    <2>3. /\ rest \in Seq(FormLabel) /\ Form!IsInjective(rest)
          /\ \A k \in DOMAIN rest : /\ rest[k].url # url /\ rest[k].url # Form!NoText
                                   /\ \E j \in 1..n : links[j] = rest[k].url
        BY <1>4
    <2>4. url \in FormUrls
        BY <1>3, ElementOfSeq
    <2> HIDE DEF url
    <2>5. [url |-> url] \in FormLabel /\ [url |-> url].url = url
        BY <2>4 DEF FormLabel
    <2> HIDE DEF rest
    <2>6. FormLinks(state.type, links, new)
        <3>1. CASE url = Form!NoText \/ empty
            <4>1. new = rest
                BY <3>1
            <4> QED  BY <1>2, <1>3, <2>3, <4>1 DEF FormLinks, n
        <3>2. CASE ~(url = Form!NoText \/ empty)
            <4>1. new = Append(rest, [url |-> url])
                BY <3>2
            <4> HIDE DEF new
            <4>2. \A k \in DOMAIN rest : rest[k] # [url |-> url]
                BY <2>3, <2>5
            <4>3. /\ new \in Seq(FormLabel) /\ Form!IsInjective(new)
                  /\ \A k \in DOMAIN new : new[k] = [url |-> url] \/ \E j \in DOMAIN rest : new[k] = rest[j]
                BY <2>3, <2>5, <4>1, <4>2, FormAppendedOnce
            <4>4. ASSUME NEW k \in DOMAIN new PROVE new[k].url # Form!NoText /\ \E j \in 1..n : links[j] = new[k].url
                BY <2>3, <2>5, <3>2, <4>3 DEF url
            <4> QED  BY <1>2, <1>3, <4>3, <4>4 DEF FormLinks, n
        <3> QED  BY <3>1, <3>2
    <2> HIDE DEF new
    <2>7. FormHas(state', state.tags, links, new)
        BY <1>1, <2>2 DEF FormShape, FormFields, FormHas, links
    <2>8. FormGood(state') /\ FormMovesOne(state, state') /\ state'.links = links
        BY <1>5, <2>6, <2>7
    <2>9. FormLabelsStay(state, state')
        BY <2>8 DEF FormLabelsStay, Form!Uses, links
    <2> QED  BY <2>8, <2>9 DEF FormKeeps
<1>8. ASSUME Form!TypeUrl PROVE FormKeeps(state')
    <2>1. PICK i \in 1..n : \E url \in Urls \ {links[i]} :
            state' = [state EXCEPT !.links[i] = url, !.labels = Form!Without(@, {links[i], url})]
        BY <1>3, <1>8 DEF Form!TypeUrl, links
    <2>2. PICK url \in Urls \ {links[i]} :
            state' = [state EXCEPT !.links[i] = url, !.labels = Form!Without(@, {links[i], url})]
        BY <2>1
    <2> DEFINE rest == Form!Without(labels, {links[i], url})
               new == [links EXCEPT ![i] = url]
    <2>3. state' = [state EXCEPT !.links = new, !.labels = rest]
        BY <2>2, Zenon DEF links, labels
    <2>4. url \in FormUrls
        BY DEF FormUrls
    <2>5. /\ new \in Seq(FormUrls) /\ Len(new) = n /\ DOMAIN new = 1..n /\ new[i] = url
          /\ \A j \in 1..n : j # i => new[j] = links[j]
        BY <1>3, <2>4 DEF n
    <2>6. /\ rest \in Seq(FormLabel) /\ Form!IsInjective(rest)
          /\ \A k \in DOMAIN rest : /\ rest[k].url \notin {links[i], url} /\ rest[k].url # Form!NoText
                                   /\ \E j \in 1..n : links[j] = rest[k].url
          /\ \A c : c.labels = rest => \A u \in {links[i], url} : ~Form!Labelled(c, u)
        BY <1>4
    <2> HIDE DEF rest, new
    <2>7. FormHas(state', state.tags, new, rest)
        BY <1>1, <2>3 DEF FormShape, FormFields, FormHas
    <2>8. FormLinks(state.type, new, rest)
        <3>1. ASSUME NEW k \in DOMAIN rest PROVE \E l \in DOMAIN new : new[l] = rest[k].url
            <4>1. PICK j \in 1..n : links[j] = rest[k].url
                BY <2>6
            <4>2. j # i
                BY <2>6, <4>1
            <4> QED  BY <2>5, <4>1, <4>2
        <3> QED  BY <1>2, <1>3, <2>5, <2>6, <3>1 DEF FormLinks
    <2>9. FormGood(state') /\ FormMovesOne(state, state') /\ state'.links = new /\ state'.labels = rest
        BY <1>5, <2>7, <2>8
    <2>10. ASSUME NEW u \in Urls, u # url, u # links[i] PROVE Form!Uses(state', u) = Form!Uses(state, u)
        <3>1. {j \in DOMAIN state'.links : state'.links[j] = u} = {j \in DOMAIN state.links : state.links[j] = u}
            BY <1>3, <2>5, <2>9, <2>10 DEF links
        <3> QED  BY <3>1 DEF Form!Uses
    <2>11. ASSUME NEW u \in {links[i], url} PROVE ~Form!Labelled(state', u)
        BY <2>6, <2>9
    <2>12. FormLabelsStay(state, state')
        BY <2>10, <2>11 DEF FormLabelsStay
    <2> QED  BY <2>9, <2>12 DEF FormKeeps
<1>9. ASSUME Form!AppendLink PROVE FormKeeps(state')
    <2> DEFINE new == Append(links, Form!NoText)
    <2>1. state' = [state EXCEPT !.links = Append(@, Form!NoText)] /\ n < LinkLimit
        BY <1>9 DEF Form!AppendLink, links, n
    <2>2. FormHas(state', state.tags, new, labels)
        BY <1>1, <2>1 DEF FormShape, FormFields, FormHas, links, labels
    <2>3. /\ new \in Seq(FormUrls) /\ Len(new) = n + 1 /\ DOMAIN new = 1..(n + 1) /\ new[n + 1] = Form!NoText
          /\ \A j \in 1..n : new[j] = links[j]
        BY <1>3 DEF FormUrls, n
    <2> HIDE DEF new
    <2>4. \A j \in 1..(n + 1) : j \in 1..n \/ j = n + 1
        BY <1>3
    <2>5. \A j \in 1..n : j \in 1..(n + 1)
        BY <1>3
    <2>6. FormLinks(state.type, new, labels)
        <3>1. Len(new) <= LinkLimit
            BY <1>3, <2>1, <2>3
        <3>2. \A k \in DOMAIN labels : \E l \in DOMAIN new : new[l] = labels[k].url
            BY <1>3, <2>3, <2>5
        <3> QED  BY <1>2, <1>3, <2>3, <3>1, <3>2 DEF FormLinks
    <2>7. FormGood(state') /\ FormMovesOne(state, state') /\ state'.links = new /\ state'.labels = labels
        BY <1>5, <2>2, <2>6
    <2>8. ASSUME NEW u, u # Form!NoText PROVE Form!Uses(state', u) = Form!Uses(state, u)
        <3>1. {j \in DOMAIN state'.links : state'.links[j] = u} = {j \in DOMAIN state.links : state.links[j] = u}
            BY <1>3, <2>3, <2>4, <2>5, <2>7, <2>8 DEF links
        <3> QED  BY <3>1 DEF Form!Uses
    <2>9. ~Form!Labelled(state', Form!NoText)
        <3>1. state'.labels \in Seq(FormLabel) /\ \A k \in DOMAIN state'.labels : state'.labels[k].url # Form!NoText
            BY <1>3, <2>7
        <3> QED  BY <3>1, FormUnlabelled
    <2>10. FormLabelsStay(state, state')
        BY <2>8, <2>9 DEF FormLabelsStay
    <2> QED  BY <2>7, <2>10 DEF FormKeeps
<1> QED  BY <1>6, <1>7, <1>8, <1>9

\* What a search shows, and the group of a note.
LEMMA FormOthers ==
    ASSUME FormGood(state), Form!Search \/ Form!ChooseGroup \/ Form!Regroup
    PROVE  FormKeeps(state')
<1>1. ASSUME NEW found \in Pages, NEW slug, NEW mirror, NEW version, mirror[1] = slug,
             state' = [state EXCEPT !.found = found, !.slug = slug, !.mirror = mirror, !.version = version]
      PROVE  FormKeeps(state')
    <2>1. /\ FormShape(state') /\ state'.slug = slug /\ state'.mirror = mirror
          /\ state'.type = state.type /\ state'.entries = state.entries /\ state'.count = state.count
          /\ state'.choice = state.choice /\ state'.dragging = state.dragging
          /\ state'.tags = state.tags /\ state'.links = state.links /\ state'.labels = state.labels
        BY <1>1 DEF FormGood, FormShape, FormFields
    <2>2. FormGood(state')
        BY <1>1, <2>1 DEF FormGood
    <2> QED  BY <2>1, <2>2 DEF FormKeeps, FormMovesOne, FormLabelsStay, Form!Uses
<1>2. FormShape(state) /\ state.found \in Pages /\ state.mirror[1] = state.slug
    BY DEF FormGood, FormShape
<1>3. ASSUME Form!Search PROVE FormKeeps(state')
    <2>1. PICK page \in Pages : state' = [state EXCEPT !.found = page]
        BY <1>3 DEF Form!Search
    <2>2. state' = [state EXCEPT !.found = page, !.slug = state.slug, !.mirror = state.mirror, !.version = state.version]
        BY <1>2, <2>1 DEF FormShape, FormFields
    <2> QED  BY <1>1, <1>2, <2>2
<1>4. ASSUME Form!ChooseGroup PROVE FormKeeps(state')
    <2>1. PICK slug \in Form!Found \union {Form!NoText, state.slug} :
            state' = [state EXCEPT !.slug = slug,
                         !.mirror = IF slug \in Form!Found THEN <<slug, state.version>>
                                    ELSE IF slug = Form!NoText THEN Form!NoGroup ELSE @]
        BY <1>4 DEF Form!ChooseGroup
    <2> DEFINE mirror == IF slug \in Form!Found THEN <<slug, state.version>>
                         ELSE IF slug = Form!NoText THEN Form!NoGroup ELSE state.mirror
    <2>2. mirror[1] = slug
        <3>1. Form!NoGroup[1] = Form!NoText
            BY DEF Form!NoGroup
        <3> QED  BY <1>2, <3>1
    <2>3. state' = [state EXCEPT !.slug = slug, !.mirror = mirror]
        BY <2>1, Zenon
    <2> HIDE DEF mirror
    <2>4. state' = [state EXCEPT !.found = state.found, !.slug = slug, !.mirror = mirror, !.version = state.version]
        BY <1>2, <2>3 DEF FormShape, FormFields
    <2> QED  BY <1>1, <1>2, <2>2, <2>4
<1>5. ASSUME Form!Regroup PROVE FormKeeps(state')
    <2>1. state' = [state EXCEPT !.version = state.version + 1]
        BY <1>5 DEF Form!Regroup
    <2> DEFINE version == state.version + 1
    <2>2. state' = [state EXCEPT !.found = state.found, !.slug = state.slug, !.mirror = state.mirror, !.version = version]
        BY <1>2, <2>1 DEF FormShape, FormFields
    <2> HIDE DEF version
    <2> QED  BY <1>1, <1>2, <2>2
<1> QED  BY <1>3, <1>4, <1>5

LEMMA FormInit ==
    ASSUME Form!Init
    PROVE  FormGood(state)
<1>1. PICK type \in {"note", "curated_article", "topic"}, page \in Pages :
        state = [type |-> type, found |-> page, entries |-> <<>>, count |-> 0, dragging |-> 0, choice |-> 0,
                 tags |-> <<>>, links |-> <<>>, labels |-> <<>>, slug |-> Form!NoText, mirror |-> Form!NoGroup, version |-> 1]
    BY DEF Form!Init
<1>2. /\ FormShape(state) /\ state.type = type /\ state.entries = <<>> /\ state.count = 0 /\ state.dragging = 0
      /\ state.choice = 0 /\ state.tags = <<>> /\ state.links = <<>> /\ state.labels = <<>>
      /\ state.slug = Form!NoText /\ state.mirror = Form!NoGroup
    BY <1>1 DEF FormShape, FormFields
<1>3. ASSUME NEW T PROVE <<>> \in Seq(T) /\ Len(<<>>) = 0 /\ DOMAIN <<>> = {}
    OBVIOUS
<1>4. Form!IsInjective(<<>>)
    BY <1>3 DEF Form!IsInjective
<1>5. FormEntries(state.type, <<>>, 0)
    BY <1>3, <1>4, FormAssumption DEF FormEntries
<1>6. FormTags(state.type, <<>>)
    BY <1>3, <1>4, FormAssumption DEF FormTags
<1>7. FormLinks(state.type, <<>>, <<>>)
    BY <1>3, <1>4, FormAssumption DEF FormLinks
<1>8. Form!NoGroup[1] = Form!NoText
    BY DEF Form!NoGroup
<1>9. 0 \in FormItems
    BY DEF FormItems
<1> QED  BY <1>2, <1>5, <1>6, <1>7, <1>8, <1>9 DEF FormGood

LEMMA FormStep ==
    ASSUME FormGood(state), Form!Next
    PROVE  FormGood(state') /\ Form!KeepsRelations(state, state')
<1>1. FormKeeps(state')
    BY FormArranges, FormTagged, FormLinked, FormOthers DEF Form!Next
<1>2. Form!Sendable(state') /\ Form!Taken(state')
    BY <1>1, FormTaken DEF FormKeeps
<1>3. FormMovesOne(state, state') /\ FormLabelsStay(state, state') /\ state'.mirror[1] = state'.slug
    BY <1>1 DEF FormKeeps, FormGood
<1> QED  BY <1>1, <1>2, <1>3 DEF FormKeeps, Form!KeepsRelations, FormMovesOne, FormLabelsStay

-----------------------------------------------------------------------------
(* The import of the old site: its lists, as they are kept.                 *)

\* The import filters as everything does.
LEMMA ImportListing ==
    /\ \A S : Legacy!Cardinality(S) = Cardinality(S)
    /\ \A s, S : Legacy!Kept(s, S) = Kept(s, S)
<1>1. \A S : Legacy!Cardinality(S) = Cardinality(S)
    BY DEF Legacy!Cardinality, Cardinality
<1>2. ASSUME NEW S, NEW below
      PROVE  Legacy!Places(S, below) = Places(S, below)
    BY <1>1 DEF Legacy!Places, Places
<1> QED  BY <1>1, <1>2 DEF Legacy!Kept, Kept

LEMMA ImportLists ==
    ASSUME NEW s, IsList(s)
    PROVE  s \in Seq(Legacy!ToSet(s))
BY DEF IsList, Legacy!ToSet

\* Unique: each once.
LEMMA ImportUnique ==
    ASSUME NEW T, NEW s \in Seq(T)
    PROVE  LET u == Legacy!Unique(s) IN
           /\ u \in Seq(T) /\ Legacy!IsInjective(u) /\ Legacy!ToSet(u) = Legacy!ToSet(s)
           /\ \A n \in 0..Len(s) : (\A i, j \in 1..n : s[i] = s[j] => i = j) =>
                 n <= Len(u) /\ \A k \in 1..n : u[k] = s[k]
<1> DEFINE S == {i \in DOMAIN s : \A j \in 1..(i - 1) : s[j] # s[i]}
           u == Kept(s, S)
<1>1. Legacy!Unique(s) = u
    BY ImportListing DEF Legacy!Unique
<1>2. S \in SUBSET DOMAIN s /\ DOMAIN s = 1..Len(s) /\ Len(s) \in Nat
    OBVIOUS
<1>3. u \in Seq(T) /\ IsFiniteSet(S) /\ Cardinality(S) \in Nat /\ Len(u) = Cardinality(S)
    BY <1>2, KeptList
<1>b. KeptFrom(u, s, S)
    BY <1>2, KeptList
<1>4. PICK at \in [DOMAIN u -> S] :
            /\ \A k \in DOMAIN u : u[k] = s[at[k]]
            /\ \A i \in S : \E k \in DOMAIN u : at[k] = i
            /\ \A k, l \in DOMAIN u : at[k] = at[l] => k = l
            /\ \A k \in DOMAIN u, i \in S : Cardinality(Lower(S, i)) = k - 1 => at[k] = i
    BY <1>b DEF KeptFrom
<1>5. \A i \in S : i \in DOMAIN s /\ \A j \in 1..(i - 1) : s[j] # s[i]
    OBVIOUS
<1>6. \A i \in DOMAIN s : (\A j \in 1..(i - 1) : s[j] # s[i]) => i \in S
    OBVIOUS
<1> HIDE DEF u, S
<1>7. Legacy!IsInjective(u)
    <2>1. \A i, j \in S : s[i] = s[j] => i = j
        <3>1. \A i, j \in S : i < j => s[i] # s[j]
            <4> SUFFICES ASSUME NEW i \in S, NEW j \in S, i < j
                         PROVE  s[i] # s[j]
                OBVIOUS
            <4>1. i \in 1..(j - 1)
                BY <1>2
            <4> QED  BY <1>5, <4>1
        <3>2. \A i, j \in S : i \in Nat /\ j \in Nat
            BY <1>2
        <3> QED  BY <3>1, <3>2
    <2> QED  BY <1>4, <2>1 DEF Legacy!IsInjective
<1>8. Legacy!ToSet(u) = Legacy!ToSet(s)
    <2>1. ASSUME NEW x \in Legacy!ToSet(s)
          PROVE  x \in Legacy!ToSet(u)
        <3> DEFINE I == {i \in DOMAIN s : s[i] = x}
        <3>1. I # {} /\ I \in SUBSET Nat
            BY <1>2, <2>1 DEF Legacy!ToSet
        <3>2. PICK i \in I : \A j \in I : i <= j
            BY <3>1, LeastNumber
        <3>3. i \in DOMAIN s /\ s[i] = x /\ i \in Nat
            BY <1>2, <3>2
        <3>4. \A j \in 1..(i - 1) : s[j] # s[i]
            <4> SUFFICES ASSUME NEW j \in 1..(i - 1), s[j] = x
                         PROVE  FALSE
                BY <3>3
            <4>1. j \in I /\ j < i /\ j \in Nat
                BY <1>2, <3>3
            <4> QED  BY <3>2, <3>3, <4>1
        <3>5. i \in S
            BY <1>6, <3>3, <3>4
        <3>6. PICK k \in DOMAIN u : at[k] = i
            BY <1>4, <3>5
        <3>7. u[k] = x
            BY <1>4, <3>3, <3>6
        <3> QED  BY <3>6, <3>7 DEF Legacy!ToSet
    <2>2. \A x \in Legacy!ToSet(u) : x \in Legacy!ToSet(s)
        BY <1>2, <1>4, <1>5 DEF Legacy!ToSet
    <2> QED  BY <2>1, <2>2
<1>9. ASSUME NEW n \in 0..Len(s), \A i, j \in 1..n : s[i] = s[j] => i = j
      PROVE  n <= Len(u) /\ \A k \in 1..n : u[k] = s[k]
    <2>1. \A i \in 1..n : i \in S
        <3> SUFFICES ASSUME NEW i \in 1..n, NEW j \in 1..(i - 1)
                     PROVE  s[j] # s[i]
            BY <1>2, <1>6
        <3>1. j \in 1..n /\ j # i
            BY <1>2
        <3> QED  BY <1>9, <3>1
    <2>2. Cardinality(1..n) = n /\ n \in Nat
        BY <1>2, ListInterval
    <2>3. n <= Len(u)
        <3>1. 1..n \in SUBSET S
            BY <2>1
        <3> QED  BY <1>3, <2>2, <3>1, FS_Subset
    <2>4. ASSUME NEW k \in 1..n
          PROVE  u[k] = s[k]
        <3>1. k \in S /\ k \in DOMAIN u
            BY <1>2, <1>3, <2>1, <2>3
        <3>2. Lower(S, k) = 1..(k - 1)
            BY <1>2, <2>1, <2>2 DEF Lower
        <3>3. Cardinality(1..(k - 1)) = k - 1
            <4>1. k - 1 \in Nat
                BY <2>2
            <4> QED  BY <4>1, ListInterval
        <3>4. at[k] = k
            BY <1>4, <3>1, <3>2, <3>3
        <3> QED  BY <1>4, <3>1, <3>4
    <2> QED  BY <2>3, <2>4
<1> QED  BY <1>1, <1>3, <1>7, <1>8, <1>9

-----------------------------------------------------------------------------
(* What a checkout is made into.                                            *)

\* An item of each article, of each topic and of each note, in that order.
LEMMA ImportItems ==
    ASSUME NEW src \in Sources
    PROVE  LET items == Legacy!Items(src) IN
           /\ Len(items) \in Nat /\ DOMAIN items = 1..Len(items)
           /\ \A k \in DOMAIN items :
                 \/ \E a \in Legacy!ToSet(src.articles) : items[k] = Legacy!ArticleItem(a)
                 \/ \E t \in Legacy!ToSet(src.topics) : items[k] = Legacy!TopicItem(src, t)
                 \/ \E n \in Legacy!ToSet(src.notes) : items[k] = Legacy!NoteItem(n)
           /\ \A t \in Legacy!ToSet(src.topics) : \E k \in DOMAIN items : items[k] = Legacy!TopicItem(src, t)
<1> DEFINE A == src.articles
           B == src.topics
           C == src.notes
           a == [i \in DOMAIN A |-> Legacy!ArticleItem(A[i])]
           b == [i \in DOMAIN B |-> Legacy!TopicItem(src, B[i])]
           c == [i \in DOMAIN C |-> Legacy!NoteItem(C[i])]
           Q == {a[i] : i \in DOMAIN A}
           R == {b[i] : i \in DOMAIN B}
           S == {c[i] : i \in DOMAIN C}
           items == Legacy!Items(src)
<1>1. A \in Seq(Legacy!ToSet(A)) /\ B \in Seq(Legacy!ToSet(B)) /\ C \in Seq(Legacy!ToSet(C))
    BY ImportAssumption, ImportLists
<1>2. items = (a \o b) \o c
    BY DEF Legacy!Items
<1> HIDE DEF A, B, C
<1>3. a \in Seq(Q) /\ Len(a) = Len(A) /\ DOMAIN A = 1..Len(A) /\ Len(A) \in Nat
    <2>1. Len(A) \in Nat /\ DOMAIN A = 1..Len(A)
        BY <1>1
    <2>2. a \in [1..Len(A) -> Q]
        BY <2>1
    <2> HIDE DEF a, Q
    <2> QED  BY <2>1, <2>2, SeqDef
<1>4. b \in Seq(R) /\ Len(b) = Len(B) /\ DOMAIN B = 1..Len(B) /\ Len(B) \in Nat
    <2>1. Len(B) \in Nat /\ DOMAIN B = 1..Len(B)
        BY <1>1
    <2>2. b \in [1..Len(B) -> R]
        BY <2>1
    <2> HIDE DEF b, R
    <2> QED  BY <2>1, <2>2, SeqDef
<1>5. c \in Seq(S) /\ Len(c) = Len(C) /\ DOMAIN C = 1..Len(C) /\ Len(C) \in Nat
    <2>1. Len(C) \in Nat /\ DOMAIN C = 1..Len(C)
        BY <1>1
    <2>2. c \in [1..Len(C) -> S]
        BY <2>1
    <2> HIDE DEF c, S
    <2> QED  BY <2>1, <2>2, SeqDef
<1>6. Q = {Legacy!ArticleItem(x) : x \in Legacy!ToSet(A)}
    BY DEF Legacy!ToSet
<1>7. R = {Legacy!TopicItem(src, x) : x \in Legacy!ToSet(B)}
    BY DEF Legacy!ToSet
<1>8. S = {Legacy!NoteItem(x) : x \in Legacy!ToSet(C)}
    BY DEF Legacy!ToSet
<1>9. \A i \in DOMAIN B : b[i] = Legacy!TopicItem(src, B[i])
    OBVIOUS
<1> HIDE DEF a, b, c, Q, R, S, items
<1> DEFINE X == Q \union R \union S
<1>10. a \in Seq(X) /\ b \in Seq(X) /\ c \in Seq(X)
    BY <1>3, <1>4, <1>5
<1>11. (a \o b) \in Seq(X) /\ Len(a \o b) = Len(A) + Len(B)
    BY <1>3, <1>4, <1>10
<1>12. items \in Seq(X) /\ Len(items) = Len(A) + Len(B) + Len(C)
    <2> DEFINE ab == a \o b
    <2>1. ab \in Seq(X) /\ c \in Seq(X) /\ Len(ab) = Len(A) + Len(B) /\ items = ab \o c
        BY <1>2, <1>10, <1>11
    <2> HIDE DEF ab, X
    <2>2. ab \o c \in Seq(X) /\ Len(ab \o c) = Len(ab) + Len(c)
        BY <2>1, ConcatProperties
    <2> QED  BY <1>5, <2>1, <2>2
<1>13. Len(items) \in Nat /\ DOMAIN items = 1..Len(items) /\ \A k \in DOMAIN items : items[k] \in X
    BY <1>12
<1>14. ASSUME NEW t \in Legacy!ToSet(B)
       PROVE  \E k \in DOMAIN items : items[k] = Legacy!TopicItem(src, t)
    <2>1. PICK i \in DOMAIN B : B[i] = t
        BY <1>14 DEF Legacy!ToSet
    <2>2. i \in 1..Len(B) /\ b[i] = Legacy!TopicItem(src, t)
        BY <1>4, <1>9, <2>1
    <2>3. Len(A) + i \in 1..Len(items) /\ Len(A) + i \in 1..Len(a \o b)
        BY <1>3, <1>4, <1>5, <1>11, <1>12, <2>2
    <2>4. (a \o b)[Len(A) + i] = b[i]
        BY <1>3, <1>4, <1>10, <2>2
    <2>5. items[Len(A) + i] = (a \o b)[Len(A) + i]
        BY <1>2, <1>10, <1>11, <2>3
    <2> QED  BY <1>13, <2>2, <2>3, <2>4, <2>5
<1>15. \A k \in DOMAIN items :
          \/ \E x \in Legacy!ToSet(A) : items[k] = Legacy!ArticleItem(x)
          \/ \E x \in Legacy!ToSet(B) : items[k] = Legacy!TopicItem(src, x)
          \/ \E x \in Legacy!ToSet(C) : items[k] = Legacy!NoteItem(x)
    BY <1>6, <1>7, <1>8, <1>13
<1> QED  BY <1>13, <1>14, <1>15 DEF items, A, B, C

\* What a topic lists: what is recommended, as it is, then the rest.
ImportTargets(src, t) ==
    LET rec == Legacy!Recommended(src, t)  all == Legacy!Targets(src, t) IN
    /\ Len(all) \in Nat /\ DOMAIN all = 1..Len(all) /\ Len(rec) \in 0..Len(all)
    /\ all = [k \in DOMAIN all |-> all[k]]
    /\ SubSeq(all, 1, Len(rec)) = rec
    /\ Legacy!IsInjective(all) /\ Legacy!ToSet(Legacy!Matched(src, t)) \subseteq Legacy!ToSet(all)

LEMMA ImportTopic ==
    ASSUME NEW src \in Sources, NEW t \in Legacy!ToSet(src.topics)
    PROVE  ImportTargets(src, t)
<1> DEFINE I == {i \in DOMAIN t.reading : t.reading[i] \in Legacy!Ids(src)}
           J == {i \in DOMAIN src.articles : src.articles[i].category = t.slug}
           of == Kept(src.articles, J)
           m == Legacy!Matched(src, t)
           rec == Legacy!Recommended(src, t)
           all == Legacy!Targets(src, t)
<1>1. /\ src.articles \in Seq(Legacy!ToSet(src.articles))
      /\ t.reading \in Seq(Legacy!ToSet(t.reading))
    BY ImportAssumption, ImportLists
<1>2. PICK T : Kept(t.reading, I) \in Seq(T)
    <2>1. I \in SUBSET DOMAIN t.reading
        OBVIOUS
    <2> HIDE DEF I
    <2> QED  BY <1>1, <2>1, KeptList
<1>3. rec \in Seq(T) /\ Legacy!IsInjective(rec)
    <2>1. rec = Legacy!Unique(Kept(t.reading, I))
        BY ImportListing, Zenon DEF Legacy!Recommended
    <2> QED  BY <1>2, <2>1, ImportUnique
<1>4. of \in Seq(Legacy!ToSet(src.articles))
    <2>1. J \in SUBSET DOMAIN src.articles
        OBVIOUS
    <2> HIDE DEF J
    <2> QED  BY <1>1, <2>1, KeptList
<1>5. m = [i \in DOMAIN of |-> of[i].id]
    BY ImportListing, Zenon DEF Legacy!Matched
<1> HIDE DEF of, I, J
<1> DEFINE M == {of[i].id : i \in DOMAIN of}
<1>6. m \in Seq(M)
    <2>1. Len(of) \in Nat /\ DOMAIN of = 1..Len(of)
        BY <1>4
    <2>2. m \in [1..Len(of) -> M]
        BY <1>5, <2>1
    <2> HIDE DEF m, M
    <2> QED  BY <2>1, <2>2, SeqDef
<1> HIDE DEF m, M
<1> DEFINE s == rec \o m
           X == T \union M
<1>7. rec \in Seq(X) /\ m \in Seq(X)
    BY <1>3, <1>6
<1>8. all = Legacy!Unique(s)
    BY DEF Legacy!Targets, m
<1> HIDE DEF all
<1>9. s \in Seq(X) /\ Len(s) = Len(rec) + Len(m) /\ Len(rec) \in Nat /\ Len(m) \in Nat
    BY <1>7
<1>10. \A i \in 1..Len(rec) : s[i] = rec[i]
    BY <1>7, <1>9
<1>11. \A i \in 1..Len(m) : s[Len(rec) + i] = m[i]
    BY <1>7, <1>9
<1> HIDE DEF s, X, rec
<1>12. /\ all \in Seq(X) /\ Legacy!IsInjective(all) /\ Legacy!ToSet(all) = Legacy!ToSet(s)
       /\ \A n \in 0..Len(s) : (\A i, j \in 1..n : s[i] = s[j] => i = j) =>
                 n <= Len(all) /\ \A k \in 1..n : all[k] = s[k]
    BY <1>8, <1>9, ImportUnique
<1>13. \A i, j \in 1..Len(rec) : s[i] = s[j] => i = j
    <2>1. DOMAIN rec = 1..Len(rec)
        BY <1>7
    <2> QED  BY <1>3, <1>10, <2>1 DEF Legacy!IsInjective
<1>14. Len(rec) <= Len(all) /\ \A k \in 1..Len(rec) : all[k] = rec[k]
    <2>1. Len(rec) \in 0..Len(s)
        BY <1>9
    <2> QED  BY <1>10, <1>12, <1>13, <2>1
<1>15. SubSeq(all, 1, Len(rec)) = rec
    <2> DEFINE u == SubSeq(all, 1, Len(rec))
    <2>1. Len(all) \in Nat
        BY <1>12
    <2>2. u \in Seq(X) /\ Len(u) = Len(rec) /\ \A k \in 1..Len(rec) : u[k] = all[k]
        BY <1>9, <1>12, <1>14, <2>1
    <2> HIDE DEF u
    <2>3. u = rec
        BY <1>7, <1>14, <2>2
    <2> QED  BY <2>3 DEF u
<1>16. Legacy!ToSet(m) \subseteq Legacy!ToSet(all)
    <2>1. ASSUME NEW x \in Legacy!ToSet(m)
          PROVE  x \in Legacy!ToSet(s)
        <3>1. PICK i \in DOMAIN m : m[i] = x
            BY <2>1 DEF Legacy!ToSet
        <3>2. i \in 1..Len(m) /\ Len(rec) + i \in DOMAIN s
            BY <1>7, <1>9, <3>1
        <3> QED  BY <1>11, <3>1, <3>2 DEF Legacy!ToSet
    <2> QED  BY <1>12, <2>1
<1>17. /\ Len(all) \in Nat /\ DOMAIN all = 1..Len(all) /\ Len(rec) \in 0..Len(all)
       /\ all = [k \in DOMAIN all |-> all[k]]
    BY <1>9, <1>12, <1>14
<1> QED  BY <1>12, <1>15, <1>16, <1>17 DEF ImportTargets, all, rec, m

\* Every image of the items that is not the site's own is downloaded.
ImportImages(src) == (UNION {Legacy!ToSet(Legacy!Items(src)[i].images) : i \in DOMAIN Legacy!Items(src)}) \ Owned

LEMMA ImportListed ==
    ASSUME NEW src \in Sources
    PROVE  \A k \in DOMAIN Legacy!Items(src) : IsList(Legacy!Items(src)[k].images)
<1> DEFINE items == Legacy!Items(src)
<1> SUFFICES ASSUME NEW k \in DOMAIN items
             PROVE  IsList(items[k].images)
    OBVIOUS
<1>1. \A x \in Legacy!ToSet(src.articles) \union Legacy!ToSet(src.topics) \union Legacy!ToSet(src.notes) : IsList(x.images)
    BY ImportAssumption
<1>2. \E x \in Legacy!ToSet(src.articles) \union Legacy!ToSet(src.topics) \union Legacy!ToSet(src.notes) :
          items[k].images = x.images
    <2>1. \/ \E a \in Legacy!ToSet(src.articles) : items[k] = Legacy!ArticleItem(a)
          \/ \E t \in Legacy!ToSet(src.topics) : items[k] = Legacy!TopicItem(src, t)
          \/ \E n \in Legacy!ToSet(src.notes) : items[k] = Legacy!NoteItem(n)
        BY ImportItems
    <2> HIDE DEF items
    <2> QED  BY <2>1 DEF Legacy!ArticleItem, Legacy!TopicItem, Legacy!NoteItem
<1> QED  BY <1>1, <1>2

LEMMA ImportFinite ==
    ASSUME NEW src \in Sources
    PROVE  IsFiniteSet(ImportImages(src))
<1> DEFINE items == Legacy!Items(src)
           F == {Legacy!ToSet(items[i].images) : i \in DOMAIN items}
<1>1. Len(items) \in Nat /\ DOMAIN items = 1..Len(items)
    BY ImportItems
<1>2. \A s : IsList(s) => IsFiniteSet(Legacy!ToSet(s))
    <2> SUFFICES ASSUME NEW s, IsList(s)
                 PROVE  IsFiniteSet(Legacy!ToSet(s))
        OBVIOUS
    <2>1. Len(s) \in Nat /\ s \in [1..Len(s) -> Legacy!ToSet(s)] /\ DOMAIN s = 1..Len(s)
        BY ImportLists
    <2>2. IsFiniteSet(1..Len(s))
        BY <2>1, ListInterval
    <2>3. s \in Surjection(1..Len(s), Legacy!ToSet(s))
        BY <2>1 DEF Surjection, Legacy!ToSet
    <2> QED  BY <2>2, <2>3, FS_Surjection
<1>3. \A S \in F : IsFiniteSet(S)
    BY <1>2, ImportListed
<1>4. IsFiniteSet(F)
    <2> DEFINE f == [i \in 1..Len(items) |-> Legacy!ToSet(items[i].images)]
    <2>1. f \in Surjection(1..Len(items), F)
        BY <1>1 DEF Surjection
    <2>2. IsFiniteSet(1..Len(items))
        BY <1>1, ListInterval
    <2> HIDE DEF f, F
    <2> QED  BY <2>1, <2>2, FS_Surjection
<1>5. IsFiniteSet(UNION F)
    BY <1>3, <1>4, FS_UNION
<1>6. ImportImages(src) \in SUBSET UNION F
    BY DEF ImportImages
<1> QED  BY <1>5, <1>6, FS_Subset

LEMMA ImportEveryImage ==
    ASSUME NEW src \in Sources
    PROVE  LET images == Legacy!Images(src) IN
           /\ Len(images) \in Nat /\ DOMAIN images = 1..Len(images)
           /\ \A x \in ImportImages(src) : \E k \in DOMAIN images : images[k] = x
<1> DEFINE S == ImportImages(src)
           n == Cardinality(S)
           images == Legacy!Images(src)
<1>1. IsFiniteSet(S) /\ n \in Nat /\ ExistsBijection(1..n, S)
    BY ImportFinite, FS_CardinalityType
<1>2. images = CHOOSE f \in [1..n -> S] : Legacy!IsInjective(f)
    BY ImportListing, Zenon DEF Legacy!Images, Legacy!SetToSeq, ImportImages
<1>3. \E f \in [1..n -> S] : Legacy!IsInjective(f)
    BY <1>1 DEF ExistsBijection, Bijection, Injection, IsInjective, Legacy!IsInjective
<1> HIDE DEF S, images
<1>4. images \in [1..n -> S] /\ Legacy!IsInjective(images)
    BY <1>2, <1>3
<1>5. images \in Injection(1..n, S)
    BY <1>4 DEF Injection, IsInjective, Legacy!IsInjective
<1>6. IsFiniteSet(1..n) /\ Cardinality(1..n) = n
    BY <1>1, ListInterval
<1>7. images \in Surjection(1..n, S)
    BY <1>1, <1>5, <1>6, FS_Injection
<1>8. images \in Seq(S) /\ Len(images) = n
    <2> HIDE DEF n
    <2> QED  BY <1>1, <1>4, SeqDef
<1>9. DOMAIN images = 1..n /\ \A x \in S : \E k \in 1..n : images[k] = x
    BY <1>7 DEF Surjection
<1> QED  BY <1>1, <1>8, <1>9 DEF S, images

-----------------------------------------------------------------------------
(* What is kept while the import is applied.                                *)

ImportFields == {"src", "db", "before", "pc", "at", "created", "runs"}
ImportTables == {"contents", "groups", "tags", "assets", "deleted"}
ImportColumns ==
    {"type", "slug", "path", "images", "tags", "entries", "recommended", "dates", "published"}

\* A content just created.
ImportBlank(c) ==
    /\ DOMAIN c = ImportColumns
    /\ c.slug = Legacy!NoText /\ c.images = <<>> /\ c.entries = <<>> /\ ~c.published

\* The content at i is what the item is made into: its images are the site's own and
\* its entries are published and in the item's order.
ImportIs(all, assets, i, item) ==
    /\ DOMAIN all[i] = ImportColumns
    /\ all[i].type = item.type /\ all[i].slug = item.slug /\ all[i].path = item.path
    /\ all[i].recommended = item.recommended
    /\ Legacy!ToSet(all[i].images) \subseteq Owned \union assets
    /\ DOMAIN all[i].entries = DOMAIN item.targets
    /\ \A k \in DOMAIN item.targets :
          LET e == all[i].entries[k] IN
          e \in DOMAIN all /\ all[e].published /\ all[e].slug = item.targets[k]

\* Whatever was there before is untouched, and what was added is an item or blank.
ImportSafe(src, before, all, assets) ==
    /\ src \in Sources /\ before \in Databases
    /\ IsList(all) /\ Len(before.contents) <= Len(all)
    /\ \A i \in 1..Len(before.contents) : all[i] = before.contents[i]
    /\ Legacy!Apart(all, Len(before.contents))
    /\ Len(before.contents) < Len(all) => Legacy!Sound(src)
    /\ \A i \in (Len(before.contents) + 1)..Len(all) :
          \/ ImportBlank(all[i])
          \/ \E k \in DOMAIN Legacy!Items(src) : ImportIs(all, assets, i, Legacy!Items(src)[k])

\* The plan is one to apply.
ImportReady(src) ==
    LET items == Legacy!Items(src) IN
    /\ Legacy!Sound(src)
    /\ \A k, l \in DOMAIN items : Legacy!Key(items[k]) = Legacy!Key(items[l]) => k = l
    /\ \A k \in DOMAIN items : \A t \in Legacy!ToSet(items[k].targets) :
          \E l \in 1..(k - 1) : Legacy!Key(items[l]) = <<"curated_article", t>>

\* The contents before this run have nothing in common with its items.
ImportFresh(src, before, all, base) ==
    /\ base \in Nat /\ Len(before.contents) <= base /\ base <= Len(all)
    /\ \A i \in 1..base : \A k \in DOMAIN Legacy!Items(src) :
          /\ Legacy!Key(all[i]) # Legacy!Key(Legacy!Items(src)[k])
          /\ all[i].published => all[i].path # Legacy!Items(src)[k].path

\* After them are the first n items, published.
ImportMade(src, before, all, assets, base, n) ==
    /\ ImportReady(src) /\ ImportFresh(src, before, all, base)
    /\ n \in 0..Len(Legacy!Items(src)) /\ base + n <= Len(all)
    /\ \A k \in 1..n : all[base + k].published /\ ImportIs(all, assets, base + k, Legacy!Items(src)[k])

\* The identities of the first n items, made after base.
ImportKeys(items, base, n) == {<<Legacy!Key(items[k]), base + k>> : k \in 1..n}

ImportMaking(b, base) ==
    LET all == b.db.contents  items == Legacy!Items(b.src)  new == all[Len(all)] IN
    /\ b.at \in Nat /\ b.at >= 1 /\ ImportMade(b.src, b.before, all, b.db.assets, base, b.at - 1)
    /\ b.created = ImportKeys(items, base, b.at - 1)
    /\ b.pc = "create" => Len(all) = base + b.at - 1
    /\ b.pc \in {"save", "publish"} => Len(all) = base + b.at /\ b.at <= Len(items)
    /\ b.pc = "save" => ImportBlank(new) /\ new.type = items[b.at].type
    /\ b.pc = "publish" => ~new.published /\ ImportIs(all, b.db.assets, Len(all), items[b.at])

ImportPhase(b) ==
    LET all == b.db.contents  items == Legacy!Items(b.src)  images == Legacy!Images(b.src) IN
    /\ b.pc \in {"download", "upload", "groups", "tags"} =>
          b.created = {} /\ ImportReady(b.src) /\ ImportFresh(b.src, b.before, all, Len(all))
    /\ b.pc = "upload" => b.at \in Nat /\ b.at >= 1 /\ \A k \in DOMAIN images : k < b.at => BytesOf[images[k]] \in b.db.assets
    /\ b.pc \in {"groups", "tags", "create", "save", "publish"} => \A x \in ImportImages(b.src) : BytesOf[x] \in b.db.assets
    /\ b.pc \in {"create", "save", "publish"} => \E base \in 0..Len(all) : ImportMaking(b, base)
    /\ b.pc = "done" => \E base \in 0..Len(all) :
          base + Len(items) = Len(all) /\ ImportMade(b.src, b.before, all, b.db.assets, base, Len(items))

ImportGood(b) ==
    /\ DOMAIN b = ImportFields /\ DOMAIN b.db = ImportTables
    /\ ImportSafe(b.src, b.before, b.db.contents, b.db.assets) /\ ImportPhase(b)

-----------------------------------------------------------------------------
(* What a change of the last content leaves.                                *)

\* The content at i of one list is in all but its state the one of the other.
ImportAlike(all, to, i) ==
    /\ DOMAIN to[i] = DOMAIN all[i]
    /\ to[i].type = all[i].type /\ to[i].slug = all[i].slug /\ to[i].path = all[i].path
    /\ to[i].recommended = all[i].recommended /\ to[i].images = all[i].images
    /\ to[i].entries = all[i].entries

\* What is published stays as it is.
ImportStays(all, to) ==
    /\ DOMAIN all \subseteq DOMAIN to
    /\ \A e \in DOMAIN all : all[e].published => to[e] = all[e]

LEMMA ImportIsKept ==
    ASSUME NEW all, NEW to, ImportStays(all, to), NEW assets, NEW more, assets \subseteq more,
           NEW i, ImportAlike(all, to, i), NEW item, ImportIs(all, assets, i, item)
    PROVE  ImportIs(to, more, i, item)
<1>1. /\ DOMAIN to[i] = ImportColumns
      /\ to[i].type = item.type /\ to[i].slug = item.slug /\ to[i].path = item.path
      /\ to[i].recommended = item.recommended /\ to[i].images = all[i].images
      /\ to[i].entries = all[i].entries
    BY DEF ImportAlike, ImportIs
<1>2. Legacy!ToSet(to[i].images) \subseteq Owned \union more
    BY <1>1 DEF ImportIs
<1>3. DOMAIN to[i].entries = DOMAIN item.targets
    BY <1>1 DEF ImportIs
<1>4. ASSUME NEW k \in DOMAIN item.targets
      PROVE  LET e == to[i].entries[k] IN e \in DOMAIN to /\ to[e].published /\ to[e].slug = item.targets[k]
    <2> DEFINE e == all[i].entries[k]
    <2>1. e \in DOMAIN all /\ all[e].published /\ all[e].slug = item.targets[k]
        BY DEF ImportIs
    <2>2. to[e] = all[e] /\ e \in DOMAIN to
        BY <2>1 DEF ImportStays
    <2> QED  BY <1>1, <2>1, <2>2
<1> QED  BY <1>1, <1>2, <1>3, <1>4 DEF ImportIs

LEMMA ImportAssets ==
    ASSUME NEW src, NEW before, NEW all, NEW assets, NEW more, assets \subseteq more,
           ImportSafe(src, before, all, assets)
    PROVE  ImportSafe(src, before, all, more)
<1>1. ImportStays(all, all) /\ \A i : ImportAlike(all, all, i)
    BY DEF ImportStays, ImportAlike
<1>2. \A i, item : ImportIs(all, assets, i, item) => ImportIs(all, more, i, item)
    BY <1>1, ImportIsKept
<1> QED  BY <1>2 DEF ImportSafe

\* One content is new or has changed: the last, which was not published.
ImportLast(all, to, m) ==
    /\ m \in Nat /\ IsList(all) /\ IsList(to)
    /\ Len(to) = m + 1 /\ m <= Len(all) /\ Len(all) <= m + 1
    /\ \A i \in 1..m : to[i] = all[i]
    /\ Len(all) = m + 1 => ~all[m + 1].published

LEMMA ImportLastKeeps ==
    ASSUME NEW all, NEW to, NEW m, ImportLast(all, to, m)
    PROVE  /\ ImportStays(all, to)
           /\ Len(all) \in Nat /\ DOMAIN all = 1..Len(all) /\ DOMAIN to = 1..(m + 1)
           /\ \A i \in 1..m : \A assets, item : ImportIs(all, assets, i, item) => ImportIs(to, assets, i, item)
<1>1. Len(all) \in Nat /\ DOMAIN all = 1..Len(all) /\ DOMAIN to = 1..(m + 1) /\ m \in Nat
    BY DEF ImportLast, IsList
<1>2. ImportStays(all, to)
    <2>1. m <= Len(all) /\ Len(all) <= m + 1 /\ \A i \in 1..m : to[i] = all[i]
        BY DEF ImportLast
    <2> DEFINE n == Len(all)
    <2>2. \A e \in 1..n : e \in 1..(m + 1) /\ (e \in 1..m \/ (e = m + 1 /\ n = m + 1))
        <3>1. n \in Nat /\ m \in Nat /\ m <= n /\ n <= m + 1
            BY <1>1, <2>1
        <3> HIDE DEF n
        <3> QED  BY <3>1
    <2>3. Len(all) = m + 1 => ~all[m + 1].published
        BY DEF ImportLast
    <2> QED  BY <1>1, <2>1, <2>2, <2>3, ZenonT(30) DEF ImportStays
<1>3. \A i \in 1..m : ImportAlike(all, to, i)
    BY DEF ImportLast, ImportAlike
<1> QED  BY <1>1, <1>2, <1>3, ImportIsKept

LEMMA ImportSafeKept ==
    ASSUME NEW src, NEW before, NEW all, NEW to, NEW m, NEW assets,
           ImportSafe(src, before, all, assets), ImportLast(all, to, m),
           Len(before.contents) <= m, Legacy!Sound(src),
           \/ ImportBlank(to[m + 1])
           \/ \E k \in DOMAIN Legacy!Items(src) : ImportIs(to, assets, m + 1, Legacy!Items(src)[k]),
           \A i \in 1..m : to[m + 1].slug # Legacy!NoText => Legacy!Key(all[i]) # Legacy!Key(to[m + 1]),
           \A i \in 1..m : all[i].published /\ to[m + 1].published => all[i].path # to[m + 1].path
    PROVE  ImportSafe(src, before, to, assets)
<1> DEFINE L == Len(before.contents)
           Fits(list, i) ==
              \/ ImportBlank(list[i])
              \/ \E k \in DOMAIN Legacy!Items(src) : ImportIs(list, assets, i, Legacy!Items(src)[k])
<1>1. /\ m \in Nat /\ Len(all) \in Nat /\ DOMAIN all = 1..Len(all) /\ DOMAIN to = 1..(m + 1)
      /\ Len(to) = m + 1 /\ m <= Len(all) /\ IsList(to) /\ \A i \in 1..m : to[i] = all[i]
    BY ImportLastKeeps DEF ImportLast
<1>2. L \in Nat
    <2>1. before \in Databases
        BY DEF ImportSafe
    <2>2. IsList(before.contents)
        BY <2>1, ImportAssumption
    <2> QED  BY <2>2 DEF IsList
<1>3. \A i \in 1..L : to[i] = before.contents[i]
    BY <1>1, <1>2 DEF ImportSafe
<1>4. Legacy!Apart(to, L)
    <2>1. \A i, j \in 1..m : i # j =>
              /\ to[i].slug # Legacy!NoText /\ j > L => Legacy!Key(to[i]) # Legacy!Key(to[j])
              /\ to[i].published /\ to[j].published => to[i].path # to[j].path
        BY <1>1 DEF ImportSafe, Legacy!Apart
    <2>2. \A i \in 1..m :
              /\ to[i].slug # Legacy!NoText => Legacy!Key(to[i]) # Legacy!Key(to[m + 1])
              /\ to[m + 1].slug # Legacy!NoText => Legacy!Key(to[m + 1]) # Legacy!Key(to[i])
              /\ to[i].published /\ to[m + 1].published => to[i].path # to[m + 1].path
        BY <1>1 DEF Legacy!Key
    <2>3. \A i \in DOMAIN to : i \in 1..m \/ i = m + 1
        BY <1>1
    <2> QED  BY <2>1, <2>2, <2>3 DEF Legacy!Apart
<1>5. \A i \in (L + 1)..(m + 1) : Fits(to, i)
    <2>1. \A i \in (L + 1)..m : Fits(all, i)
        BY <1>1, <1>2 DEF ImportSafe
    <2>2. \A i \in (L + 1)..m : i \in 1..m
        BY <1>1, <1>2
    <2>3. \A i \in 1..m : Fits(all, i) => Fits(to, i)
        BY <1>1, ImportLastKeeps
    <2>4. \A i \in (L + 1)..(m + 1) : i \in (L + 1)..m \/ i = m + 1
        BY <1>1, <1>2
    <2> QED  BY <2>1, <2>2, <2>3, <2>4
<1> QED  BY <1>1, <1>2, <1>3, <1>4, <1>5 DEF ImportSafe

LEMMA ImportMadeKept ==
    ASSUME NEW src, NEW before, NEW all, NEW to, NEW m, NEW assets, NEW base, NEW n,
           ImportLast(all, to, m), ImportMade(src, before, all, assets, base, n),
           base + n <= m, src \in Sources
    PROVE  ImportMade(src, before, to, assets, base, n)
<1>1. /\ m \in Nat /\ Len(to) = m + 1 /\ m <= Len(all) /\ Len(all) \in Nat /\ \A i \in 1..m : to[i] = all[i]
    BY ImportLastKeeps DEF ImportLast
<1>2. base \in Nat /\ n \in Nat
    BY ImportItems DEF ImportMade, ImportFresh
<1>3. ImportFresh(src, before, to, base)
    <2>1. \A i \in 1..base : to[i] = all[i]
        BY <1>1, <1>2
    <2>2. base <= Len(to)
        BY <1>1, <1>2
    <2> QED  BY <2>1, <2>2 DEF ImportMade, ImportFresh
<1>4. ASSUME NEW k \in 1..n
      PROVE  to[base + k].published /\ ImportIs(to, assets, base + k, Legacy!Items(src)[k])
    <2>1. base + k \in 1..m
        BY <1>1, <1>2
    <2>2. all[base + k].published /\ ImportIs(all, assets, base + k, Legacy!Items(src)[k])
        BY DEF ImportMade
    <2> QED  BY <1>1, <2>1, <2>2, ImportLastKeeps
<1>5. base + n <= Len(to)
    BY <1>1, <1>2
<1> QED  BY <1>3, <1>4, <1>5 DEF ImportMade
-----------------------------------------------------------------------------
(* The steps.                                                               *)

LEMMA ImportTo ==
    ASSUME NEW b, DOMAIN b = ImportFields, NEW pc
    PROVE  LET c == Legacy!To(b, pc) IN
           /\ DOMAIN c = ImportFields /\ c.pc = pc /\ c.at = 1
           /\ c.src = b.src /\ c.db = b.db /\ c.before = b.before /\ c.created = b.created
BY DEF Legacy!To, ImportFields

\* Where nothing is promised but that nothing is harmed.
LEMMA ImportStopped ==
    ASSUME NEW b, ImportGood(b), NEW pc \in {"refused", "failed"}
    PROVE  ImportGood(Legacy!To(b, pc))
BY ImportTo DEF ImportGood, ImportPhase

LEMMA ImportPreflight ==
    ASSUME NEW src \in Sources, NEW before, NEW db, NEW assets, ImportSafe(src, before, db.contents, assets),
           Legacy!Sound(src), Legacy!Preflight(src, db)
    PROVE  ImportReady(src) /\ ImportFresh(src, before, db.contents, Len(db.contents))
<1> DEFINE items == Legacy!Items(src)
           keys == [i \in DOMAIN items |-> Legacy!Key(items[i])]
           all == db.contents
           own == {Legacy!Key(all[k]) : k \in DOMAIN all}
           paths == {all[k].path : k \in {k \in DOMAIN all : all[k].published}}
<1>1. /\ Legacy!IsInjective(keys)
      /\ \A i \in DOMAIN items :
            /\ keys[i] \notin own /\ items[i].path \notin paths
            /\ \A t \in Legacy!ToSet(items[i].targets) : \E j \in 1..(i - 1) : keys[j] = <<"curated_article", t>>
    BY DEF Legacy!Preflight
<1>2. Len(items) \in Nat /\ DOMAIN items = 1..Len(items)
    BY ImportItems
<1>3. Len(all) \in Nat /\ DOMAIN all = 1..Len(all) /\ Len(before.contents) <= Len(all)
    BY DEF ImportSafe, IsList
<1>4. \A i \in DOMAIN items : keys[i] = Legacy!Key(items[i])
    OBVIOUS
<1>5. DOMAIN keys = DOMAIN items
    OBVIOUS
<1> HIDE DEF items, keys, all
<1>6. \A k, l \in DOMAIN items : Legacy!Key(items[k]) = Legacy!Key(items[l]) => k = l
    BY <1>1, <1>4, <1>5 DEF Legacy!IsInjective
<1>7. \A k \in DOMAIN items : \A t \in Legacy!ToSet(items[k].targets) :
          \E l \in 1..(k - 1) : Legacy!Key(items[l]) = <<"curated_article", t>>
    <2> SUFFICES ASSUME NEW k \in DOMAIN items, NEW t \in Legacy!ToSet(items[k].targets)
                 PROVE  \E l \in 1..(k - 1) : Legacy!Key(items[l]) = <<"curated_article", t>>
        OBVIOUS
    <2>1. PICK l \in 1..(k - 1) : keys[l] = <<"curated_article", t>>
        BY <1>1
    <2>2. l \in DOMAIN items
        BY <1>2
    <2> QED  BY <1>4, <2>1, <2>2
<1>8. \A i \in 1..Len(all) : \A k \in DOMAIN items :
          /\ Legacy!Key(all[i]) # Legacy!Key(items[k])
          /\ all[i].published => all[i].path # items[k].path
    BY <1>1, <1>3, <1>4
<1> QED  BY <1>3, <1>6, <1>7, <1>8 DEF ImportReady, ImportFresh, items, all

LEMMA ImportRuns ==
    ASSUME ImportGood(state), Legacy!Run
    PROVE  ImportGood(state')
<1> DEFINE b == [Legacy!To(state, "download") EXCEPT !.runs = @ + 1, !.created = {}]
<1>1. CASE Legacy!Sound(state.src) /\ Legacy!Preflight(state.src, state.db)
    <2>1. state' = b
        BY <1>1 DEF Legacy!Run
    <2>2. DOMAIN Legacy!To(state, "download") = ImportFields
        BY ImportTo DEF ImportGood
    <2>3. /\ DOMAIN b = ImportFields /\ b.pc = "download" /\ b.created = {}
          /\ b.src = state.src /\ b.db = state.db /\ b.before = state.before
        BY <2>2, ImportTo DEF ImportFields, ImportGood
    <2> HIDE DEF b
    <2>4. /\ ImportSafe(state.src, state.before, state.db.contents, state.db.assets) /\ state.src \in Sources
          /\ DOMAIN state.db = ImportTables
        BY DEF ImportGood, ImportSafe
    <2>5. ImportReady(state.src) /\ ImportFresh(state.src, state.before, state.db.contents, Len(state.db.contents))
        BY <1>1, <2>4, ImportPreflight
    <2>6. ImportPhase(b)
        BY <2>3, <2>5 DEF ImportPhase
    <2> QED  BY <2>1, <2>3, <2>4, <2>6 DEF ImportGood
<1>2. CASE ~(Legacy!Sound(state.src) /\ Legacy!Preflight(state.src, state.db))
    <2>1. state' = Legacy!To(b, "refused")
        BY <1>2 DEF Legacy!Run
    <2>2. DOMAIN Legacy!To(state, "download") = ImportFields
        BY ImportTo DEF ImportGood
    <2>3. DOMAIN b = ImportFields /\ b.src = state.src /\ b.db = state.db /\ b.before = state.before
        BY <2>2, ImportTo DEF ImportFields, ImportGood
    <2> HIDE DEF b
    <2>4. /\ DOMAIN state' = ImportFields /\ state'.pc = "refused"
          /\ state'.src = state.src /\ state'.db = state.db /\ state'.before = state.before
        BY <2>1, <2>3, ImportTo
    <2> QED  BY <2>4 DEF ImportGood, ImportPhase
<1> QED  BY <1>1, <1>2

LEMMA ImportDownloads ==
    ASSUME ImportGood(state), Legacy!Download
    PROVE  ImportGood(state')
<1>1. state.pc = "download" /\ state' = Legacy!To(state, "upload") /\ DOMAIN state = ImportFields
    BY DEF Legacy!Download, ImportGood
<1>2. /\ DOMAIN state' = ImportFields /\ state'.pc = "upload" /\ state'.at = 1
      /\ state'.src = state.src /\ state'.db = state.db /\ state'.before = state.before
      /\ state'.created = state.created
    BY <1>1, ImportTo
<1>3. state.src \in Sources
    BY DEF ImportGood, ImportSafe
<1>4. \A k \in DOMAIN Legacy!Images(state.src) : ~(k < 1)
    BY <1>3, ImportEveryImage
<1>5. /\ state.created = {} /\ ImportReady(state.src)
      /\ ImportFresh(state.src, state.before, state.db.contents, Len(state.db.contents))
    BY <1>1 DEF ImportGood, ImportPhase
<1>6. ImportPhase(state')
    BY <1>2, <1>4, <1>5 DEF ImportPhase
<1> QED  BY <1>2, <1>6 DEF ImportGood
LEMMA ImportUploads ==
    ASSUME ImportGood(state), Legacy!Upload
    PROVE  ImportGood(state')
<1> DEFINE images == Legacy!Images(state.src)
           all == state.db.contents
           one == BytesOf[images[state.at]]
<1>1. /\ DOMAIN state = ImportFields /\ DOMAIN state.db = ImportTables /\ state.pc = "upload"
      /\ state.src \in Sources /\ ImportSafe(state.src, state.before, all, state.db.assets)
    BY DEF Legacy!Upload, ImportGood, ImportSafe
<1>2. /\ state.created = {} /\ ImportReady(state.src) /\ ImportFresh(state.src, state.before, all, Len(all))
      /\ state.at \in Nat /\ state.at >= 1
      /\ \A k \in DOMAIN images : k < state.at => BytesOf[images[k]] \in state.db.assets
    BY <1>1 DEF ImportGood, ImportPhase
<1>3. /\ Len(images) \in Nat /\ DOMAIN images = 1..Len(images)
      /\ \A x \in ImportImages(state.src) : \E k \in DOMAIN images : images[k] = x
    BY <1>1, ImportEveryImage
<1>4. CASE state.at > Len(images)
    <2>1. state' = Legacy!To(state, "groups")
        BY <1>4 DEF Legacy!Upload
    <2>2. /\ DOMAIN state' = ImportFields /\ state'.pc = "groups"
          /\ state'.src = state.src /\ state'.db = state.db /\ state'.before = state.before
          /\ state'.created = state.created
        BY <1>1, <2>1, ImportTo
    <2> HIDE DEF images
    <2>3. \A k \in DOMAIN images : k < state.at
        BY <1>2, <1>3, <1>4
    <2>4. \A x \in ImportImages(state.src) : BytesOf[x] \in state.db.assets
        BY <1>2, <1>3, <2>3
    <2>5. ImportPhase(state')
        BY <1>2, <2>2, <2>4 DEF ImportPhase
    <2> QED  BY <1>1, <2>2, <2>5 DEF ImportGood
<1>5. CASE ~(state.at > Len(images)) /\ one \in state.db.deleted
    <2>1. state' = Legacy!To(state, "failed")
        BY <1>5 DEF Legacy!Upload
    <2> QED  BY <2>1, ImportStopped
<1>6. CASE ~(state.at > Len(images)) /\ one \notin state.db.deleted
    <2>1. state' = [state EXCEPT !.at = @ + 1, !.db.assets = @ \union {one}]
        BY <1>6 DEF Legacy!Upload
    <2> HIDE DEF images, one
    <2>2. /\ DOMAIN state' = ImportFields /\ state'.pc = "upload" /\ state'.at = state.at + 1
          /\ state'.src = state.src /\ state'.before = state.before /\ state'.created = state.created
        BY <1>1, <2>1 DEF ImportFields
    <2>3. state'.db = [state.db EXCEPT !.assets = @ \union {one}]
        BY <1>1, <2>1 DEF ImportFields
    <2>4. DOMAIN state'.db = ImportTables /\ state'.db.contents = all /\ state'.db.assets = state.db.assets \union {one}
        BY <1>1, <2>3 DEF ImportTables
    <2>5. ImportSafe(state'.src, state'.before, state'.db.contents, state'.db.assets)
        BY <1>1, <2>2, <2>4, ImportAssets
    <2>6. \A k \in DOMAIN images : k < state.at + 1 => BytesOf[images[k]] \in state'.db.assets
        <3> SUFFICES ASSUME NEW k \in DOMAIN images, k < state.at + 1
                     PROVE  BytesOf[images[k]] \in state'.db.assets
            OBVIOUS
        <3>1. k < state.at \/ k = state.at
            BY <1>2, <1>3
        <3> QED  BY <1>2, <2>4, <3>1 DEF one
    <2>7. state'.at \in Nat /\ state'.at >= 1
        BY <1>2, <2>2
    <2>8. ImportPhase(state')
        BY <1>2, <2>2, <2>4, <2>6, <2>7 DEF ImportPhase, images
    <2> QED  BY <2>2, <2>4, <2>5, <2>8 DEF ImportGood
<1> QED  BY <1>4, <1>5, <1>6

LEMMA ImportGroups ==
    ASSUME ImportGood(state), Legacy!PutGroup
    PROVE  ImportGood(state')
<1> DEFINE all == state.db.contents
           one == Legacy!NoteItem(state.src.notes[state.at]).note
<1>1. /\ DOMAIN state = ImportFields /\ DOMAIN state.db = ImportTables /\ state.pc = "groups"
      /\ ImportSafe(state.src, state.before, all, state.db.assets)
    BY DEF Legacy!PutGroup, ImportGood
<1>2. /\ state.created = {} /\ ImportReady(state.src) /\ ImportFresh(state.src, state.before, all, Len(all))
      /\ \A x \in ImportImages(state.src) : BytesOf[x] \in state.db.assets
    BY <1>1 DEF ImportGood, ImportPhase
<1>3. CASE state.at > Len(state.src.notes)
    <2>1. state' = Legacy!To(state, "tags")
        BY <1>3 DEF Legacy!PutGroup
    <2>2. /\ DOMAIN state' = ImportFields /\ state'.pc = "tags"
          /\ state'.src = state.src /\ state'.db = state.db /\ state'.before = state.before
          /\ state'.created = state.created
        BY <1>1, <2>1, ImportTo
    <2>3. ImportPhase(state')
        BY <1>2, <2>2 DEF ImportPhase
    <2> QED  BY <1>1, <2>2, <2>3 DEF ImportGood
<1>4. CASE ~(state.at > Len(state.src.notes))
    <2>1. state' = [state EXCEPT !.at = @ + 1, !.db.groups = @ \union {one}]
        BY <1>4 DEF Legacy!PutGroup
    <2> HIDE DEF one
    <2>2. /\ DOMAIN state' = ImportFields /\ state'.pc = "groups"
          /\ state'.src = state.src /\ state'.before = state.before /\ state'.created = state.created
        BY <1>1, <2>1 DEF ImportFields
    <2>3. state'.db = [state.db EXCEPT !.groups = @ \union {one}]
        BY <1>1, <2>1 DEF ImportFields
    <2>4. DOMAIN state'.db = ImportTables /\ state'.db.contents = all /\ state'.db.assets = state.db.assets
        BY <1>1, <2>3 DEF ImportTables
    <2>5. ImportPhase(state')
        BY <1>2, <2>2, <2>4 DEF ImportPhase
    <2> QED  BY <1>1, <2>2, <2>4, <2>5 DEF ImportGood
<1> QED  BY <1>3, <1>4

LEMMA ImportBegins ==
    ASSUME NEW src \in Sources, NEW before, NEW all, NEW assets, Len(all) \in Nat, ImportReady(src),
           ImportFresh(src, before, all, Len(all))
    PROVE  ImportMade(src, before, all, assets, Len(all), 0)
BY ImportItems DEF ImportMade

LEMMA ImportTags ==
    ASSUME ImportGood(state), Legacy!PutTag
    PROVE  ImportGood(state')
<1> DEFINE all == state.db.contents
           one == Legacy!Tags(state.src)[state.at]
<1>1. /\ DOMAIN state = ImportFields /\ DOMAIN state.db = ImportTables /\ state.pc = "tags"
      /\ ImportSafe(state.src, state.before, all, state.db.assets) /\ state.src \in Sources
    BY DEF Legacy!PutTag, ImportGood, ImportSafe
<1>2. /\ state.created = {} /\ ImportReady(state.src) /\ ImportFresh(state.src, state.before, all, Len(all))
      /\ \A x \in ImportImages(state.src) : BytesOf[x] \in state.db.assets
    BY <1>1 DEF ImportGood, ImportPhase
<1>3. CASE state.at > Len(Legacy!Tags(state.src))
    <2>1. state' = Legacy!To(state, "create")
        BY <1>3 DEF Legacy!PutTag
    <2>2. /\ DOMAIN state' = ImportFields /\ state'.pc = "create" /\ state'.at = 1
          /\ state'.src = state.src /\ state'.db = state.db /\ state'.before = state.before
          /\ state'.created = state.created
        BY <1>1, <2>1, ImportTo
    <2>3. Len(all) \in Nat
        BY <1>1 DEF ImportSafe, IsList
    <2>4. ImportMade(state.src, state.before, all, state.db.assets, Len(all), 0)
        BY <1>1, <1>2, <2>3, ImportBegins
    <2>5. state'.created = ImportKeys(Legacy!Items(state.src), Len(all), state'.at - 1)
        <3>1. 1..(1 - 1) = {}
            OBVIOUS
        <3> QED  BY <1>2, <2>2, <3>1 DEF ImportKeys
    <2>6. ImportMaking(state', Len(all))
        <3>1. 1 - 1 = 0 /\ Len(all) = Len(all) + 1 - 1 /\ 1 \in Nat /\ 1 >= 1
            BY <2>3
        <3> QED  BY <2>2, <2>4, <2>5, <3>1 DEF ImportMaking
    <2>7. Len(all) \in 0..Len(all)
        BY <2>3
    <2>8. ImportPhase(state')
        BY <1>2, <2>2, <2>6, <2>7 DEF ImportPhase
    <2> QED  BY <1>1, <2>2, <2>8 DEF ImportGood
<1>4. CASE ~(state.at > Len(Legacy!Tags(state.src)))
    <2>1. state' = [state EXCEPT !.at = @ + 1, !.db.tags = @ \union {one}]
        BY <1>4 DEF Legacy!PutTag
    <2> HIDE DEF one
    <2>2. /\ DOMAIN state' = ImportFields /\ state'.pc = "tags"
          /\ state'.src = state.src /\ state'.before = state.before /\ state'.created = state.created
        BY <1>1, <2>1 DEF ImportFields
    <2>3. state'.db = [state.db EXCEPT !.tags = @ \union {one}]
        BY <1>1, <2>1 DEF ImportFields
    <2>4. DOMAIN state'.db = ImportTables /\ state'.db.contents = all /\ state'.db.assets = state.db.assets
        BY <1>1, <2>3 DEF ImportTables
    <2>5. ImportPhase(state')
        BY <1>2, <2>2, <2>4 DEF ImportPhase
    <2> QED  BY <1>1, <2>2, <2>4, <2>5 DEF ImportGood
<1> QED  BY <1>3, <1>4
-----------------------------------------------------------------------------
(* An item is made: created, saved and published.                           *)

LEMMA ImportIsList ==
    ASSUME NEW T, NEW s \in Seq(T)
    PROVE  IsList(s)
<1> DEFINE S == {s[i] : i \in DOMAIN s}
<1>1. Len(s) \in Nat /\ DOMAIN s = 1..Len(s) /\ s = [i \in 1..Len(s) |-> s[i]]
    OBVIOUS
<1>2. s \in [1..Len(s) -> S]
    BY <1>1
<1> HIDE DEF S
<1>3. s \in Seq(S)
    BY <1>1, <1>2, SeqDef
<1> QED  BY <1>3 DEF IsList, S

LEMMA ImportAppended ==
    ASSUME NEW all, IsList(all), NEW c
    PROVE  LET to == Append(all, c) IN ImportLast(all, to, Len(all)) /\ to[Len(all) + 1] = c
<1> DEFINE T == {all[i] : i \in DOMAIN all}
           to == Append(all, c)
<1>1. all \in Seq(T)
    BY DEF IsList
<1> HIDE DEF T
<1>2. /\ to \in Seq(T \union {c}) /\ Len(to) = Len(all) + 1 /\ Len(all) \in Nat /\ to[Len(all) + 1] = c
      /\ \A i \in 1..Len(all) : to[i] = all[i]
    <2>1. all \in Seq(T \union {c}) /\ c \in T \union {c}
        BY <1>1
    <2> QED  BY <2>1
<1>3. IsList(to)
    BY <1>2, ImportIsList
<1> HIDE DEF to
<1>4. Len(all) <= Len(all) + 1 /\ ~(Len(all) = Len(all) + 1)
    BY <1>2
<1>5. ImportLast(all, to, Len(all))
    BY <1>2, <1>3, <1>4 DEF ImportLast
<1> QED  BY <1>2, <1>5 DEF to

LEMMA ImportReplaced ==
    ASSUME NEW all, IsList(all), NEW m \in Nat, Len(all) = m + 1, ~all[m + 1].published, NEW c
    PROVE  LET to == [all EXCEPT ![m + 1] = c] IN ImportLast(all, to, m) /\ to[m + 1] = c
<1> DEFINE T == {all[i] : i \in DOMAIN all}
           to == [all EXCEPT ![m + 1] = c]
<1>1. all \in Seq(T)
    BY DEF IsList
<1> HIDE DEF T
<1>2. m + 1 \in DOMAIN all
    BY <1>1
<1>3. to \in Seq(T \union {c}) /\ Len(to) = m + 1 /\ to[m + 1] = c /\ \A i \in 1..m : to[i] = all[i]
    <2>1. all \in Seq(T \union {c}) /\ c \in T \union {c}
        BY <1>1
    <2>2. \A i \in 1..m : i \in DOMAIN all /\ i # m + 1
        BY <1>1
    <2> QED  BY <1>2, <2>1, <2>2
<1>4. IsList(to)
    BY <1>3, ImportIsList
<1> HIDE DEF to
<1>5. ImportLast(all, to, m)
    BY <1>3, <1>4 DEF ImportLast
<1> QED  BY <1>3, <1>5 DEF to

\* While an item is made, what holds of the list of contents.
LEMMA ImportBase ==
    ASSUME ImportGood(state), state.pc \in {"create", "save", "publish"}
    PROVE  LET all == state.db.contents  items == Legacy!Items(state.src) IN
           /\ DOMAIN state = ImportFields /\ DOMAIN state.db = ImportTables
           /\ state.src \in Sources /\ ImportSafe(state.src, state.before, all, state.db.assets)
           /\ IsList(all) /\ Len(all) \in Nat
           /\ Len(items) \in Nat /\ DOMAIN items = 1..Len(items)
           /\ ImportReady(state.src) /\ Legacy!Sound(state.src) /\ Len(state.before.contents) \in Nat
           /\ \A x \in ImportImages(state.src) : BytesOf[x] \in state.db.assets
           /\ \E base \in 0..Len(all) : ImportMaking(state, base) /\ Len(state.before.contents) <= base
<1>1. /\ DOMAIN state = ImportFields /\ DOMAIN state.db = ImportTables
      /\ ImportSafe(state.src, state.before, state.db.contents, state.db.assets) /\ ImportPhase(state)
    BY DEF ImportGood
<1>2. /\ state.src \in Sources /\ state.before \in Databases /\ IsList(state.db.contents)
      /\ Len(state.db.contents) \in Nat
    BY <1>1 DEF ImportSafe, IsList
<1>3. Len(state.before.contents) \in Nat
    <2>1. IsList(state.before.contents)
        BY <1>2, ImportAssumption
    <2> QED  BY <2>1 DEF IsList
<1>4. PICK base \in 0..Len(state.db.contents) : ImportMaking(state, base)
    BY <1>1 DEF ImportPhase
<1>5. ImportMade(state.src, state.before, state.db.contents, state.db.assets, base, state.at - 1)
    BY <1>4 DEF ImportMaking
<1>6. ImportReady(state.src) /\ Len(state.before.contents) <= base
    BY <1>5 DEF ImportMade, ImportFresh
<1>7. Legacy!Sound(state.src)
    BY <1>6 DEF ImportReady
<1>8. \A x \in ImportImages(state.src) : BytesOf[x] \in state.db.assets
    BY <1>1 DEF ImportPhase
<1> QED  BY <1>1, <1>2, <1>3, <1>4, <1>6, <1>7, <1>8, ImportItems

LEMMA ImportCreates ==
    ASSUME ImportGood(state), Legacy!Create
    PROVE  ImportGood(state')
<1> DEFINE all == state.db.contents
           items == Legacy!Items(state.src)
           assets == state.db.assets
<1>0. state.pc = "create"
    BY DEF Legacy!Create
<1>1. /\ DOMAIN state = ImportFields /\ DOMAIN state.db = ImportTables
      /\ state.src \in Sources /\ ImportSafe(state.src, state.before, all, assets)
      /\ IsList(all) /\ Len(all) \in Nat
      /\ Len(items) \in Nat /\ DOMAIN items = 1..Len(items)
      /\ ImportReady(state.src) /\ Legacy!Sound(state.src) /\ Len(state.before.contents) \in Nat
      /\ \A x \in ImportImages(state.src) : BytesOf[x] \in assets
    BY <1>0, ImportBase
<1>2. PICK base \in 0..Len(all) : ImportMaking(state, base) /\ Len(state.before.contents) <= base
    BY <1>0, ImportBase
<1>3. /\ state.at \in Nat /\ state.at >= 1 /\ Len(all) = base + state.at - 1
      /\ ImportMade(state.src, state.before, all, assets, base, state.at - 1)
      /\ state.created = ImportKeys(items, base, state.at - 1)
    BY <1>0, <1>2 DEF ImportMaking
<1>4. state.at - 1 \in 0..Len(items)
    BY <1>3 DEF ImportMade
<1>5. CASE state.at > Len(items)
    <2>1. state' = Legacy!To(state, "done")
        BY <1>5 DEF Legacy!Create
    <2>2. /\ DOMAIN state' = ImportFields /\ state'.pc = "done"
          /\ state'.src = state.src /\ state'.db = state.db /\ state'.before = state.before
        BY <1>1, <2>1, ImportTo
    <2> HIDE DEF items
    <2>3. state.at - 1 = Len(items) /\ base + Len(items) = Len(all)
        BY <1>1, <1>3, <1>4, <1>5
    <2>4. ImportMade(state.src, state.before, all, assets, base, Len(items))
        BY <1>3, <2>3
    <2>5. ImportPhase(state')
        BY <2>2, <2>3, <2>4 DEF ImportPhase, items
    <2> QED  BY <1>1, <2>2, <2>5 DEF ImportGood
<1>6. CASE ~(state.at > Len(items))
    <2> DEFINE blank == [type |-> Legacy!Item.type, slug |-> Legacy!NoText, path |-> <<>>, images |-> <<>>, tags |-> {},
                         entries |-> <<>>, recommended |-> 0, dates |-> <<>>, published |-> FALSE]
               to == Append(all, blank)
               n == Len(all)
    <2>1. state' = [state EXCEPT !.pc = "save", !.db.contents = Append(@, blank)]
        BY <1>6 DEF Legacy!Create
    <2>2. ImportBlank(blank) /\ blank.type = items[state.at].type
        BY DEF ImportBlank, ImportColumns, Legacy!Item
    <2> HIDE DEF blank, items
    <2>3. /\ DOMAIN state' = ImportFields /\ state'.pc = "save" /\ state'.at = state.at
          /\ state'.src = state.src /\ state'.before = state.before /\ state'.created = state.created
          /\ state'.db = [state.db EXCEPT !.contents = Append(@, blank)]
        BY <1>1, <2>1 DEF ImportFields
    <2>4. DOMAIN state'.db = ImportTables /\ state'.db.contents = to /\ state'.db.assets = assets
        BY <1>1, <2>3 DEF ImportTables
    <2>5. ImportLast(all, to, n) /\ to[n + 1] = blank
        BY <1>1, ImportAppended
    <2> HIDE DEF to
    <2>6. blank.slug = Legacy!NoText /\ ~blank.published
        BY <2>2 DEF ImportBlank
    <2>7. Len(state.before.contents) <= n
        BY <1>1, <1>2
    <2>8. ImportSafe(state.src, state.before, to, assets)
        BY <1>1, <2>2, <2>5, <2>6, <2>7, ImportSafeKept
    <2>9. base + (state.at - 1) <= n /\ Len(to) = base + state.at /\ state.at <= Len(items) /\ base \in 0..Len(to)
        <3>1. Len(to) = n + 1
            BY <2>5 DEF ImportLast
        <3> QED  BY <1>1, <1>2, <1>3, <1>6, <3>1
    <2>10. ImportMade(state.src, state.before, to, assets, base, state.at - 1)
        BY <1>1, <1>3, <2>5, <2>9, ImportMadeKept
    <2>11. Len(to) = n + 1
        BY <2>5 DEF ImportLast
    <2>12. ImportMaking(state', base)
        <3>1. to[Len(to)] = blank
            BY <2>5, <2>11
        <3>2. /\ state'.pc = "save" /\ state'.at = state.at /\ state'.src = state.src /\ state'.before = state.before
              /\ state'.created = state.created /\ state'.db.contents = to /\ state'.db.assets = assets
            BY <2>3, <2>4
        <3> HIDE DEF all, assets, n
        <3> QED  BY <1>3, <2>2, <2>9, <2>10, <3>1, <3>2 DEF ImportMaking, items
    <2>13. ImportPhase(state')
        BY <1>1, <2>3, <2>4, <2>9, <2>12 DEF ImportPhase
    <2> QED  BY <2>3, <2>4, <2>8, <2>13 DEF ImportGood
<1> QED  BY <1>5, <1>6
\* The identity created for an article.
ImportFound(all, created, t) == CHOOSE id \in DOMAIN all : <<<<"curated_article", t>>, id>> \in created

\* The item that has the key is made: its place is the one the identity is found at.
LEMMA ImportIdentity ==
    ASSUME NEW src \in Sources, NEW before, NEW all, NEW assets, NEW base, NEW at \in Nat, Len(all) \in Nat,
           ImportMade(src, before, all, assets, base, at - 1), at \in DOMAIN Legacy!Items(src),
           DOMAIN all = 1..Len(all),
           NEW created, created = ImportKeys(Legacy!Items(src), base, at - 1)
    PROVE  \A t \in Legacy!ToSet(Legacy!Items(src)[at].targets) : LET id == ImportFound(all, created, t) IN
           id \in 1..(base + at - 1) /\ all[id].published /\ all[id].slug = t
<1> SUFFICES ASSUME NEW t \in Legacy!ToSet(Legacy!Items(src)[at].targets)
             PROVE  LET id == ImportFound(all, created, t) IN
                    id \in 1..(base + at - 1) /\ all[id].published /\ all[id].slug = t
    OBVIOUS
<1> DEFINE items == Legacy!Items(src)
           P(id) == <<<<"curated_article", t>>, id>> \in created
           id == ImportFound(all, created, t)
<1>1. /\ base \in Nat /\ at - 1 \in 0..Len(items) /\ base + (at - 1) <= Len(all)
      /\ \A k \in 1..(at - 1) : all[base + k].published /\ ImportIs(all, assets, base + k, items[k])
    BY DEF ImportMade, ImportFresh
<1>2. PICK l \in 1..(at - 1) : Legacy!Key(items[l]) = <<"curated_article", t>>
    BY DEF ImportMade, ImportReady
<1>3. base + l \in DOMAIN all /\ P(base + l)
    BY <1>1, <1>2 DEF ImportKeys
<1>4. id \in DOMAIN all /\ P(id)
    <2>1. id = CHOOSE x \in DOMAIN all : P(x)
        BY DEF ImportFound
    <2> HIDE DEF P, id
    <2> QED  BY <1>3, <2>1
<1> HIDE DEF id, items
<1>5. PICK k \in 1..(at - 1) : <<Legacy!Key(items[k]), base + k>> = <<<<"curated_article", t>>, id>>
    BY <1>4 DEF P, items, ImportKeys
<1>6. Legacy!Key(items[k]) = <<"curated_article", t>> /\ id = base + k
    BY <1>5
<1>7. items[k].slug = t
    BY <1>6 DEF Legacy!Key
<1>8. all[id].published /\ all[id].slug = t
    BY <1>1, <1>6, <1>7 DEF ImportIs
<1>9. id \in 1..(base + at - 1)
    BY <1>1, <1>6
<1> QED  BY <1>8, <1>9 DEF id, P

\* The body with the images it has now.
LEMMA ImportRewritten ==
    ASSUME NEW images, IsList(images), NEW assets,
           \A x \in Legacy!ToSet(images) \ Owned : BytesOf[x] \in assets
    PROVE  Legacy!ToSet([k \in DOMAIN images |-> IF images[k] \in Owned THEN images[k] ELSE BytesOf[images[k]]])
              \subseteq Owned \union assets
BY DEF Legacy!ToSet

\* What is made has no identity or address that is there before.
LEMMA ImportNew ==
    ASSUME NEW src \in Sources, NEW before, NEW all, NEW assets, NEW base, NEW at \in Nat,
           ImportMade(src, before, all, assets, base, at - 1), at \in DOMAIN Legacy!Items(src)
    PROVE  \A i \in 1..(base + at - 1) :
              /\ Legacy!Key(all[i]) # Legacy!Key(Legacy!Items(src)[at])
              /\ all[i].published => all[i].path # Legacy!Items(src)[at].path
<1> DEFINE items == Legacy!Items(src)
<1>1. /\ base \in Nat /\ at - 1 \in 0..Len(items) /\ Len(items) \in Nat /\ DOMAIN items = 1..Len(items)
      /\ \A k \in 1..(at - 1) : ImportIs(all, assets, base + k, items[k])
    BY ImportItems DEF ImportMade, ImportFresh
<1>2. \A i \in 1..base :
          /\ Legacy!Key(all[i]) # Legacy!Key(items[at])
          /\ all[i].published => all[i].path # items[at].path
    BY DEF ImportMade, ImportFresh
<1>3. /\ \A k, l \in DOMAIN items : Legacy!Key(items[k]) = Legacy!Key(items[l]) => k = l
      /\ \A k, l \in DOMAIN items : items[k].path = items[l].path => k = l
    BY DEF ImportMade, ImportReady, Legacy!Sound
<1> HIDE DEF items
<1>4. ASSUME NEW k \in 1..(at - 1)
      PROVE  /\ Legacy!Key(all[base + k]) # Legacy!Key(items[at])
             /\ all[base + k].path # items[at].path
    <2>1. k \in DOMAIN items /\ k # at /\ at \in DOMAIN items
        BY <1>1 DEF items
    <2>2. all[base + k].type = items[k].type /\ all[base + k].slug = items[k].slug /\ all[base + k].path = items[k].path
        BY <1>1 DEF ImportIs
    <2>3. Legacy!Key(all[base + k]) = Legacy!Key(items[k])
        BY <2>2 DEF Legacy!Key
    <2> QED  BY <1>3, <2>1, <2>2, <2>3
<1>5. \A i \in 1..(base + at - 1) : i \in 1..base \/ (i - base \in 1..(at - 1) /\ i = base + (i - base))
    BY <1>1
<1> QED  BY <1>2, <1>4, <1>5 DEF items

LEMMA ImportSaves ==
    ASSUME ImportGood(state), Legacy!Save
    PROVE  ImportGood(state')
<1> DEFINE all == state.db.contents
           items == Legacy!Items(state.src)
           item == items[state.at]
           assets == state.db.assets
           images == [k \in DOMAIN item.images |-> IF item.images[k] \in Owned THEN item.images[k]
                                                   ELSE BytesOf[item.images[k]]]
           entries == [k \in DOMAIN item.targets |-> ImportFound(all, state.created, item.targets[k])]
           n == Len(all)
           c == [all[n] EXCEPT !.slug = item.slug, !.path = item.path, !.tags = item.tags,
                    !.images = images, !.recommended = item.recommended, !.dates = item.dates,
                    !.entries = entries]
<1>0. state.pc = "save"
    BY DEF Legacy!Save
<1>1. /\ DOMAIN state = ImportFields /\ DOMAIN state.db = ImportTables
      /\ state.src \in Sources /\ ImportSafe(state.src, state.before, all, assets)
      /\ IsList(all) /\ n \in Nat
      /\ Len(items) \in Nat /\ DOMAIN items = 1..Len(items)
      /\ ImportReady(state.src) /\ Legacy!Sound(state.src) /\ Len(state.before.contents) \in Nat
      /\ \A x \in ImportImages(state.src) : BytesOf[x] \in assets
    BY <1>0, ImportBase
<1>2. PICK base \in 0..n : ImportMaking(state, base) /\ Len(state.before.contents) <= base
    BY <1>0, ImportBase
<1>3. /\ state.at \in Nat /\ state.at >= 1 /\ n = base + state.at /\ state.at <= Len(items)
      /\ ImportMade(state.src, state.before, all, assets, base, state.at - 1)
      /\ state.created = ImportKeys(items, base, state.at - 1)
      /\ ImportBlank(all[n]) /\ all[n].type = item.type
    BY <1>0, <1>2 DEF ImportMaking
<1>4. state' = [state EXCEPT !.pc = "publish", !.db.contents[n] = c]
    BY DEF Legacy!Save, Legacy!Item, Legacy!Newest, ImportFound
<1>5. /\ DOMAIN c = ImportColumns /\ c.type = item.type /\ c.slug = item.slug /\ c.path = item.path
      /\ c.images = images /\ c.recommended = item.recommended /\ c.entries = entries /\ ~c.published
    BY <1>3 DEF ImportBlank, ImportColumns
<1> HIDE DEF c
<1> DEFINE to == [all EXCEPT ![n] = c]
<1>6. /\ DOMAIN state' = ImportFields /\ state'.pc = "publish" /\ state'.at = state.at
      /\ state'.src = state.src /\ state'.before = state.before /\ state'.created = state.created
      /\ state'.db = [state.db EXCEPT !.contents = to]
    BY <1>1, <1>4 DEF ImportFields
<1> HIDE DEF to
<1>7. DOMAIN state'.db = ImportTables /\ state'.db.contents = to /\ state'.db.assets = assets
    BY <1>1, <1>6 DEF ImportTables
<1> DEFINE m == base + state.at - 1
<1>8. /\ m \in Nat /\ n = m + 1 /\ state.at \in DOMAIN items /\ base \in Nat /\ DOMAIN all = 1..n
      /\ Len(state.before.contents) <= m /\ base + (state.at - 1) <= m
    <2>1. DOMAIN all = 1..n
        BY <1>1 DEF IsList
    <2> HIDE DEF items, n
    <2> QED  BY <1>1, <1>2, <1>3, <2>1
<1> HIDE DEF m
<1>9. ImportLast(all, to, m) /\ to[m + 1] = c
    <2>1. Len(all) = m + 1 /\ ~all[m + 1].published
        BY <1>3, <1>8 DEF ImportBlank
    <2>2. to = [all EXCEPT ![m + 1] = c]
        BY <1>8 DEF to
    <2> HIDE DEF all
    <2> QED  BY <1>1, <1>8, <2>1, <2>2, ImportReplaced
<1>10. Legacy!ToSet(images) \subseteq Owned \union assets
    <2>1. IsList(item.images)
        BY <1>1, <1>8, ImportListed
    <2>2. \A x \in Legacy!ToSet(item.images) \ Owned : BytesOf[x] \in assets
        BY <1>1, <1>8 DEF ImportImages
    <2> HIDE DEF item, assets
    <2> QED  BY <2>1, <2>2, ImportRewritten
<1>11. ASSUME NEW k \in DOMAIN item.targets
       PROVE  LET e == entries[k] IN e \in 1..m /\ all[e].published /\ all[e].slug = item.targets[k]
    <2> DEFINE t == item.targets[k]
    <2>1. t \in Legacy!ToSet(item.targets)
        BY DEF Legacy!ToSet
    <2> DEFINE id == ImportFound(all, state.created, t)
    <2>2. /\ state.src \in Sources /\ state.at \in Nat /\ n \in Nat /\ state.at \in DOMAIN items /\ DOMAIN all = 1..n
          /\ ImportMade(state.src, state.before, all, assets, base, state.at - 1)
          /\ state.created = ImportKeys(items, base, state.at - 1)
          /\ t \in Legacy!ToSet(items[state.at].targets)
        BY <1>1, <1>3, <1>8, <2>1
    <2>3. id \in 1..m /\ all[id].published /\ all[id].slug = t
        <3> DEFINE list == Legacy!ToSet(items[state.at].targets)
                   made == state.created
        <3> HIDE DEF all, assets, t, made
        <3>1. made = ImportKeys(items, base, state.at - 1)
            BY <2>2 DEF made
        <3>2. \A x \in list : LET e == ImportFound(all, made, x) IN
                 e \in 1..(base + state.at - 1) /\ all[e].published /\ all[e].slug = x
            BY <2>2, <3>1, ImportIdentity
        <3> QED  BY <2>2, <3>2 DEF m, made
    <2> QED  BY <2>3, ZenonT(30)
<1>12. DOMAIN entries = DOMAIN item.targets
    OBVIOUS
<1> HIDE DEF item, images, entries, items, all, n, assets
<1>13. /\ Len(to) = m + 1 /\ DOMAIN to = 1..(m + 1) /\ \A i \in 1..m : to[i] = all[i] /\ i \in DOMAIN to
    BY <1>8, <1>9, ImportLastKeeps DEF ImportLast
<1>14. ImportIs(to, assets, m + 1, item)
    <2>1. ASSUME NEW k \in DOMAIN item.targets
          PROVE  LET e == to[m + 1].entries[k] IN e \in DOMAIN to /\ to[e].published /\ to[e].slug = item.targets[k]
        <3>1. to[m + 1].entries[k] = entries[k]
            BY <1>5, <1>9
        <3>2. entries[k] \in 1..m /\ all[entries[k]].published /\ all[entries[k]].slug = item.targets[k]
            BY <1>11
        <3> DEFINE e == entries[k]
        <3>3. e \in DOMAIN to /\ to[e] = all[e]
            BY <1>13, <3>2
        <3> QED  BY <3>1, <3>2, <3>3
    <2> QED  BY <1>5, <1>9, <1>10, <1>12, <2>1 DEF ImportIs
<1>15. \A i \in 1..m : Legacy!Key(all[i]) # Legacy!Key(c)
    <2>1. \A i \in 1..m : Legacy!Key(all[i]) # Legacy!Key(item)
        <3>1. /\ state.src \in Sources /\ state.at \in Nat /\ state.at \in DOMAIN items
              /\ ImportMade(state.src, state.before, all, assets, base, state.at - 1)
            BY <1>1, <1>3, <1>8
        <3> QED  BY <3>1, ImportNew DEF m, item, items
    <2>2. Legacy!Key(c) = Legacy!Key(item)
        BY <1>5 DEF Legacy!Key
    <2> QED  BY <2>1, <2>2
<1>16. ImportSafe(state.src, state.before, to, assets)
    <2>1. \E k \in DOMAIN Legacy!Items(state.src) : ImportIs(to, assets, m + 1, Legacy!Items(state.src)[k])
        BY <1>8, <1>14 DEF item, items
    <2>2. ImportSafe(state.src, state.before, all, assets) /\ Legacy!Sound(state.src) /\ ~to[m + 1].published
        BY <1>1, <1>5, <1>9
    <2> QED  BY <1>8, <1>9, <1>15, <2>1, <2>2, ImportSafeKept
<1>17. ImportMade(state.src, state.before, to, assets, base, state.at - 1)
    BY <1>1, <1>3, <1>8, <1>9, ImportMadeKept
<1>18. /\ base \in 0..Len(to) /\ Len(to) = base + state.at /\ to[Len(to)] = c /\ Len(to) = m + 1
    BY <1>3, <1>8, <1>9, <1>13
<1>19. ImportMaking(state', base)
    <2>1. ~c.published /\ ImportIs(to, assets, Len(to), item)
        BY <1>5, <1>14, <1>18
    <2> QED  BY <1>3, <1>6, <1>7, <1>17, <1>18, <2>1 DEF ImportMaking, items, item
<1>20. ImportPhase(state')
    BY <1>1, <1>6, <1>7, <1>18, <1>19 DEF ImportPhase
<1>21. ImportSafe(state'.src, state'.before, state'.db.contents, state'.db.assets)
    BY <1>6, <1>7, <1>16
<1> QED  BY <1>6, <1>7, <1>20, <1>21 DEF ImportGood
LEMMA ImportPublishes ==
    ASSUME ImportGood(state), Legacy!Publish
    PROVE  ImportGood(state')
<1> DEFINE all == state.db.contents
           items == Legacy!Items(state.src)
           item == items[state.at]
           assets == state.db.assets
           n == Len(all)
           c == [all[n] EXCEPT !.published = TRUE]
           one == <<Legacy!Key(item), n>>
<1>0. state.pc = "publish"
    BY DEF Legacy!Publish
<1>1. /\ DOMAIN state = ImportFields /\ DOMAIN state.db = ImportTables
      /\ state.src \in Sources /\ ImportSafe(state.src, state.before, all, assets)
      /\ IsList(all) /\ n \in Nat
      /\ Len(items) \in Nat /\ DOMAIN items = 1..Len(items)
      /\ ImportReady(state.src) /\ Legacy!Sound(state.src) /\ Len(state.before.contents) \in Nat
      /\ \A x \in ImportImages(state.src) : BytesOf[x] \in assets
    BY <1>0, ImportBase
<1>2. PICK base \in 0..n : ImportMaking(state, base) /\ Len(state.before.contents) <= base
    BY <1>0, ImportBase
<1>3. /\ state.at \in Nat /\ state.at >= 1 /\ n = base + state.at /\ state.at <= Len(items)
      /\ ImportMade(state.src, state.before, all, assets, base, state.at - 1)
      /\ state.created = ImportKeys(items, base, state.at - 1)
      /\ ~all[n].published /\ ImportIs(all, assets, n, item)
    BY <1>0, <1>2 DEF ImportMaking
<1>4. state' = [state EXCEPT !.pc = "create", !.at = @ + 1, !.created = @ \union {one},
                             !.db.contents[n].published = TRUE]
    BY DEF Legacy!Publish, Legacy!Item, Legacy!Newest
<1>5. /\ DOMAIN c = ImportColumns /\ c.type = item.type /\ c.slug = item.slug /\ c.path = item.path /\ c.published
      /\ c.images = all[n].images /\ c.recommended = all[n].recommended /\ c.entries = all[n].entries
      /\ c.type = all[n].type /\ c.slug = all[n].slug /\ c.path = all[n].path /\ DOMAIN all[n] = ImportColumns
    BY <1>3 DEF ImportIs, ImportColumns
<1> DEFINE to == [all EXCEPT ![n] = c]
<1>6. /\ DOMAIN state' = ImportFields /\ state'.pc = "create" /\ state'.at = state.at + 1
      /\ state'.src = state.src /\ state'.before = state.before
      /\ state'.created = state.created \union {one}
    <2> HIDE DEF one
    <2> QED  BY <1>1, <1>4 DEF ImportFields
<1>7. state'.db = [state.db EXCEPT !.contents = to]
    BY <1>1, <1>4 DEF ImportFields
<1> HIDE DEF c, to
<1>8. DOMAIN state'.db = ImportTables /\ state'.db.contents = to /\ state'.db.assets = assets
    BY <1>1, <1>7 DEF ImportTables
<1> DEFINE m == base + state.at - 1
<1>9. /\ m \in Nat /\ n = m + 1 /\ state.at \in DOMAIN items /\ base \in Nat /\ DOMAIN all = 1..n
      /\ Len(state.before.contents) <= m /\ base + (state.at - 1) <= m
    <2>1. DOMAIN all = 1..n
        BY <1>1 DEF IsList
    <2> HIDE DEF items, n
    <2> QED  BY <1>1, <1>2, <1>3, <2>1
<1> HIDE DEF m
<1>10. ImportLast(all, to, m) /\ to[m + 1] = c
    <2>1. Len(all) = m + 1 /\ ~all[m + 1].published
        BY <1>3, <1>9
    <2>2. to = [all EXCEPT ![m + 1] = c]
        BY <1>9 DEF to
    <2> HIDE DEF all
    <2> QED  BY <1>1, <1>9, <2>1, <2>2, ImportReplaced
<1>11. ImportIs(to, assets, m + 1, item)
    <2>1. ImportAlike(all, to, m + 1)
        BY <1>5, <1>9, <1>10 DEF ImportAlike
    <2>2. ImportStays(all, to) /\ ImportIs(all, assets, m + 1, item)
        BY <1>3, <1>9, <1>10, ImportLastKeeps
    <2> HIDE DEF all, assets, item
    <2> QED  BY <2>1, <2>2, ImportIsKept
<1> HIDE DEF item, items, all, n, assets
<1>12. \A i \in 1..m : Legacy!Key(all[i]) # Legacy!Key(c) /\ (all[i].published => all[i].path # c.path)
    <2>1. \A i \in 1..m : Legacy!Key(all[i]) # Legacy!Key(item) /\ (all[i].published => all[i].path # item.path)
        <3>1. /\ state.src \in Sources /\ state.at \in Nat /\ state.at \in DOMAIN items
              /\ ImportMade(state.src, state.before, all, assets, base, state.at - 1)
            BY <1>1, <1>3, <1>9
        <3> QED  BY <3>1, ImportNew DEF m, item, items
    <2>2. Legacy!Key(c) = Legacy!Key(item) /\ c.path = item.path
        BY <1>5 DEF Legacy!Key
    <2> QED  BY <2>1, <2>2
<1>13. ImportSafe(state.src, state.before, to, assets)
    <2>1. \E k \in DOMAIN Legacy!Items(state.src) : ImportIs(to, assets, m + 1, Legacy!Items(state.src)[k])
        BY <1>9, <1>11 DEF item, items
    <2>2. ImportSafe(state.src, state.before, all, assets) /\ Legacy!Sound(state.src)
        BY <1>1
    <2> QED  BY <1>9, <1>10, <1>12, <2>1, <2>2, ImportSafeKept
<1>14. ImportMade(state.src, state.before, to, assets, base, state.at - 1)
    BY <1>1, <1>3, <1>9, <1>10, ImportMadeKept
<1>15. /\ Len(to) = m + 1 /\ m + 1 = base + state.at /\ base \in 0..Len(to) /\ Len(to) = base + (state.at + 1) - 1
    <2>1. Len(to) = m + 1
        BY <1>10 DEF ImportLast
    <2> QED  BY <1>3, <1>9, <2>1
<1>16. ImportMade(state.src, state.before, to, assets, base, state.at)
    <2>1. \A k \in 1..(state.at - 1) : to[base + k].published /\ ImportIs(to, assets, base + k, items[k])
        BY <1>14 DEF ImportMade, items
    <2>2. to[base + state.at].published /\ ImportIs(to, assets, base + state.at, items[state.at])
        BY <1>5, <1>10, <1>11, <1>15 DEF item
    <2>3. \A k \in 1..state.at : k \in 1..(state.at - 1) \/ k = state.at
        BY <1>3
    <2>4. \A k \in 1..state.at : to[base + k].published /\ ImportIs(to, assets, base + k, items[k])
        BY <2>1, <2>2, <2>3
    <2>5. state.at \in 0..Len(items) /\ base + state.at <= Len(to)
        BY <1>1, <1>3, <1>9, <1>15
    <2> QED  BY <1>14, <2>4, <2>5 DEF ImportMade, items
<1>17. state'.created = ImportKeys(items, base, state.at)
    <2>1. 1..state.at = 1..(state.at - 1) \union {state.at}
        BY <1>3
    <2>2. one = <<Legacy!Key(items[state.at]), base + state.at>>
        BY <1>9, <1>15 DEF item
    <2>3. ImportKeys(items, base, state.at) = ImportKeys(items, base, state.at - 1) \union {one}
        BY <2>1, <2>2, Zenon DEF ImportKeys
    <2> HIDE DEF one
    <2> QED  BY <1>3, <1>6, <2>3
<1>18. ImportMaking(state', base)
    <2>1. state'.at - 1 = state.at /\ state'.at \in Nat /\ state'.at >= 1
        BY <1>3, <1>6
    <2>2. Len(to) = base + state'.at - 1
        BY <1>6, <1>15
    <2> QED  BY <1>6, <1>8, <1>16, <1>17, <2>1, <2>2 DEF ImportMaking, items
<1>19. ImportPhase(state')
    BY <1>1, <1>6, <1>8, <1>15, <1>18 DEF ImportPhase
<1>20. ImportSafe(state'.src, state'.before, state'.db.contents, state'.db.assets)
    BY <1>6, <1>8, <1>13
<1> QED  BY <1>6, <1>8, <1>19, <1>20 DEF ImportGood

LEMMA ImportInit ==
    ASSUME Legacy!Init
    PROVE  ImportGood(state)
<1>1. PICK src \in Sources, db \in Databases :
          state = [src |-> src, db |-> db, before |-> db, pc |-> "idle", at |-> 1, created |-> {}, runs |-> 0]
    BY DEF Legacy!Init
<1>2. /\ DOMAIN state = ImportFields /\ state.src = src /\ state.db = db /\ state.before = db /\ state.pc = "idle"
    BY <1>1 DEF ImportFields
<1>3. DOMAIN db = ImportTables /\ IsList(db.contents) /\ Legacy!Apart(db.contents, Len(db.contents))
    BY ImportAssumption DEF ImportTables
<1>4. Len(db.contents) \in Nat
    BY <1>3 DEF IsList
<1>5. ImportSafe(src, db, db.contents, db.assets)
    BY <1>3, <1>4 DEF ImportSafe
<1>6. ImportPhase(state)
    BY <1>2 DEF ImportPhase
<1> QED  BY <1>2, <1>3, <1>5, <1>6 DEF ImportGood

LEMMA ImportStep ==
    ASSUME ImportGood(state), Legacy!Next
    PROVE  ImportGood(state')
<1>1. ASSUME Legacy!Fails
      PROVE  ImportGood(state')
    BY <1>1, ImportStopped DEF Legacy!Fails
<1> QED  BY <1>1, ImportRuns, ImportDownloads, ImportUploads, ImportGroups, ImportTags, ImportCreates, ImportSaves,
            ImportPublishes DEF Legacy!Next

-----------------------------------------------------------------------------
(* What that says of the site.                                              *)

\* The item that has a topic's identity is the topic's.
LEMMA ImportTopicOf ==
    ASSUME NEW src \in Sources, Legacy!Sound(src), NEW t \in Legacy!ToSet(src.topics),
           NEW k \in DOMAIN Legacy!Items(src), Legacy!Items(src)[k].type = "topic", Legacy!Items(src)[k].slug = t.slug
    PROVE  Legacy!Items(src)[k] = Legacy!TopicItem(src, t)
<1> DEFINE items == Legacy!Items(src)
<1>1. PICK l \in DOMAIN items : items[l] = Legacy!TopicItem(src, t)
    BY ImportItems
<1>2. \/ \E a \in Legacy!ToSet(src.articles) : items[k] = Legacy!ArticleItem(a)
      \/ \E u \in Legacy!ToSet(src.topics) : items[k] = Legacy!TopicItem(src, u)
      \/ \E n \in Legacy!ToSet(src.notes) : items[k] = Legacy!NoteItem(n)
    BY ImportItems
<1>3. \A i, j \in DOMAIN items : items[i].path = items[j].path => i = j
    BY DEF Legacy!Sound
<1> HIDE DEF items
<1>4. items[k].type = "topic" /\ items[k].slug = t.slug
    BY DEF items
<1>5. PICK u \in Legacy!ToSet(src.topics) : items[k] = Legacy!TopicItem(src, u)
    <2>1. \A a : Legacy!ArticleItem(a).type = "curated_article"
        BY DEF Legacy!ArticleItem
    <2>2. \A n : Legacy!NoteItem(n).type = "note"
        BY DEF Legacy!NoteItem
    <2> QED  BY <1>2, <1>4, <2>1, <2>2
<1>6. \A v : Legacy!TopicItem(src, v).slug = v.slug /\ Legacy!TopicItem(src, v).path = <<"topics", v.slug>>
    BY DEF Legacy!TopicItem
<1>7. items[k].path = items[l].path
    <2>1. items[k].slug = u.slug /\ items[k].path = <<"topics", u.slug>>
        BY <1>5, <1>6
    <2>2. items[l].path = <<"topics", t.slug>>
        BY <1>1, <1>6
    <2> QED  BY <1>4, <2>1, <2>2
<1>8. k = l
    BY <1>3, <1>7 DEF items
<1> QED  BY <1>1, <1>8 DEF items

LEMMA ImportShows ==
    ASSUME ImportGood(state)
    PROVE  Legacy!ImportIsTheCheckout
<1> DEFINE src == state.src
           all == state.db.contents
           assets == state.db.assets
           before == state.before.contents
           items == Legacy!Items(src)
           L == Len(before)
           N == Len(all)
           added == Legacy!Added
<1>1. /\ src \in Sources /\ IsList(all) /\ IsList(before) /\ L <= N /\ \A i \in 1..L : all[i] = before[i]
      /\ Legacy!Apart(all, L) /\ (L < N => Legacy!Sound(src))
      /\ \A i \in (L + 1)..N :
            \/ ImportBlank(all[i])
            \/ \E k \in DOMAIN items : ImportIs(all, assets, i, items[k])
    BY ImportAssumption DEF ImportGood, ImportSafe
<1>2. /\ L \in Nat /\ N \in Nat /\ DOMAIN all = 1..N
      /\ Len(items) \in Nat /\ DOMAIN items = 1..Len(items)
    BY <1>1, ImportItems DEF IsList
<1>3. PICK T : all \in Seq(T) /\ before \in Seq(T)
    <2> DEFINE A == {all[i] : i \in DOMAIN all}
               B == {before[i] : i \in DOMAIN before}
    <2>1. all \in Seq(A) /\ before \in Seq(B)
        BY <1>1 DEF IsList
    <2> HIDE DEF A, B, all, before
    <2>2. all \in Seq(A \union B) /\ before \in Seq(A \union B)
        BY <2>1
    <2> QED  BY <2>2
<1>4. added = SubSeq(all, L + 1, N)
    BY DEF Legacy!Added, Legacy!Newest
<1> HIDE DEF all, before, items, assets, src, added
<1>5. SubSeq(all, 1, L) = before
    <2> DEFINE s == SubSeq(all, 1, L)
    <2>1. s \in Seq(T) /\ Len(s) = L /\ \A i \in 1..L : s[i] = all[i]
        BY <1>1, <1>2, <1>3
    <2> HIDE DEF s
    <2>2. s = before
        BY <1>1, <1>2, <1>3, <2>1
    <2> QED  BY <2>2 DEF s
<1>6. added \in Seq(T) /\ Len(added) = N - L /\ DOMAIN added = 1..(N - L) /\ \A i \in 1..(N - L) : added[i] = all[L + i]
    <2>1. \A i \in 1..(N - L) : L + 1 + i - 1 = L + i
        BY <1>2
    <2> QED  BY <1>1, <1>2, <1>3, <1>4, <2>1
<1>7. ASSUME NEW i \in 1..(N - L)
      PROVE  Legacy!ToSet(all[L + i].images) \subseteq Owned \union assets
    <2>1. L + i \in (L + 1)..N
        BY <1>1, <1>2
    <2>2. CASE ImportBlank(all[L + i])
        BY <2>2 DEF ImportBlank, Legacy!ToSet
    <2>3. CASE \E k \in DOMAIN items : ImportIs(all, assets, L + i, items[k])
        BY <2>3 DEF ImportIs
    <2> QED  BY <1>1, <2>1, <2>2, <2>3
<1>8. ASSUME NEW i \in 1..(N - L), NEW t \in Legacy!ToSet(src.topics), Legacy!Key(all[L + i]) = <<"topic", t.slug>>
      PROVE  LET c == all[L + i]
                 entries == [k \in DOMAIN c.entries |-> all[c.entries[k]]]
                 ids == [k \in DOMAIN entries |-> entries[k].slug]
             IN  /\ \A k \in DOMAIN entries : entries[k].published
                 /\ SubSeq(ids, 1, c.recommended) = Legacy!Recommended(src, t)
                 /\ Legacy!IsInjective(ids) /\ Legacy!ToSet(Legacy!Matched(src, t)) \subseteq Legacy!ToSet(ids)
    <2> DEFINE c == all[L + i]
               entries == [k \in DOMAIN c.entries |-> all[c.entries[k]]]
               ids == [k \in DOMAIN entries |-> entries[k].slug]
               targets == Legacy!Targets(src, t)
    <2>1. L + i \in (L + 1)..N /\ L < N
        BY <1>1, <1>2
    <2>2. c.type = "topic" /\ c.slug = t.slug
        BY <1>8 DEF Legacy!Key
    <2>3. t.slug # Legacy!NoText
        BY <1>1, ImportAssumption
    <2>4. PICK k \in DOMAIN items : ImportIs(all, assets, L + i, items[k])
        BY <1>1, <2>1, <2>2, <2>3 DEF ImportBlank
    <2>5. items[k] = Legacy!TopicItem(src, t)
        <3>1. items[k].type = "topic" /\ items[k].slug = t.slug
            BY <2>2, <2>4 DEF ImportIs
        <3> QED  BY <1>1, <2>1, <2>4, <3>1, ImportTopicOf DEF items
    <2>6. items[k].targets = targets /\ items[k].recommended = Len(Legacy!Recommended(src, t))
        BY <2>5 DEF Legacy!TopicItem
    <2>7. /\ c.recommended = Len(Legacy!Recommended(src, t)) /\ DOMAIN c.entries = DOMAIN targets
          /\ \A j \in DOMAIN targets : all[c.entries[j]].published /\ all[c.entries[j]].slug = targets[j]
        BY <2>4, <2>6 DEF ImportIs
    <2>8. ImportTargets(src, t)
        BY <1>1, ImportTopic
    <2>9. /\ targets = [j \in DOMAIN targets |-> targets[j]] /\ SubSeq(targets, 1, Len(Legacy!Recommended(src, t))) = Legacy!Recommended(src, t)
          /\ Legacy!IsInjective(targets) /\ Legacy!ToSet(Legacy!Matched(src, t)) \subseteq Legacy!ToSet(targets)
        BY <2>8 DEF ImportTargets
    <2> HIDE DEF targets, c
    <2>10. DOMAIN entries = DOMAIN targets /\ \A j \in DOMAIN targets : entries[j] = all[c.entries[j]]
        BY <2>7
    <2> HIDE DEF entries
    <2>11. ids = [j \in DOMAIN targets |-> targets[j]]
        BY <2>7, <2>10
    <2>12. ids = targets
        BY <2>9, <2>11
    <2>13. \A j \in DOMAIN entries : entries[j].published
        BY <2>7, <2>10
    <2> HIDE DEF ids
    <2>14. /\ SubSeq(ids, 1, c.recommended) = Legacy!Recommended(src, t)
           /\ Legacy!IsInjective(ids) /\ Legacy!ToSet(Legacy!Matched(src, t)) \subseteq Legacy!ToSet(ids)
        BY <2>7, <2>9, <2>12
    <2> QED  BY <2>13, <2>14, ZenonT(30) DEF ids, entries, c
<1>9. ASSUME state.pc = "done"
      PROVE  LET made == Kept(added, {i \in DOMAIN added : added[i].published}) IN
             [k \in DOMAIN made |-> made[k].path] = [k \in DOMAIN items |-> items[k].path]
    <2>1. PICK base \in 0..N : base + Len(items) = N /\ ImportMade(src, state.before, all, assets, base, Len(items))
        BY <1>9 DEF ImportGood, ImportPhase, src, all, items, assets
    <2>2. /\ L <= base /\ \A i \in 1..base, k \in DOMAIN items : Legacy!Key(all[i]) # Legacy!Key(items[k])
          /\ \A k \in 1..Len(items) : all[base + k].published /\ ImportIs(all, assets, base + k, items[k])
        BY <2>1 DEF ImportMade, ImportFresh, items, before
    <2> DEFINE p == base - L
               S == {i \in DOMAIN added : added[i].published}
               made == Kept(added, (p + 1)..Len(added))
    <2>3. p \in 0..Len(added) /\ Len(added) = p + Len(items) /\ Len(added) - p = Len(items)
        <3> HIDE DEF L, N
        <3>1. L \in Nat /\ N \in Nat /\ Len(items) \in Nat
            BY <1>2
        <3>2. base \in Nat /\ base <= N
            BY <3>1
        <3>3. L <= base /\ base + Len(items) = N /\ Len(added) = N - L
            BY <1>6, <2>1, <2>2
        <3> QED  BY <3>1, <3>2, <3>3
    <2>4. ASSUME NEW i \in 1..p
          PROVE  ~added[i].published
        <3>1. L + i \in 1..base /\ L + i \in (L + 1)..N /\ i \in 1..(N - L)
            BY <1>2, <2>1, <2>2
        <3>2. SUFFICES ASSUME all[L + i].published PROVE FALSE
            BY <1>6, <3>1
        <3>3. ~ImportBlank(all[L + i])
            BY <3>2 DEF ImportBlank
        <3>4. PICK k \in DOMAIN items : ImportIs(all, assets, L + i, items[k])
            BY <1>1, <3>1, <3>3
        <3>5. Legacy!Key(all[L + i]) = Legacy!Key(items[k])
            BY <3>4 DEF ImportIs, Legacy!Key
        <3> QED  BY <2>2, <3>1, <3>5
    <2>5. ASSUME NEW i \in (p + 1)..Len(added)
          PROVE  added[i].published
        <3>1. i - p \in 1..Len(items) /\ base + (i - p) = L + i /\ i \in 1..(N - L)
            BY <1>2, <1>6, <2>1, <2>2, <2>3
        <3>2. all[L + i].published
            BY <2>2, <3>1
        <3> QED  BY <1>6, <3>1, <3>2
    <2>6. S = (p + 1)..Len(added)
        <3>1. \A i \in 1..(N - L) : i \in 1..p \/ i \in (p + 1)..Len(added)
            BY <1>2, <1>6, <2>3
        <3>2. \A i \in (p + 1)..Len(added) : i \in 1..(N - L)
            BY <1>2, <1>6, <2>3
        <3> HIDE DEF p
        <3> QED  BY <1>6, <2>4, <2>5, <3>1, <3>2
    <2>7. DOMAIN made = 1..Len(items) /\ \A k \in 1..Len(items) : made[k] = added[p + k]
        <3> HIDE DEF p
        <3> QED  BY <1>6, <2>3, KeptEnd, ZenonT(60)
    <2>8. \A k \in 1..Len(items) : made[k].path = items[k].path
        <3> SUFFICES ASSUME NEW k \in 1..Len(items)
                     PROVE  made[k].path = items[k].path
            OBVIOUS
        <3>1. p + k \in 1..(N - L) /\ L + (p + k) = base + k
            BY <1>2, <1>6, <2>1, <2>2, <2>3
        <3>2. made[k] = all[base + k]
            BY <1>6, <2>7, <3>1
        <3>3. all[base + k].path = items[k].path
            BY <2>2 DEF ImportIs
        <3> QED  BY <3>2, <3>3
    <2> HIDE DEF made
    <2>9. [k \in DOMAIN made |-> made[k].path] = [k \in DOMAIN items |-> items[k].path]
        BY <1>2, <2>7, <2>8
    <2>10. Kept(added, S) = made
        BY <2>6 DEF made
    <2> HIDE DEF S
    <2>11. LET made2 == Kept(added, S) IN
           [k \in DOMAIN made2 |-> made2[k].path] = [k \in DOMAIN items |-> items[k].path]
        BY <2>9, <2>10, Zenon
    <2> QED  BY <2>11, Zenon DEF S
<1>10. \A i \in DOMAIN added :
          LET entries == [k \in DOMAIN added[i].entries |-> all[added[i].entries[k]]]
              ids     == [k \in DOMAIN entries |-> entries[k].slug]
          IN  /\ Legacy!ToSet(added[i].images) \subseteq Owned \union assets
              /\ \A t \in Legacy!ToSet(src.topics) : Legacy!Key(added[i]) = <<"topic", t.slug>> =>
                    /\ \A k \in DOMAIN entries : entries[k].published
                    /\ SubSeq(ids, 1, added[i].recommended) = Legacy!Recommended(src, t)
                    /\ Legacy!IsInjective(ids) /\ Legacy!ToSet(Legacy!Matched(src, t)) \subseteq Legacy!ToSet(ids)
    <2> SUFFICES ASSUME NEW i \in 1..(N - L)
                 PROVE  LET entries == [k \in DOMAIN added[i].entries |-> all[added[i].entries[k]]]
                            ids     == [k \in DOMAIN entries |-> entries[k].slug]
                        IN  /\ Legacy!ToSet(added[i].images) \subseteq Owned \union assets
                            /\ \A t \in Legacy!ToSet(src.topics) : Legacy!Key(added[i]) = <<"topic", t.slug>> =>
                                  /\ \A k \in DOMAIN entries : entries[k].published
                                  /\ SubSeq(ids, 1, added[i].recommended) = Legacy!Recommended(src, t)
                                  /\ Legacy!IsInjective(ids)
                                  /\ Legacy!ToSet(Legacy!Matched(src, t)) \subseteq Legacy!ToSet(ids)
        BY <1>6, Zenon
    <2>1. added[i] = all[L + i]
        BY <1>6
    <2> QED  BY <1>7, <1>8, <2>1, Zenon
<1>11. state.pc = "done" =>
          LET made == Legacy!Kept(added, {i \in DOMAIN added : added[i].published}) IN
          [k \in DOMAIN made |-> made[k].path] = [k \in DOMAIN items |-> items[k].path]
    BY <1>9, ImportListing, Zenon
<1> QED  BY <1>1, <1>5, <1>10, <1>11, Zenon
          DEF Legacy!ImportIsTheCheckout, src, all, before, items, assets, added

-----------------------------------------------------------------------------
(* The theorems.                                                            *)

\* What is kept of whichever part this behaviour is of.
DeskInv ==
    /\ part = "focus" => FocusGood(state)
    /\ part = "list" => ListGood(state)
    /\ part = "library" => LibGood(state)
    /\ part = "form" => FormGood(state)
    /\ part = "legacy" => ImportGood(state)

\* The boxes of the desk and of the import are always good (use-writing-focus.ts, list-filters.tsx,
\* assets.go, browser.tsx, selectors.tsx, topic-order.ts, form.tsx, note-group.tsx, plan.mjs, import.go).
THEOREM Invariance == Spec => []DeskInv
<1>1. Init => DeskInv
    BY FocusInit, ListInit, LibInit, FormInit, ImportInit DEF Init, DeskInv
<1>2. DeskInv /\ [Next]_<<part, state>> => DeskInv'
    <2>1. CASE UNCHANGED <<part, state>>
        BY <2>1 DEF DeskInv
    <2>2. ASSUME DeskInv, Step, part' = part
          PROVE  DeskInv'
        <3>1. part = "focus" => FocusGood(state')
            BY <2>2, FocusStep DEF DeskInv, Step
        <3>2. part = "list" => ListGood(state')
            BY <2>2, ListStep DEF DeskInv, Step
        <3>3. part = "library" => LibGood(state')
            BY <2>2, LibStep DEF DeskInv, Step
        <3>4. part = "form" => FormGood(state')
            BY <2>2, FormStep DEF DeskInv, Step
        <3>5. part = "legacy" => ImportGood(state')
            BY <2>2, ImportStep DEF DeskInv, Step
        <3> QED  BY <2>2, <3>1, <3>2, <3>3, <3>4, <3>5 DEF DeskInv
    <2> QED  BY <2>1, <2>2 DEF Next
<1> QED  BY <1>1, <1>2, PTL DEF Spec

\* The editor in focus is alone live and the filters that work are seen.
DeskClear ==
    /\ part = "focus" => Focus!OnlyTheEditorIsLive
    /\ part = "list" => List!FiltersAreSeen

\* Focus mode leaves nothing else live and leaves nothing behind; the filters of the
\* content list work only where they are seen (use-writing-focus.ts, list-filters.tsx).
THEOREM DeskIsClear == Spec => EditorAndListAreClear
<1>1. DeskInv => DeskClear
    BY FocusShows, ListShows DEF DeskInv, DeskClear
<1>2. Spec => []DeskClear
    BY <1>1, Invariance, PTL
<1>3. DeskInv /\ DeskClear' /\ [Next]_<<part, state>>
        => [/\ part = "focus" => Focus!OnlyTheEditorIsLive' /\ Focus!LeavesAsFound(state, state')
            /\ part = "list" => List!FiltersAreSeen']_<<part, state>>
    <2>1. ASSUME DeskInv, Step, part = "focus"
          PROVE  Focus!LeavesAsFound(state, state')
        BY <2>1, FocusStep DEF DeskInv, Step
    <2> QED  BY <2>1 DEF DeskClear, Next
<1> QED  BY <1>2, <1>3, Invariance, PTL DEF Spec, EditorAndListAreClear

\* The library lists what it has, each image once, and every row has its own bytes
\* stored (assets.go, file.go, browser.tsx).
THEOREM LibraryIsKept == Spec => []LibraryLosesNothing
<1>1. DeskInv => LibraryLosesNothing
    BY LibShows DEF DeskInv, LibraryLosesNothing
<1> QED  BY <1>1, Invariance, PTL

\* Whatever is dragged, moved, added, removed or typed, the server takes the relations
\* of the draft; one article moves at a time and no label goes over to another link
\* (selectors.tsx, topic-order.ts, form.tsx, note-group.tsx).
THEOREM RelationsAreKept == Spec => FormKeepsItsRelations
<1>1. DeskInv /\ [Next]_<<part, state>>
        => [part = "form" => Form!KeepsRelations(state, state')]_<<part, state>>
    BY FormStep DEF DeskInv, Next, Step
<1> QED  BY <1>1, Invariance, PTL DEF Spec, FormKeepsItsRelations

\* However often the import is applied and wherever it ends, what was there is
\* untouched and what it adds is the checkout (plan.mjs:360-376, import.go:154-215, 246-343).
THEOREM ImportIsWhole == Spec => []ImportAddsTheCheckout
<1>1. DeskInv => ImportAddsTheCheckout
    BY ImportShows DEF DeskInv, ImportAddsTheCheckout
<1> QED  BY <1>1, Invariance, PTL
=============================================================================
