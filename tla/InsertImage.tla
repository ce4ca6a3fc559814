----------------------------- MODULE InsertImage ----------------------------
(***************************************************************************)
(* An image put into a text (InsertImage of                                *)
(* features/assets/editor-assets.tsx, the capture of                       *)
(* features/content/markdown-editor.tsx).  The place is captured when the  *)
(* library is opened; choosing, uploading, describing the image and the    *)
(* closing of the dialog come after, and meanwhile the draft may be        *)
(* replaced, locked, or shown in another mode.                             *)
(*                                                                         *)
(* Abstractions: a text is a sequence of words and line breaks; the modes  *)
(* differ in whether a textarea is there, which is a new one each time;    *)
(* the library's own state is AssetLibrary's.                              *)
(***************************************************************************)
EXTENDS Naturals, Sequences

CONSTANTS
    Texts,       \* what the draft may be replaced by; sequences of "w" and "br"
    MaxChanges,  \* bound on the changes of the text, the mode and the lock
    MaxOpens     \* bound on the openings of the library

VARIABLE
    box    \* the text, how often it changed, the textarea (0: none) and the one
           \* the author has been in, its selection, the lock; the two dialogs,
           \* the capture, whether an image is confirmed, whether one is uploaded;
           \* "marked" is bookkeeping, what the author saw at the last opening

NoCapture == [there |-> FALSE, start |-> 0, end |-> 0, text |-> <<>>, area |-> 0, locked |-> FALSE, revision |-> 0, used |-> FALSE]
NoMark    == [text |-> <<>>, start |-> 0, end |-> 0]

Init ==
    \E text \in Texts, area \in 0..1 :
        box = [text |-> text, revision |-> 0, area |-> area, areas |-> area, visited |-> 0, selection |-> <<0, 0>>,
               locked |-> FALSE, picker |-> FALSE, dialog |-> "closed", insertion |-> NoCapture, pending |-> FALSE,
               uploads |-> 0, opens |-> 0, changes |-> 0, marked |-> NoMark]

Free == ~box.picker /\ box.dialog # "open"

-----------------------------------------------------------------------------
(* The draft and the editor.                                                *)

Changes(b) == [b EXCEPT !.changes = @ + 1, !.revision = @ + 1]

\* The author types, or the draft is reloaded from the server.
Replaced ==
    /\ box.changes < MaxChanges
    /\ \E text \in Texts \ {box.text} : box' = [Changes(box) EXCEPT !.text = text, !.selection = <<0, 0>>]

\* source, split and preview: another textarea, or none.
Mode ==
    /\ Free /\ box.changes < MaxChanges
    /\ \E there \in BOOLEAN :
          box' = [Changes(box) EXCEPT !.area = IF there THEN box.areas + 1 ELSE 0, !.areas = @ + (IF there THEN 1 ELSE 0)]

Lock == box.changes < MaxChanges /\ box' = [Changes(box) EXCEPT !.locked = ~@]

Select ==
    /\ Free /\ box.area # 0
    /\ \E s \in 0..Len(box.text) : \E e \in s..Len(box.text) :
          box' = [box EXCEPT !.visited = box.area, !.selection = <<s, e>>]

-----------------------------------------------------------------------------
(* InsertImage.                                                             *)

\* capture: where the author has been in this textarea, or the end.
Capture ==
    LET atEnd == box.area = 0 \/ box.visited # box.area
        at    == IF atEnd THEN <<Len(box.text), Len(box.text)>> ELSE box.selection
    IN  [there |-> TRUE, start |-> at[1], end |-> at[2], text |-> box.text, area |-> box.area, locked |-> box.locked,
         revision |-> box.revision, used |-> FALSE]

Open ==
    /\ Free /\ box.opens < MaxOpens
    /\ box' = [box EXCEPT !.opens = @ + 1, !.picker = TRUE, !.insertion = Capture, !.pending = FALSE,
                          !.marked = [text |-> box.text, start |-> Capture.start, end |-> Capture.end]]

Upload == box.picker /\ box.uploads = 0 /\ box' = [box EXCEPT !.uploads = 1]

Chosen(b) == [b EXCEPT !.picker = FALSE, !.dialog = "open"]

Choose == box.picker /\ box' = Chosen(box)

\* The upload outlives the library that was closed meanwhile.
UploadEnds == box.uploads = 1 /\ \E done \in BOOLEAN :
                 LET b == [box EXCEPT !.uploads = 0] IN box' = IF done THEN Chosen(b) ELSE b

Cancelled(b) == [b EXCEPT !.insertion = NoCapture, !.pending = FALSE, !.picker = FALSE, !.marked = NoMark]

Cancel ==
    \/ box.picker /\ box' = Cancelled(box)
    \/ box.dialog = "open" /\ box' = [Cancelled(box) EXCEPT !.dialog = "closing"]

Confirm == box.dialog = "open" /\ box' = [box EXCEPT !.pending = TRUE, !.dialog = "closing"]

Breaks(n) == [i \in 1..n |-> "br"]
Before(s) == IF s = <<>> THEN 0 ELSE IF s[Len(s)] # "br" THEN 2 ELSE IF Len(s) > 1 /\ s[Len(s) - 1] = "br" THEN 0 ELSE 1
After(s)  == IF s = <<>> THEN 1 ELSE IF Head(s) # "br" THEN 2 ELSE IF Len(s) > 1 /\ s[2] = "br" THEN 0 ELSE 1

\* The image between the two slices, on a paragraph of its own.
Spliced(text, start, end) ==
    LET before == SubSeq(text, 1, start)  after == SubSeq(text, end + 1, Len(text))
    IN  before \o Breaks(Before(before)) \o <<"img">> \o Breaks(After(after)) \o after

\* (mutation: the text may have changed since the capture)
StillThereOnly(c) == ~c.used /\ ~c.locked

StillThere(c) == ~c.used /\ ~c.locked /\ c.revision = box.revision

\* With a textarea the insertion is the browser's own, in the text it shows.
Inserts(c) ==
    /\ c.there /\ StillThere(c)
    /\ c.area # 0 => c.area = box.area /\ c.text = box.text

\* onOpenChangeComplete, when the dialog has closed; the author is told when nothing is inserted.
Complete ==
    /\ box.dialog = "closing"
    /\ LET c == box.insertion
           b == [box EXCEPT !.dialog = "closed"]
           d == [b EXCEPT !.pending = FALSE, !.insertion = NoCapture, !.marked = NoMark]
       IN  box' = IF ~box.pending THEN b
                  ELSE IF ~Inserts(c) THEN d
                  ELSE [d EXCEPT !.text = Spliced(c.text, c.start, c.end), !.revision = @ + 1, !.selection = <<0, 0>>]

Next ==
    \/ Replaced \/ Mode \/ Lock \/ Select \/ Open \/ Upload \/ Choose \/ UploadEnds \/ Cancel \/ Confirm \/ Complete

Spec == Init /\ [][Next]_box

-----------------------------------------------------------------------------
(* Properties.                                                              *)

\* An insertion changes the very text the author saw on opening the library: what
\* was selected there gives way to the image as a paragraph of its own, nothing
\* else is touched, and never in a draft that is locked; what was typed, reloaded
\* or uploaded since does not move it (markdown-editor.tsx:95-137,
\* editor-assets.tsx:92-135).
InsertsWhereSeen(old, new) ==
    old.dialog = "closing" /\ new.dialog = "closed" /\ new.text # old.text =>
        LET m      == old.marked
            before == SubSeq(m.text, 1, m.start)
            after  == SubSeq(m.text, m.end + 1, Len(m.text))
        IN  /\ old.text = m.text /\ ~old.locked
            /\ \E i, j \in 0..2 :
                  /\ new.text = before \o Breaks(i) \o <<"img">> \o Breaks(j) \o after
                  /\ i < 2 => before = <<>> \/ (i = 1 /\ before[Len(before)] = "br")
                              \/ (Len(before) > 1 /\ before[Len(before)] = "br" /\ before[Len(before) - 1] = "br")
                  /\ j = 0 => Len(after) > 1 /\ after[1] = "br" /\ after[2] = "br"
                  /\ j = 1 => after = <<>> \/ after[1] = "br"
=============================================================================
