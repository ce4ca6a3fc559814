-------------------------- MODULE EditorialProofs --------------------------
(***************************************************************************)
(* Proofs about the editorial workflow, for every set of users, contents   *)
(* and forms and every bound.                                              *)
(***************************************************************************)
EXTENDS Editorial, TLAPS

USE DEF Ids

-----------------------------------------------------------------------------
(* Types.                                                                  *)

LEMMA RowFacts ==
  ASSUME TypeOK, NEW c \in Contents, Exists(c)
  PROVE  rows[c] \in Rows
BY DEF TypeOK, Exists

LEMMA FormKept ==
  ASSUME TypeOK, NEW c \in Contents, Exists(c), drafts[c] # None
  PROVE  drafts[c] \in Drafts /\ drafts[c].form \in AnyForm
BY DEF TypeOK, Drafts

LEMMA InitType == Init => TypeOK
BY BoundsAssumption DEF Init, TypeOK

\* What the helpers of the operations do to the types.
LEMMA RowTypes ==
  ASSUME TypeOK, NEW c \in Contents, NEW row \in Rows
  PROVE  [rows EXCEPT ![c] = row] \in [Contents -> Rows \cup {None}]
BY DEF TypeOK

LEMMA RowShapes ==
  ASSUME NEW row \in Rows, NEW r \in 0..MaxRevisions, NEW s \in EditorialStates
  PROVE  /\ PublishRevision(row, r) \in Rows
         /\ ClearPendingRevision(row, s) \in Rows
         /\ MarkDraftEdited(row) \in Rows
         /\ ArchivedRow(row) \in Rows
         /\ [row EXCEPT !.state = s, !.pending = r] \in Rows
         /\ [row EXCEPT !.archived = FALSE, !.state = s] \in Rows
         /\ [row EXCEPT !.published = 0, !.pending = 0, !.state = s] \in Rows
<1>1. 0 \in 0..MaxRevisions
  BY BoundsAssumption
<1>2. "draft" \in EditorialStates /\ "synced" \in EditorialStates
  BY DEF EditorialStates
<1>3. PublishRevision(row, r) \in Rows /\ ClearPendingRevision(row, s) \in Rows
  BY <1>1, <1>2 DEF Rows, PublishRevision, ClearPendingRevision
<1>4. MarkDraftEdited(row) \in Rows /\ ArchivedRow(row) \in Rows
  BY <1>1, <1>2 DEF Rows, MarkDraftEdited, ArchivedRow
<1>5. /\ [row EXCEPT !.state = s, !.pending = r] \in Rows
      /\ [row EXCEPT !.archived = FALSE, !.state = s] \in Rows
      /\ [row EXCEPT !.published = 0, !.pending = 0, !.state = s] \in Rows
  BY <1>1 DEF Rows
<1> QED
  BY <1>3, <1>4, <1>5

LEMMA RouteTypes ==
  ASSUME TypeOK, NEW c \in Contents, NEW f \in CompleteForms, ClaimRoute(c, f)
  PROVE  /\ CandidatePath(c, f) \in Paths
         /\ routes' \in [Paths -> Routes \cup {None}]
<1>1. CandidatePath(c, f) \in Paths
  BY KindAssumption DEF CandidatePath, Paths, CompleteForms, AnyForm
<1>2. DemoteCanonical(routes, c) \in [Paths -> Routes \cup {None}]
  BY DEF TypeOK, DemoteCanonical, Routes
<1> QED
  BY <1>1, <1>2 DEF ClaimRoute, ClaimCanonical, Routes

LEMMA CaptureTypes ==
  ASSUME TypeOK, NEW c \in Contents, NEW u \in Users, NEW v \in 1..MaxVersion,
         drafts[c] # None, Capture(c, v, u)
  PROVE  /\ drafts[c].form \in CompleteForms
         /\ captured + 1 \in 1..MaxRevisions
         /\ captured' = captured + 1
         /\ revisions' \in [Ids -> RevisionRows \cup {None}]
         /\ revisions'[captured + 1].content = c
         /\ revisions'[captured + 1].form = drafts[c].form
         /\ \A r \in Ids \ {captured + 1} : revisions'[r] = revisions[r]
<1>1. drafts[c] \in Drafts
  BY DEF TypeOK
<1>2. drafts[c].form \in CompleteForms
  BY <1>1 DEF Drafts, CompleteForms, Capture
<1>3. captured + 1 \in 1..MaxRevisions
  BY BoundsAssumption DEF TypeOK, Capture
<1>4. [content |-> c, form |-> drafts[c].form, by |-> u, as |-> role[u]]
        \in RevisionRows
  BY <1>2 DEF RevisionRows, TypeOK
<1> QED
  BY <1>2, <1>3, <1>4 DEF TypeOK, Capture

LEMMA ReplaceTypes ==
  ASSUME TypeOK, NEW c \in Contents, NEW u \in Users, NEW f \in AnyForm,
         drafts[c] # None, Replace(c, f, u)
  PROVE  /\ drafts' \in [Contents -> Drafts \cup {None}]
         /\ drafts'[c] = [version |-> drafts[c].version + 1, form |-> f, by |-> u]
         /\ \A d \in Contents \ {c} : drafts'[d] = drafts[d]
         /\ \A d \in Contents : drafts'[d] # None <=> drafts[d] # None
<1>1. drafts[c] \in Drafts
  BY DEF TypeOK
<1>2. drafts[c].version + 1 \in 1..MaxVersion
  BY <1>1, BoundsAssumption DEF Drafts, Replace
<1>3. [version |-> drafts[c].version + 1, form |-> f, by |-> u] \in Drafts
  BY <1>2 DEF Drafts
<1>4. [version |-> drafts[c].version + 1, form |-> f, by |-> u] # None
  BY <1>3, NoneIsNoRow
<1> QED
  BY <1>3, <1>4 DEF TypeOK, Replace

\* Types and bookkeeping hold each other up: that a revision exists is known
\* from the pointer that names it.
Base == TypeOK /\ Bookkeeping

LEMMA InitBase == Init => Base
BY BoundsAssumption, NoneIsNoRow, InitType DEF Init, Base, Bookkeeping, Existing, Exists

\* A step that only replaces the row of one content.
LEMMA RowStep ==
  ASSUME Base, NEW c \in Contents, Exists(c), NEW row \in Rows,
         rows' = [rows EXCEPT ![c] = row],
         row.pending <= captured', row.published <= captured',
         row.pending # 0 => row.pending # row.published,
         captured' \in 0..MaxRevisions, captured <= captured'
  PROVE  /\ rows' \in [Contents -> Rows \cup {None}]
         /\ rows'[c] = row
         /\ Existing' = Existing
         /\ \A d \in Contents : Exists(d)' <=> Exists(d)
         /\ \A d \in Contents \ {c} : rows'[d] = rows[d]
         /\ \A d \in Existing' :
              /\ rows'[d].pending <= captured'
              /\ rows'[d].published <= captured'
              /\ rows'[d].pending # 0 => rows'[d].pending # rows'[d].published
<1>1. rows' \in [Contents -> Rows \cup {None}] /\ rows'[c] = row
  BY DEF Base, TypeOK
<1>2. \A d \in Contents \ {c} : rows'[d] = rows[d]
  BY DEF Base, TypeOK
<1>3. \A d \in Contents : Exists(d)' <=> Exists(d)
  BY <1>1, <1>2, NoneIsNoRow DEF Exists
<1>4. Existing' = Existing
  BY <1>3 DEF Existing
<1>5. ASSUME NEW d \in Existing'
      PROVE  /\ rows'[d].pending <= captured'
             /\ rows'[d].published <= captured'
             /\ rows'[d].pending # 0 => rows'[d].pending # rows'[d].published
  <2>1. CASE d = c
    BY <1>1, <2>1
  <2>2. CASE d # c
    <3>1. d \in Contents /\ Exists(d) /\ rows'[d] = rows[d]
      BY <1>2, <1>4, <2>2 DEF Existing
    <3>2. rows[d] \in Rows
      BY <3>1, RowFacts DEF Base
    <3>3. captured \in Nat /\ captured' \in Nat
      BY BoundsAssumption DEF Base, TypeOK
    <3>4. rows[d].pending \in Nat /\ rows[d].published \in Nat
      BY <3>2, BoundsAssumption DEF Rows
    <3>5. /\ rows[d].pending <= captured
          /\ rows[d].published <= captured
          /\ rows[d].pending # 0 => rows[d].pending # rows[d].published
      BY <1>4 DEF Base, Bookkeeping
    <3>6. \A n \in Nat : n <= captured => n <= captured'
      BY <3>3
    <3> QED
      BY <3>1, <3>4, <3>5, <3>6
  <2> QED
    BY <2>1, <2>2
<1> QED
  BY <1>1, <1>2, <1>3, <1>4, <1>5

\* The row may change together with everything else, as long as the rest keeps
\* its type and the ids stay in order.
LEMMA BaseFromRow ==
  ASSUME Base, NEW c \in Contents, Exists(c), NEW row \in Rows,
         rows' = [rows EXCEPT ![c] = row],
         row.pending <= captured', row.published <= captured',
         row.pending # 0 => row.pending # row.published,
         captured' \in 0..MaxRevisions, captured <= captured',
         role' \in [Users -> Roles],
         drafts' \in [Contents -> Drafts \cup {None}],
         \A d \in Contents : drafts'[d] # None <=> drafts[d] # None,
         revisions' \in [Ids -> RevisionRows \cup {None}],
         \A r \in Ids : revisions'[r] # None <=> r <= captured',
         \A r \in Ids : revisions'[r] # None => Exists(revisions'[r].content),
         reviews' \in [Ids -> Reviews \cup {None}],
         \A r \in Ids : reviews'[r] # None => r <= captured',
         routes' \in [Paths -> Routes \cup {None}],
         generation' \in Nat
  PROVE  Base'
<1>1. /\ rows' \in [Contents -> Rows \cup {None}]
      /\ \A d \in Contents : Exists(d)' <=> Exists(d)
      /\ \A d \in Existing' :
           /\ rows'[d].pending <= captured'
           /\ rows'[d].published <= captured'
           /\ rows'[d].pending # 0 => rows'[d].pending # rows'[d].published
  BY RowStep
<1>2. TypeOK'
  BY <1>1 DEF TypeOK
<1>3. \A r \in Ids : revisions'[r] # None => revisions'[r].content \in Contents
  BY DEF RevisionRows
<1>4. \A r \in Ids : revisions'[r] # None => rows'[revisions'[r].content] # None
  BY <1>1, <1>3 DEF Exists
<1>5. \A d \in Contents : Exists(d)' <=> drafts'[d] # None
  BY <1>1 DEF Base, Bookkeeping
<1>6. Bookkeeping'
  BY <1>1, <1>4, <1>5 DEF Bookkeeping, Exists
<1> QED
  BY <1>2, <1>6 DEF Base

\* A content that exists has a row and a draft.
LEMMA Present ==
  ASSUME Base, NEW c \in Contents, Exists(c)
  PROVE  /\ rows[c] \in Rows
         /\ rows[c].pending \in 0..MaxRevisions /\ rows[c].pending <= captured
         /\ rows[c].published \in 0..MaxRevisions /\ rows[c].published <= captured
         /\ rows[c].pending # 0 => rows[c].pending # rows[c].published
         /\ drafts[c] \in Drafts
         /\ drafts[c].form \in AnyForm
         /\ captured \in 0..MaxRevisions /\ captured \in Nat
<1>1. rows[c] \in Rows
  BY RowFacts DEF Base
<1>2. c \in Existing
  BY DEF Existing
<1>3. drafts[c] # None
  BY DEF Base, Bookkeeping
<1>4. drafts[c] \in Drafts /\ drafts[c].form \in AnyForm
  BY <1>3, FormKept DEF Base
<1>5. captured \in 0..MaxRevisions /\ captured \in Nat
  BY BoundsAssumption DEF Base, TypeOK
<1>6. rows[c].pending <= captured /\ rows[c].published <= captured
  BY <1>2 DEF Base, Bookkeeping
<1>7. rows[c].pending # 0 => rows[c].pending # rows[c].published
  BY <1>2 DEF Base, Bookkeeping
<1> QED
  BY <1>1, <1>4, <1>5, <1>6, <1>7 DEF Rows

\* What the revision a decision is about looks like.
LEMMA PendingFacts ==
  ASSUME Base, NEW c \in Contents, Exists(c), NEW r \in Ids, Pending(c, r)
  PROVE  /\ rows[c].state = "in_review"
         /\ rows[c].pending = r
         /\ r <= captured
         /\ r # rows[c].published
         /\ revisions[r] \in RevisionRows
         /\ revisions[r].form \in CompleteForms
<1>1. rows[c].state = "in_review" /\ rows[c].pending = r /\ r # 0
  BY DEF Pending
<1>2. r <= captured /\ r # rows[c].published
  BY <1>1, Present
<1>3. revisions[r] # None
  BY <1>2 DEF Base, Bookkeeping
<1>4. revisions[r] \in RevisionRows
  BY <1>3 DEF Base, TypeOK
<1> QED
  BY <1>1, <1>2, <1>4 DEF RevisionRows

LEMMA BaseChangeUser ==
  ASSUME Base, NEW u \in Users, NEW s \in Roles, ChangeUser(u, s)
  PROVE  Base'
<1>1. TypeOK'
  BY DEF Base, TypeOK, ChangeUser
<1>2. Bookkeeping'
  BY DEF Base, Bookkeeping, Existing, Exists, ChangeUser
<1> QED
  BY <1>1, <1>2 DEF Base

LEMMA BaseCreate ==
  ASSUME Base, NEW u \in Users, NEW c \in Contents, Create(u, c)
  PROVE  /\ Base'
         /\ Existing' = Existing \cup {c}
         /\ rows'[c] = [owner |-> u, state |-> "draft", pending |-> 0,
                        published |-> 0, archived |-> FALSE]
         /\ \A d \in Contents \ {c} : rows'[d] = rows[d] /\ drafts'[d] = drafts[d]
<1> DEFINE row == [owner |-> u, state |-> "draft", pending |-> 0,
                   published |-> 0, archived |-> FALSE]
           blank == [slug |-> None, byline |-> u, featured |-> FALSE, targets |-> {}]
           draft == [version |-> 1, by |-> u, form |-> blank]
<1>1. row \in Rows
  BY BoundsAssumption DEF Rows, EditorialStates
<1>2. blank \in AnyForm
  BY DEF AnyForm
<1>3. draft \in Drafts
  BY <1>2, BoundsAssumption DEF Drafts
<1>4. rows' = [rows EXCEPT ![c] = row] /\ drafts' = [drafts EXCEPT ![c] = draft]
  BY DEF Create
<1>5. UNCHANGED <<role, captured, revisions, reviews, routes, generation>>
  BY DEF Create
<1> HIDE DEF row, blank, draft
<1>6. TypeOK'
  BY <1>1, <1>3, <1>4, <1>5 DEF Base, TypeOK
<1>7. rows'[c] = row /\ drafts'[c] = draft
  BY <1>4 DEF Base, TypeOK
<1>8. \A d \in Contents \ {c} : rows'[d] = rows[d] /\ drafts'[d] = drafts[d]
  BY <1>4 DEF Base, TypeOK
<1>9. row # None /\ draft # None
  BY <1>1, <1>3, NoneIsNoRow
<1>10. Existing' = Existing \cup {c}
  BY <1>7, <1>8, <1>9 DEF Existing, Exists
<1>11. \A d \in Contents : Exists(d) => Exists(d)'
  BY <1>7, <1>8, <1>9 DEF Exists
<1>12. \A r \in Ids : revisions'[r] # None => rows'[revisions'[r].content] # None
  <2> TAKE r \in Ids
  <2> HAVE revisions'[r] # None
  <2>1. revisions'[r] = revisions[r] /\ revisions[r] \in RevisionRows
    BY <1>5 DEF Base, TypeOK
  <2>2. revisions[r].content \in Contents /\ Exists(revisions[r].content)
    BY <2>1, NoneIsNoRow DEF Base, Bookkeeping, RevisionRows
  <2> QED
    BY <1>11, <2>1, <2>2 DEF Exists
<1>13. \A d \in Contents : Exists(d)' <=> drafts'[d] # None
  <2> TAKE d \in Contents
  <2>1. CASE d = c
    BY <1>7, <1>9, <2>1 DEF Exists
  <2>2. CASE d # c
    BY <1>8, <2>2 DEF Base, Bookkeeping, Exists
  <2> QED
    BY <2>1, <2>2
<1>14. \A d \in Existing' :
         /\ rows'[d].pending <= captured'
         /\ rows'[d].published <= captured'
         /\ rows'[d].pending # 0 => rows'[d].pending # rows'[d].published
  <2> TAKE d \in Existing'
  <2>1. CASE d = c
    <3>1. row.pending = 0 /\ row.published = 0
      BY DEF row
    <3>2. 0 <= captured
      BY BoundsAssumption DEF Base, TypeOK
    <3> QED
      BY <1>5, <1>7, <2>1, <3>1, <3>2
  <2>2. CASE d # c
    <3>1. d \in Existing /\ rows'[d] = rows[d]
      BY <1>8, <1>10, <2>2 DEF Existing
    <3> QED
      BY <1>5, <3>1 DEF Base, Bookkeeping
  <2> QED
    BY <2>1, <2>2
<1>15. /\ \A r \in Ids : revisions'[r] # None <=> r <= captured'
       /\ \A r \in Ids : reviews'[r] # None => r <= captured'
  BY <1>5 DEF Base, Bookkeeping
<1>16. Bookkeeping'
  BY <1>12, <1>13, <1>14, <1>15 DEF Bookkeeping, Exists
<1> QED
  BY <1>6, <1>7, <1>8, <1>10, <1>16 DEF Base, row

\* The bookkeeping of an operation that captures nothing.
LEMMA NothingCaptured ==
  ASSUME Base, UNCHANGED <<captured, revisions>>
  PROVE  /\ captured' \in 0..MaxRevisions /\ captured <= captured'
         /\ revisions' \in [Ids -> RevisionRows \cup {None}]
         /\ \A r \in Ids : revisions'[r] # None <=> r <= captured'
         /\ \A r \in Ids : revisions'[r] # None => Exists(revisions'[r].content)
<1>1. captured \in Nat
  BY BoundsAssumption DEF Base, TypeOK
<1> QED
  BY <1>1 DEF Base, TypeOK, Bookkeeping

\* The bookkeeping of one that does.
LEMMA OneCaptured ==
  ASSUME Base, NEW c \in Contents, Exists(c), NEW u \in Users,
         NEW v \in 1..MaxVersion, Capture(c, v, u)
  PROVE  /\ captured' \in 0..MaxRevisions /\ captured <= captured'
         /\ captured' = captured + 1 /\ captured' \in Ids
         /\ drafts[c].form \in CompleteForms
         /\ revisions' \in [Ids -> RevisionRows \cup {None}]
         /\ revisions'[captured'] =
              [content |-> c, form |-> drafts[c].form, by |-> u, as |-> role[u]]
         /\ \A r \in Ids \ {captured'} : revisions'[r] = revisions[r]
         /\ \A r \in Ids : revisions'[r] # None <=> r <= captured'
         /\ \A r \in Ids : revisions'[r] # None => Exists(revisions'[r].content)
         /\ \A r \in Ids : reviews[r] # None => r <= captured'
         /\ reviews[captured'] = None
<1> DEFINE new == [content |-> c, form |-> drafts[c].form, by |-> u, as |-> role[u]]
<1>1. drafts[c] # None /\ captured \in Nat
  BY Present, NoneIsNoRow
<1>2. /\ drafts[c].form \in CompleteForms
      /\ captured' = captured + 1 /\ captured' \in Ids
      /\ revisions' \in [Ids -> RevisionRows \cup {None}]
      /\ \A r \in Ids \ {captured'} : revisions'[r] = revisions[r]
  BY <1>1, CaptureTypes DEF Base
<1>3. revisions' = [revisions EXCEPT ![captured'] = new]
  BY <1>2 DEF Capture
<1>4. revisions'[captured'] = new
  BY <1>2, <1>3 DEF Base, TypeOK
<1>5. new \in RevisionRows
  BY <1>2 DEF RevisionRows, Base, TypeOK
<1> HIDE DEF new
<1>6. \A r \in Ids : revisions'[r] # None <=> r <= captured'
  <2> TAKE r \in Ids
  <2>1. CASE r = captured'
    BY <1>2, <1>4, <1>5, <2>1, NoneIsNoRow
  <2>2. CASE r # captured'
    BY <1>1, <1>2, <2>2 DEF Base, Bookkeeping
  <2> QED
    BY <2>1, <2>2
<1>7. \A r \in Ids : revisions'[r] # None => Exists(revisions'[r].content)
  <2> TAKE r \in Ids
  <2>1. CASE r = captured'
    BY <1>4, <2>1 DEF new
  <2>2. CASE r # captured'
    BY <1>2, <2>2 DEF Base, Bookkeeping
  <2> QED
    BY <2>1, <2>2
<1>8. \A r \in Ids : reviews[r] # None => r <= captured
  BY DEF Base, Bookkeeping
<1> QED
  BY <1>1, <1>2, <1>4, <1>6, <1>7, <1>8 DEF new

LEMMA BaseSave ==
  ASSUME Base, NEW u \in Users, NEW c \in Contents, NEW v \in 1..MaxVersion,
         NEW f \in Forms, Save(u, c, v, f)
  PROVE  Base'
<1>1. Exists(c) /\ f \in AnyForm
  BY FormsAssumption DEF Save
<1>2. MarkDraftEdited(rows[c]) \in Rows
  BY <1>1, Present, RowShapes, BoundsAssumption DEF EditorialStates
<1>3. /\ MarkDraftEdited(rows[c]).pending = rows[c].pending
      /\ MarkDraftEdited(rows[c]).published = rows[c].published
  BY <1>1, Present DEF MarkDraftEdited, Rows
<1>4. drafts[c] # None
  BY <1>1, Present, NoneIsNoRow
<1>5. /\ drafts' \in [Contents -> Drafts \cup {None}]
      /\ \A d \in Contents : drafts'[d] # None <=> drafts[d] # None
  BY <1>1, <1>4, ReplaceTypes DEF Base, Save
<1>6. rows' = [rows EXCEPT ![c] = MarkDraftEdited(rows[c])]
      /\ UNCHANGED <<role, captured, revisions, reviews, routes, generation>>
  BY DEF Save
<1>7. /\ role' \in [Users -> Roles]
      /\ reviews' \in [Ids -> Reviews \cup {None}]
      /\ \A r \in Ids : reviews'[r] # None => r <= captured'
      /\ routes' \in [Paths -> Routes \cup {None}]
      /\ generation' \in Nat
  BY <1>6 DEF Base, TypeOK, Bookkeeping
<1> QED
  BY <1>1, <1>2, <1>3, <1>5, <1>6, <1>7, NothingCaptured, Present, BaseFromRow

LEMMA BaseRestoreRevision ==
  ASSUME Base, NEW u \in Users, NEW c \in Contents, NEW v \in 1..MaxVersion,
         NEW r \in Ids, RestoreRevision(u, c, r, v)
  PROVE  Base'
<1> DEFINE row == ClearPendingRevision(rows[c], "draft")
<1>1. Exists(c) /\ revisions[r] \in RevisionRows
  BY DEF RestoreRevision, Base, TypeOK
<1>2. revisions[r].form \in AnyForm
  BY <1>1 DEF RevisionRows, CompleteForms
<1>3. row \in Rows
  BY <1>1, Present, RowShapes, BoundsAssumption DEF EditorialStates
<1>4. row.pending = 0 /\ row.published = rows[c].published
  BY <1>1, Present DEF ClearPendingRevision, Rows
<1>5. drafts[c] # None
  BY <1>1, Present, NoneIsNoRow
<1>6. /\ drafts' \in [Contents -> Drafts \cup {None}]
      /\ \A d \in Contents : drafts'[d] # None <=> drafts[d] # None
  BY <1>2, <1>5, ReplaceTypes DEF Base, RestoreRevision
<1>7. rows' = [rows EXCEPT ![c] = row]
      /\ UNCHANGED <<role, captured, revisions, reviews, routes, generation>>
  BY DEF RestoreRevision
<1>8. /\ role' \in [Users -> Roles]
      /\ reviews' \in [Ids -> Reviews \cup {None}]
      /\ \A q \in Ids : reviews'[q] # None => q <= captured'
      /\ routes' \in [Paths -> Routes \cup {None}]
      /\ generation' \in Nat
  BY <1>7 DEF Base, TypeOK, Bookkeeping
<1>9. 0 <= captured /\ rows[c].published <= captured
  BY <1>1, Present
<1> HIDE DEF row
<1> QED
  BY <1>1, <1>3, <1>4, <1>6, <1>7, <1>8, <1>9, NothingCaptured, BaseFromRow

\* Operations that change a row and nothing the bookkeeping looks at but,
\* perhaps, a review of a revision that exists.
LEMMA BaseFromRowOnly ==
  ASSUME Base, NEW c \in Contents, Exists(c), NEW row \in Rows,
         rows' = [rows EXCEPT ![c] = row],
         row.pending <= captured, row.published <= captured,
         row.pending # 0 => row.pending # row.published,
         UNCHANGED <<role, drafts, captured, revisions>>,
         reviews' \in [Ids -> Reviews \cup {None}],
         \A r \in Ids : reviews'[r] # None => r <= captured,
         routes' \in [Paths -> Routes \cup {None}],
         generation' \in Nat
  PROVE  Base'
<1>1. /\ role' \in [Users -> Roles]
      /\ drafts' \in [Contents -> Drafts \cup {None}]
  BY DEF Base, TypeOK
<1> QED
  BY <1>1, NothingCaptured, BaseFromRow

LEMMA Unchanged ==
  ASSUME Base
  PROVE  /\ UNCHANGED role => role' \in [Users -> Roles]
         /\ UNCHANGED drafts => /\ drafts' \in [Contents -> Drafts \cup {None}]
                                /\ \A d \in Contents : drafts'[d] # None <=> drafts[d] # None
         /\ UNCHANGED reviews => reviews' \in [Ids -> Reviews \cup {None}]
         /\ UNCHANGED <<reviews, captured>> =>
              \A r \in Ids : reviews'[r] # None => r <= captured'
         /\ UNCHANGED routes => routes' \in [Paths -> Routes \cup {None}]
         /\ UNCHANGED generation => generation' \in Nat
         /\ MarkDirty => generation' \in Nat
<1>1. \A r \in Ids : reviews[r] # None => r <= captured
  BY DEF Base, Bookkeeping
<1>2. MarkDirty => generation' \in Nat
  BY DEF Base, TypeOK, MarkDirty
<1> QED
  BY <1>1, <1>2 DEF Base, TypeOK

LEMMA BaseSubmit ==
  ASSUME Base, NEW u \in Users, NEW c \in Contents, NEW v \in 1..MaxVersion,
         Submit(u, c, v)
  PROVE  Base'
<1> DEFINE row == [rows[c] EXCEPT !.state = "in_review", !.pending = captured + 1]
<1>1. Exists(c) /\ Capture(c, v, u)
  BY DEF Submit
<1>2. /\ captured' = captured + 1 /\ captured' \in 0..MaxRevisions
      /\ \A r \in Ids : reviews[r] # None => r <= captured'
  BY <1>1, OneCaptured
<1>n. captured' \in Nat
  BY <1>2, BoundsAssumption
<1>3. row \in Rows /\ row.pending = captured' /\ row.published = rows[c].published
  <2>1. [rows[c] EXCEPT !.state = "in_review", !.pending = captured'] \in Rows
    BY <1>1, <1>2, Present, RowShapes DEF EditorialStates
  <2> QED
    BY <1>1, <1>2, <2>1, Present DEF Rows
<1>4. rows' = [rows EXCEPT ![c] = row]
      /\ UNCHANGED <<role, drafts, reviews, routes, generation>>
  BY DEF Submit
<1>5. rows[c].published <= captured /\ captured \in Nat /\ rows[c].published \in Nat
  BY <1>1, Present, BoundsAssumption
<1> HIDE DEF row
<1>6. /\ row.pending <= captured' /\ row.published <= captured'
      /\ row.pending # 0 => row.pending # row.published
  BY <1>2, <1>n, <1>3, <1>5
<1> QED
  BY <1>1, <1>2, <1>3, <1>4, <1>6, OneCaptured, Unchanged, BaseFromRow

LEMMA BasePublishDirect ==
  ASSUME Base, NEW u \in Users, NEW c \in Contents, NEW v \in 1..MaxVersion,
         PublishDirect(u, c, v)
  PROVE  Base'
<1> DEFINE row == PublishRevision(rows[c], captured + 1)
<1>1. Exists(c) /\ Capture(c, v, u)
  BY DEF PublishDirect
<1>2. /\ captured' = captured + 1 /\ captured' \in 0..MaxRevisions
      /\ drafts[c].form \in CompleteForms
      /\ \A r \in Ids : reviews[r] # None => r <= captured'
  BY <1>1, OneCaptured
<1>n. captured' \in Nat
  BY <1>2, BoundsAssumption
<1>3. row \in Rows /\ row.pending = 0 /\ row.published = captured'
  <2>1. PublishRevision(rows[c], captured') \in Rows
    BY <1>1, <1>2, Present, RowShapes, BoundsAssumption DEF EditorialStates
  <2> QED
    BY <1>1, <1>2, <2>1, Present DEF Rows, PublishRevision
<1>4. rows' = [rows EXCEPT ![c] = row] /\ UNCHANGED <<role, drafts, reviews>>
      /\ MarkDirty
  BY DEF PublishDirect
<1>5. routes' \in [Paths -> Routes \cup {None}]
  BY <1>2, RouteTypes DEF Base, PublishDirect
<1> HIDE DEF row
<1>6. row.pending <= captured' /\ row.published <= captured'
  BY <1>n, <1>3
<1> QED
  BY <1>1, <1>2, <1>3, <1>4, <1>5, <1>6, OneCaptured, Unchanged, BaseFromRow

LEMMA ReviewTypes ==
  ASSUME Base, NEW r \in Ids, NEW d \in {"approved", "changes_requested"},
         NEW u \in Users, r <= captured,
         reviews' = [reviews EXCEPT ![r] = [decision |-> d, by |-> u, as |-> role[u]]]
  PROVE  /\ reviews' \in [Ids -> Reviews \cup {None}]
         /\ reviews'[r] = [decision |-> d, by |-> u, as |-> role[u]]
         /\ reviews'[r] # None
         /\ \A q \in Ids \ {r} : reviews'[q] = reviews[q]
         /\ \A q \in Ids : reviews'[q] # None => q <= captured
<1>1. [decision |-> d, by |-> u, as |-> role[u]] \in Reviews
  BY DEF Reviews, Base, TypeOK
<1>2. [decision |-> d, by |-> u, as |-> role[u]] # None
  BY <1>1, NoneIsNoRow
<1> QED
  BY <1>1, <1>2 DEF Base, TypeOK, Bookkeeping

LEMMA BaseRequestChanges ==
  ASSUME Base, NEW u \in Users, NEW c \in Contents, NEW r \in Ids,
         RequestChanges(u, c, r)
  PROVE  Base'
<1> DEFINE row == ClearPendingRevision(rows[c], "changes_requested")
<1>1. Exists(c) /\ Pending(c, r)
  BY DEF RequestChanges
<1>2. r <= captured
  BY <1>1, PendingFacts
<1>3. row \in Rows /\ row.pending = 0 /\ row.published = rows[c].published
  <2>1. row \in Rows
    BY <1>1, Present, RowShapes, BoundsAssumption DEF EditorialStates
  <2> QED
    BY <1>1, <2>1, Present DEF Rows, ClearPendingRevision
<1>4. /\ rows' = [rows EXCEPT ![c] = row]
      /\ reviews' = [reviews EXCEPT ![r] =
           [decision |-> "changes_requested", by |-> u, as |-> role[u]]]
      /\ UNCHANGED <<role, drafts, captured, revisions, routes, generation>>
  BY DEF RequestChanges
<1>5. 0 <= captured /\ rows[c].published <= captured
  BY <1>1, Present
<1> HIDE DEF row
<1> QED
  BY <1>1, <1>2, <1>3, <1>4, <1>5, ReviewTypes, Unchanged, BaseFromRowOnly

LEMMA BasePublishReviewed ==
  ASSUME Base, NEW u \in Users, NEW c \in Contents, NEW r \in Ids,
         PublishReviewed(u, c, r)
  PROVE  Base'
<1> DEFINE row == PublishRevision(rows[c], r)
<1>1. Exists(c) /\ Pending(c, r)
  BY DEF PublishReviewed
<1>2. r <= captured /\ revisions[r].form \in CompleteForms
  BY <1>1, PendingFacts
<1>3. row \in Rows /\ row.pending = 0 /\ row.published = r
  <2>0. r \in 0..MaxRevisions /\ "draft" \in EditorialStates
    BY BoundsAssumption DEF EditorialStates
  <2>1. row \in Rows
    BY <1>1, <2>0, Present, RowShapes
  <2> QED
    BY <1>1, <2>1, Present DEF Rows, PublishRevision
<1>4. /\ rows' = [rows EXCEPT ![c] = row]
      /\ reviews' = [reviews EXCEPT ![r] =
           [decision |-> "approved", by |-> u, as |-> role[u]]]
      /\ UNCHANGED <<role, drafts, captured, revisions>>
      /\ MarkDirty
  BY DEF PublishReviewed
<1>5. 0 <= captured
  BY <1>1, Present
<1>6. routes' \in [Paths -> Routes \cup {None}]
  BY <1>2, RouteTypes DEF Base, PublishReviewed
<1> HIDE DEF row
<1> QED
  BY <1>1, <1>2, <1>3, <1>4, <1>5, <1>6, ReviewTypes, Unchanged, BaseFromRowOnly

LEMMA BaseWithdraw ==
  ASSUME Base, NEW u \in Users, NEW c \in Contents, Withdraw(u, c)
  PROVE  Base'
<1> DEFINE row == ClearPendingRevision(rows[c], "draft")
<1>1. Exists(c)
  BY DEF Withdraw
<1>2. row \in Rows /\ row.pending = 0 /\ row.published = rows[c].published
  <2>1. row \in Rows
    BY <1>1, Present, RowShapes, BoundsAssumption DEF EditorialStates
  <2> QED
    BY <1>1, <2>1, Present DEF Rows, ClearPendingRevision
<1>3. /\ rows' = [rows EXCEPT ![c] = row]
      /\ UNCHANGED <<role, drafts, captured, revisions, reviews, routes, generation>>
  BY DEF Withdraw
<1>4. 0 <= captured /\ rows[c].published <= captured
  BY <1>1, Present
<1> HIDE DEF row
<1> QED
  BY <1>1, <1>2, <1>3, <1>4, Unchanged, BaseFromRowOnly

LEMMA BaseUnpublish ==
  ASSUME Base, NEW u \in Users, NEW c \in Contents, Unpublish(u, c)
  PROVE  Base'
<1> DEFINE row == [rows[c] EXCEPT !.published = 0, !.pending = 0, !.state = "draft"]
<1>1. Exists(c)
  BY DEF Unpublish
<1>2. row \in Rows /\ row.pending = 0 /\ row.published = 0
  <2>1. row \in Rows
    BY <1>1, Present, RowShapes, BoundsAssumption DEF EditorialStates
  <2> QED
    BY <1>1, <2>1, Present DEF Rows
<1>3. /\ rows' = [rows EXCEPT ![c] = row]
      /\ UNCHANGED <<role, drafts, captured, revisions, reviews, routes>>
      /\ MarkDirty
  BY DEF Unpublish
<1>4. 0 <= captured
  BY <1>1, Present
<1> HIDE DEF row
<1> QED
  BY <1>1, <1>2, <1>3, <1>4, Unchanged, BaseFromRowOnly

LEMMA BaseArchive ==
  ASSUME Base, NEW u \in Users, NEW c \in Contents, Archive(u, c)
  PROVE  Base'
<1> DEFINE row == ArchivedRow(rows[c])
<1>1. Exists(c)
  BY DEF Archive
<1>2. row \in Rows /\ row.pending = 0 /\ row.published = 0
  <2>1. row \in Rows
    BY <1>1, Present, RowShapes, BoundsAssumption DEF EditorialStates
  <2> QED
    BY <1>1, <2>1, Present DEF Rows, ArchivedRow
<1>3. /\ rows' = [rows EXCEPT ![c] = row]
      /\ UNCHANGED <<role, drafts, captured, revisions, reviews, routes>>
      /\ MarkDirty \/ UNCHANGED generation
  BY DEF Archive
<1>4. 0 <= captured
  BY <1>1, Present
<1> HIDE DEF row
<1> QED
  BY <1>1, <1>2, <1>3, <1>4, Unchanged, BaseFromRowOnly

LEMMA BaseRestoreArchive ==
  ASSUME Base, NEW u \in Users, NEW c \in Contents, RestoreArchive(u, c)
  PROVE  Base'
<1> DEFINE row == [rows[c] EXCEPT !.archived = FALSE, !.state = "draft"]
<1>1. Exists(c)
  BY DEF RestoreArchive
<1>2. /\ row \in Rows
      /\ row.pending = rows[c].pending /\ row.published = rows[c].published
  <2>1. row \in Rows
    BY <1>1, Present, RowShapes, BoundsAssumption DEF EditorialStates
  <2> QED
    BY <1>1, <2>1, Present DEF Rows
<1>3. /\ rows' = [rows EXCEPT ![c] = row]
      /\ UNCHANGED <<role, drafts, captured, revisions, reviews, routes, generation>>
  BY DEF RestoreArchive
<1> HIDE DEF row
<1> QED
  BY <1>1, <1>2, <1>3, Present, Unchanged, BaseFromRowOnly

LEMMA BaseStep == Base /\ [Next]_vars => Base'
<1> SUFFICES ASSUME Base, [Next]_vars
             PROVE  Base'
  OBVIOUS
<1>1. CASE UNCHANGED vars
  <2>1. TypeOK'
    BY <1>1 DEF vars, Base, TypeOK
  <2>2. Bookkeeping'
    BY <1>1 DEF vars, Base, Bookkeeping, Existing, Exists
  <2> QED
    BY <2>1, <2>2 DEF Base
<1>2. CASE \E u \in Users, s \in Roles : ChangeUser(u, s)
  BY <1>2, BaseChangeUser
<1>3. ASSUME NEW u \in Users, NEW c \in Contents,
             \/ Create(u, c)
             \/ \E v \in 1..MaxVersion : \/ \E f \in Forms : Save(u, c, v, f)
                                         \/ Submit(u, c, v)
                                         \/ PublishDirect(u, c, v)
                                         \/ \E r \in Ids : RestoreRevision(u, c, r, v)
             \/ \E r \in Ids : RequestChanges(u, c, r) \/ PublishReviewed(u, c, r)
             \/ Withdraw(u, c)
             \/ Unpublish(u, c)
             \/ Archive(u, c)
             \/ RestoreArchive(u, c)
      PROVE  Base'
  BY <1>3, BaseCreate, BaseSave, BaseSubmit, BasePublishDirect,
     BaseRestoreRevision, BaseRequestChanges, BasePublishReviewed, BaseWithdraw,
     BaseUnpublish, BaseArchive, BaseRestoreArchive
<1> QED
  BY <1>1, <1>2, <1>3 DEF Next

\* Every reachable state has its types: in particular a draft's version and the
\* ids of revisions stay where the pointers and the history expect them.
THEOREM TypeCorrect == Spec => []TypeOK
<1>1. Spec => []Base
  BY InitBase, BaseStep, PTL DEF Spec
<1>2. Base => TypeOK
  BY DEF Base
<1> QED
  BY <1>1, <1>2, PTL

-----------------------------------------------------------------------------
(* The workflow invariants, content by content.                            *)

Checked(c) ==
  /\ rows[c].state = "in_review" <=> rows[c].pending # 0
  /\ rows[c].archived =>
       rows[c].published = 0 /\ rows[c].pending = 0 /\ rows[c].state = "draft"

Frozen(c) ==
  rows[c].state = "in_review" =>
    /\ rows[c].pending \in 1..captured
    /\ revisions[rows[c].pending].content = c
    /\ reviews[rows[c].pending] = None
    /\ revisions[rows[c].pending].form = drafts[c].form

Synced(c) ==
  rows[c].state = "synced" =>
    /\ rows[c].published # 0
    /\ revisions[rows[c].published].form = drafts[c].form

VettedBy(c, r) ==
  IF reviews[r] = None
    THEN revisions[r].as = "admin"
    ELSE /\ reviews[r].decision = "approved"
         /\ \/ reviews[r].as = "admin"
            \/ /\ reviews[r].as = "reviewer"
               /\ reviews[r].by \notin {rows[c].owner, revisions[r].form.byline}

Vetted(c) ==
  rows[c].published # 0 =>
    /\ rows[c].published \in 1..captured
    /\ revisions[rows[c].published].content = c
    /\ VettedBy(c, rows[c].published)

Located(c) ==
  rows[c].published # 0 =>
    CandidatePath(c, revisions[rows[c].published].form) \in CanonicalPaths(c)

Single(c) == \A p, q \in CanonicalPaths(c) : p = q

Good(c) ==
  Checked(c) /\ Frozen(c) /\ Synced(c) /\ Vetted(c) /\ Located(c)

\* The inductive invariant.
IInv ==
  /\ Base
  /\ \A c \in Contents : Single(c)
  /\ \A c \in Existing : Good(c)

LEMMA InvMeaning ==
  IInv => /\ TypeOK /\ Bookkeeping /\ ChecksHold /\ UnderReviewIsFrozen
          /\ SyncedIsPublished /\ PublicIsVetted /\ OneCanonicalPath
<1> SUFFICES ASSUME IInv
             PROVE  /\ TypeOK /\ Bookkeeping /\ ChecksHold /\ UnderReviewIsFrozen
                    /\ SyncedIsPublished /\ PublicIsVetted /\ OneCanonicalPath
  OBVIOUS
<1>1. TypeOK /\ Bookkeeping
  BY DEF IInv, Base
<1>2. \A c \in Existing :
        Checked(c) /\ Frozen(c) /\ Synced(c) /\ Vetted(c) /\ Located(c)
  BY DEF IInv, Good
<1>3. ChecksHold
  BY <1>2 DEF ChecksHold, Checked
<1>4. UnderReviewIsFrozen
  BY <1>2 DEF UnderReviewIsFrozen, Frozen, FormOf
<1>5. SyncedIsPublished
  BY <1>2 DEF SyncedIsPublished, Synced, FormOf
<1>6. PublicIsVetted
  BY <1>2 DEF PublicIsVetted, Vetted, VettedBy, FormOf
<1>7. OneCanonicalPath
  BY <1>2 DEF OneCanonicalPath, IInv, Single, Located, FormOf, Existing
<1> QED
  BY <1>1, <1>3, <1>4, <1>5, <1>6, <1>7

LEMMA InitIInv == Init => IInv
<1> SUFFICES ASSUME Init
             PROVE  IInv
  OBVIOUS
<1>1. \A c \in Contents : CanonicalPaths(c) = {}
  BY DEF Init, CanonicalPaths
<1>2. Existing = {}
  BY DEF Init, Existing, Exists
<1> QED
  BY <1>1, <1>2, InitBase DEF IInv, Single

\* What claiming a path does: the claimant is found there and nowhere else, and
\* nobody else is touched.
LEMMA Claimed ==
  ASSUME Base, NEW c \in Contents, NEW f \in CompleteForms, ClaimRoute(c, f)
  PROVE  /\ CanonicalPaths(c)' = {CandidatePath(c, f)}
         /\ \A d \in Contents \ {c} : CanonicalPaths(d)' = CanonicalPaths(d)
         /\ \A p \in Paths : routes[p] # None =>
              routes'[p] # None /\ routes'[p].content = routes[p].content
<1> DEFINE q == CandidatePath(c, f)
           old == DemoteCanonical(routes, c)
           here == [content |-> c, kind |-> "canonical"]
<1>1. q \in Paths
  BY RouteTypes DEF Base
<1>2. \A p \in Paths :
        /\ routes[p] = None => old[p] = None
        /\ routes[p] # None /\ routes[p].content # c => old[p] = routes[p]
        /\ routes[p] # None /\ routes[p].content = c =>
             old[p] = [content |-> c, kind |-> "redirect"]
  <2> TAKE p \in Paths
  <2>1. old[p] = IF routes[p] # None /\ routes[p].content = c
                   THEN [routes[p] EXCEPT !.kind = "redirect"] ELSE routes[p]
    BY DEF DemoteCanonical
  <2>2. routes[p] \in Routes \cup {None}
    BY DEF Base, TypeOK
  <2> HIDE DEF old
  <2> QED
    BY <2>1, <2>2 DEF Routes
<1>3. here \in Routes /\ here # None
  BY NoneIsNoRow DEF Routes
<1>4. old[q] = None \/ old[q] = [content |-> c, kind |-> "redirect"]
  <2>1. routes[q] # None => routes[q].content = c
    BY DEF ClaimRoute, RouteAvailable
  <2> QED
    BY <1>1, <1>2, <2>1
<1>5. routes' = [old EXCEPT ![q] = IF old[q] = None THEN here
                                   ELSE [old[q] EXCEPT !.kind = "canonical"]]
  BY DEF ClaimRoute, ClaimCanonical
<1>6. routes'[q] = here /\ \A p \in Paths \ {q} : routes'[p] = old[p]
  <2>1. DOMAIN old = Paths /\ old = [p \in Paths |-> old[p]]
    BY DEF DemoteCanonical
  <2>2. [old[q] EXCEPT !.kind = "canonical"] = here \/ old[q] = None
    BY <1>4
  <2> HIDE DEF old, here, q
  <2> QED
    BY <1>1, <1>5, <2>1, <2>2
<1>7. \A d \in Contents : CanonicalPaths(d)' =
        {p \in Paths : routes'[p] # None /\ routes'[p] = [content |-> d, kind |-> "canonical"]}
  BY DEF CanonicalPaths
<1>8. CanonicalPaths(c)' = {q}
  <2>1. \A p \in Paths \ {q} : routes'[p] # None => routes'[p] # here
    <3> TAKE p \in Paths \ {q}
    <3>1. routes'[p] = old[p]
      BY <1>6
    <3>2. old[p] = None \/ old[p].content # c \/ old[p].kind = "redirect"
      BY <1>2
    <3> HIDE DEF old, q
    <3> QED
      BY <3>1, <3>2
  <2> HIDE DEF old, q
  <2> QED
    BY <1>1, <1>3, <1>6, <1>7, <2>1
<1>9. ASSUME NEW d \in Contents \ {c}
      PROVE  CanonicalPaths(d)' = CanonicalPaths(d)
  <2> DEFINE at == [content |-> d, kind |-> "canonical"]
  <2>1. \A p \in Paths : routes'[p] # None /\ routes'[p] = at <=>
                         routes[p] # None /\ routes[p] = at
    <3> TAKE p \in Paths
    <3>1. CASE p = q
      <4>1. routes'[p] # at
        BY <1>6, <3>1
      <4>2. routes[p] # None => routes[p].content = c
        BY <3>1 DEF ClaimRoute, RouteAvailable
      <4> HIDE DEF q
      <4> QED
        BY <4>1, <4>2
    <3>2. CASE p # q
      <4>1. routes'[p] = old[p]
        BY <1>6, <3>2
      <4> HIDE DEF q, old
      <4> QED
        BY <1>2, <4>1
    <3> QED
      BY <3>1, <3>2
  <2> QED
    BY <1>7, <2>1 DEF CanonicalPaths
<1>10. \A p \in Paths : routes[p] # None =>
         routes'[p] # None /\ routes'[p].content = routes[p].content
  <2> TAKE p \in Paths
  <2> HAVE routes[p] # None
  <2>1. CASE p = q
    <3>1. routes[p].content = c
      BY <2>1 DEF ClaimRoute, RouteAvailable
    <3> HIDE DEF q
    <3> QED
      BY <1>3, <1>6, <2>1, <3>1
  <2>2. CASE p # q
    <3>1. routes'[p] = old[p]
      BY <1>6, <2>2
    <3>2. old[p] # None
      <4>1. [content |-> c, kind |-> "redirect"] \in Routes
        BY DEF Routes
      <4> HIDE DEF old, q
      <4> QED
        BY <1>2, <4>1, NoneIsNoRow
    <3> HIDE DEF old, q
    <3> QED
      BY <1>2, <3>1, <3>2
  <2> QED
    BY <2>1, <2>2
<1> QED
  BY <1>8, <1>9, <1>10

\* An operation on another content leaves this one good.
LEMMA Frame ==
  ASSUME Base, NEW d \in Existing, Good(d),
         rows'[d] = rows[d], drafts'[d] = drafts[d],
         captured' \in Nat, captured <= captured',
         \A r \in 1..captured : revisions'[r] = revisions[r],
         \A r \in 1..captured : revisions[r].content = d => reviews'[r] = reviews[r],
         CanonicalPaths(d)' = CanonicalPaths(d)
  PROVE  Good(d)'
<1>1. /\ d \in Contents /\ Exists(d)
      /\ Checked(d) /\ Frozen(d) /\ Synced(d) /\ Vetted(d) /\ Located(d)
  BY DEF Existing, Good
<1>2. /\ rows[d].pending \in Nat /\ rows[d].published \in Nat
      /\ captured \in Nat
  BY <1>1, Present, BoundsAssumption
<1>3. \A r \in 1..captured : r \in 1..captured'
  BY <1>2
<1>4. Checked(d)'
  BY <1>1 DEF Checked
<1>5. Frozen(d)'
  BY <1>1, <1>3 DEF Frozen
<1>6. Vetted(d)'
  BY <1>1, <1>3 DEF Vetted, VettedBy
<1>7. rows[d].published # 0 =>
        revisions'[rows[d].published] = revisions[rows[d].published]
  BY <1>1 DEF Vetted
<1>8. Synced(d)'
  BY <1>1, <1>7 DEF Synced
<1>9. Located(d)'
  BY <1>1, <1>7 DEF Located, CandidatePath
<1> QED
  BY <1>4, <1>5, <1>6, <1>8, <1>9 DEF Good

\* It is enough to look at the content the operation is about.
LEMMA OneContent ==
  ASSUME IInv, NEW c \in Contents, Base',
         \A d \in Contents \ {c} : rows'[d] = rows[d] /\ drafts'[d] = drafts[d],
         captured <= captured',
         \A r \in 1..captured : revisions'[r] = revisions[r],
         \A r \in 1..captured : revisions[r].content # c => reviews'[r] = reviews[r],
         \A d \in Contents \ {c} : CanonicalPaths(d)' = CanonicalPaths(d),
         Single(c)',
         Exists(c)' => Good(c)'
  PROVE  IInv'
<1>1. captured \in Nat /\ captured' \in Nat
  BY BoundsAssumption DEF IInv, Base, TypeOK
<1>2. \A d \in Contents : Single(d)'
  <2> TAKE d \in Contents
  <2>1. CASE d = c
    BY <2>1
  <2>2. CASE d # c
    BY <2>2 DEF IInv, Single
  <2> QED
    BY <2>1, <2>2
<1>3. ASSUME NEW d \in Existing'
      PROVE  Good(d)'
  <2>1. CASE d = c
    BY <2>1 DEF Existing
  <2>2. CASE d # c
    <3>1. d \in Contents /\ rows'[d] = rows[d] /\ drafts'[d] = drafts[d]
      BY <2>2 DEF Existing
    <3>2. d \in Existing
      BY <3>1 DEF Existing, Exists
    <3>3. Base /\ Good(d)
      BY <3>2 DEF IInv
    <3>4. \A r \in 1..captured : revisions[r].content = d => reviews'[r] = reviews[r]
      BY <2>2
    <3>5. CanonicalPaths(d)' = CanonicalPaths(d)
      BY <2>2, <3>1
    <3> QED
      BY <1>1, <3>1, <3>2, <3>3, <3>4, <3>5, Frame
  <2> QED
    BY <2>1, <2>2
<1> QED
  BY <1>2, <1>3 DEF IInv

LEMMA SamePaths ==
  UNCHANGED routes =>
    \A d \in Contents : /\ CanonicalPaths(d)' = CanonicalPaths(d)
                        /\ Single(d) => Single(d)'
BY DEF CanonicalPaths, Single

\* Everything an operation may use about its content.
LEMMA Known ==
  ASSUME IInv, NEW c \in Contents, Exists(c)
  PROVE  /\ Base
         /\ rows[c] \in Rows
         /\ Checked(c) /\ Frozen(c) /\ Synced(c) /\ Vetted(c) /\ Located(c)
         /\ Single(c)
         /\ captured \in Nat
BY Present DEF IInv, Good, Existing

LEMMA IInvChangeUser ==
  ASSUME IInv, NEW u \in Users, NEW s \in Roles, ChangeUser(u, s)
  PROVE  IInv'
<1>1. Base'
  BY BaseChangeUser DEF IInv
<1>2. UNCHANGED <<rows, drafts, captured, revisions, reviews, routes, generation>>
  BY DEF ChangeUser
<1>3. Existing' = Existing
  BY <1>2 DEF Existing, Exists
<1>4. \A c \in Contents : Single(c)'
  BY <1>2, SamePaths DEF IInv
<1>5. \A c \in Existing : Good(c)'
  BY <1>2 DEF IInv, Good, Checked, Frozen, Synced, Vetted, VettedBy, Located,
              CanonicalPaths, CandidatePath
<1> QED
  BY <1>1, <1>3, <1>4, <1>5 DEF IInv

LEMMA IInvCreate ==
  ASSUME IInv, NEW u \in Users, NEW c \in Contents, Create(u, c)
  PROVE  IInv'
<1>1. /\ Base /\ Base'
      /\ rows'[c] = [owner |-> u, state |-> "draft", pending |-> 0,
                     published |-> 0, archived |-> FALSE]
      /\ \A d \in Contents \ {c} : rows'[d] = rows[d] /\ drafts'[d] = drafts[d]
  BY BaseCreate DEF IInv
<1>2. UNCHANGED <<role, captured, revisions, reviews, routes, generation>>
  BY DEF Create
<1>3. Good(c)'
  BY <1>1 DEF Good, Checked, Frozen, Synced, Vetted, Located
<1>4. captured <= captured'
  BY <1>2, BoundsAssumption DEF IInv, Base, TypeOK
<1>5. Single(c)' /\ \A d \in Contents \ {c} : CanonicalPaths(d)' = CanonicalPaths(d)
  BY <1>2, SamePaths DEF IInv
<1> QED
  BY <1>1, <1>2, <1>3, <1>4, <1>5, OneContent

\* Operations that touch only the row and the draft of one content.
LEMMA IInvRow ==
  ASSUME IInv, NEW c \in Contents, Exists(c), Base', NEW row,
         rows' = [rows EXCEPT ![c] = row],
         \A d \in Contents \ {c} : drafts'[d] = drafts[d],
         UNCHANGED <<captured, revisions, reviews, routes>>,
         Checked(c)', Frozen(c)', Synced(c)',
         row.published \in {0, rows[c].published},
         row.owner = rows[c].owner
  PROVE  IInv'
<1>1. rows'[c] = row /\ \A d \in Contents \ {c} : rows'[d] = rows[d]
  BY DEF IInv, Base, TypeOK
<1>2. Vetted(c) /\ Located(c) /\ Single(c)
  BY Known
<1>3. Vetted(c)'
  BY <1>1, <1>2 DEF Vetted, VettedBy
<1>4. Located(c)'
  BY <1>1, <1>2 DEF Located, CanonicalPaths, CandidatePath
<1>5. Good(c)'
  BY <1>3, <1>4 DEF Good
<1>6. captured <= captured'
  BY BoundsAssumption DEF IInv, Base, TypeOK
<1>7. Single(c)' /\ \A d \in Contents \ {c} : CanonicalPaths(d)' = CanonicalPaths(d)
  BY SamePaths DEF IInv
<1> QED
  BY <1>1, <1>5, <1>6, <1>7, OneContent

LEMMA IInvSave ==
  ASSUME IInv, NEW u \in Users, NEW c \in Contents, NEW v \in 1..MaxVersion,
         NEW f \in Forms, Save(u, c, v, f)
  PROVE  IInv'
<1> DEFINE row == MarkDraftEdited(rows[c])
<1>1. Exists(c) /\ Mutable(c)
  BY DEF Save
<1>2. Base'
  BY BaseSave DEF IInv
<1>3. rows[c] \in Rows /\ Checked(c)
  BY <1>1, Known
<1>4. /\ row.state \in {"draft", "changes_requested"}
      /\ row.pending = rows[c].pending /\ row.published = rows[c].published
      /\ row.owner = rows[c].owner /\ row.archived = rows[c].archived
  BY <1>1, <1>3 DEF MarkDraftEdited, Mutable, Rows, EditorialStates
<1>5. rows' = [rows EXCEPT ![c] = row]
      /\ UNCHANGED <<captured, revisions, reviews, routes>>
  BY DEF Save
<1>6. \A d \in Contents \ {c} : drafts'[d] = drafts[d]
  BY DEF Save, Replace, IInv, Base, TypeOK
<1>7. rows'[c] = row
  BY <1>5 DEF IInv, Base, TypeOK
<1> HIDE DEF row
<1>8. Checked(c)' /\ Frozen(c)' /\ Synced(c)'
  <2>1. ~rows[c].archived /\ rows[c].state # "in_review"
    BY <1>1 DEF Mutable
  <2> QED
    BY <1>3, <1>4, <1>7, <2>1 DEF Checked, Frozen, Synced
<1> QED
  BY <1>1, <1>2, <1>4, <1>5, <1>6, <1>8, IInvRow

LEMMA IInvRestoreRevision ==
  ASSUME IInv, NEW u \in Users, NEW c \in Contents, NEW v \in 1..MaxVersion,
         NEW r \in Ids, RestoreRevision(u, c, r, v)
  PROVE  IInv'
<1> DEFINE row == ClearPendingRevision(rows[c], "draft")
<1>1. Exists(c) /\ Mutable(c)
  BY DEF RestoreRevision
<1>2. Base'
  BY BaseRestoreRevision DEF IInv
<1>3. rows[c] \in Rows
  BY <1>1, Known
<1>4. /\ row.state = "draft" /\ row.pending = 0
      /\ row.published = rows[c].published
      /\ row.owner = rows[c].owner /\ row.archived = FALSE
  BY <1>1, <1>3 DEF ClearPendingRevision, Mutable, Rows
<1>5. rows' = [rows EXCEPT ![c] = row]
      /\ UNCHANGED <<captured, revisions, reviews, routes>>
  BY DEF RestoreRevision
<1>6. \A d \in Contents \ {c} : drafts'[d] = drafts[d]
  BY DEF RestoreRevision, Replace, IInv, Base, TypeOK
<1>7. rows'[c] = row
  BY <1>5 DEF IInv, Base, TypeOK
<1> HIDE DEF row
<1>8. Checked(c)' /\ Frozen(c)' /\ Synced(c)'
  BY <1>4, <1>7 DEF Checked, Frozen, Synced
<1> QED
  BY <1>1, <1>2, <1>4, <1>5, <1>6, <1>8, IInvRow

LEMMA IInvWithdraw ==
  ASSUME IInv, NEW u \in Users, NEW c \in Contents, Withdraw(u, c)
  PROVE  IInv'
<1> DEFINE row == ClearPendingRevision(rows[c], "draft")
<1>1. Exists(c) /\ ~rows[c].archived
  BY DEF Withdraw, Pending
<1>2. Base'
  BY BaseWithdraw DEF IInv
<1>3. rows[c] \in Rows
  BY <1>1, Known
<1>4. /\ row.state = "draft" /\ row.pending = 0
      /\ row.published = rows[c].published
      /\ row.owner = rows[c].owner /\ row.archived = FALSE
  BY <1>1, <1>3 DEF ClearPendingRevision, Rows
<1>5. rows' = [rows EXCEPT ![c] = row]
      /\ UNCHANGED <<captured, revisions, reviews, routes, drafts>>
  BY DEF Withdraw
<1>6. \A d \in Contents \ {c} : drafts'[d] = drafts[d]
  BY <1>5
<1>7. rows'[c] = row
  BY <1>5 DEF IInv, Base, TypeOK
<1> HIDE DEF row
<1>8. Checked(c)' /\ Frozen(c)' /\ Synced(c)'
  BY <1>4, <1>7 DEF Checked, Frozen, Synced
<1> QED
  BY <1>1, <1>2, <1>4, <1>5, <1>6, <1>8, IInvRow

LEMMA IInvUnpublish ==
  ASSUME IInv, NEW u \in Users, NEW c \in Contents, Unpublish(u, c)
  PROVE  IInv'
<1> DEFINE row == [rows[c] EXCEPT !.published = 0, !.pending = 0, !.state = "draft"]
<1>1. Exists(c) /\ ~rows[c].archived
  BY DEF Unpublish
<1>2. Base'
  BY BaseUnpublish DEF IInv
<1>3. rows[c] \in Rows
  BY <1>1, Known
<1>4. /\ row.state = "draft" /\ row.pending = 0 /\ row.published = 0
      /\ row.owner = rows[c].owner /\ row.archived = FALSE
  BY <1>1, <1>3 DEF Rows
<1>5. rows' = [rows EXCEPT ![c] = row]
      /\ UNCHANGED <<captured, revisions, reviews, routes, drafts>>
  BY DEF Unpublish
<1>6. \A d \in Contents \ {c} : drafts'[d] = drafts[d]
  BY <1>5
<1>7. rows'[c] = row
  BY <1>5 DEF IInv, Base, TypeOK
<1> HIDE DEF row
<1>8. Checked(c)' /\ Frozen(c)' /\ Synced(c)'
  BY <1>4, <1>7 DEF Checked, Frozen, Synced
<1> QED
  BY <1>1, <1>2, <1>4, <1>5, <1>6, <1>8, IInvRow

LEMMA IInvArchive ==
  ASSUME IInv, NEW u \in Users, NEW c \in Contents, Archive(u, c)
  PROVE  IInv'
<1> DEFINE row == ArchivedRow(rows[c])
<1>1. Exists(c)
  BY DEF Archive
<1>2. Base'
  BY BaseArchive DEF IInv
<1>3. rows[c] \in Rows
  BY <1>1, Known
<1>4. /\ row.state = "draft" /\ row.pending = 0 /\ row.published = 0
      /\ row.owner = rows[c].owner
  BY <1>3 DEF ArchivedRow, Rows
<1>5. rows' = [rows EXCEPT ![c] = row]
      /\ UNCHANGED <<captured, revisions, reviews, routes, drafts>>
  BY DEF Archive
<1>6. \A d \in Contents \ {c} : drafts'[d] = drafts[d]
  BY <1>5
<1>7. rows'[c] = row
  BY <1>5 DEF IInv, Base, TypeOK
<1> HIDE DEF row
<1>8. Checked(c)' /\ Frozen(c)' /\ Synced(c)'
  BY <1>4, <1>7 DEF Checked, Frozen, Synced
<1> QED
  BY <1>1, <1>2, <1>4, <1>5, <1>6, <1>8, IInvRow

LEMMA IInvRestoreArchive ==
  ASSUME IInv, NEW u \in Users, NEW c \in Contents, RestoreArchive(u, c)
  PROVE  IInv'
<1> DEFINE row == [rows[c] EXCEPT !.archived = FALSE, !.state = "draft"]
<1>1. Exists(c) /\ rows[c].archived
  BY DEF RestoreArchive
<1>2. Base'
  BY BaseRestoreArchive DEF IInv
<1>3. rows[c] \in Rows /\ Checked(c)
  BY <1>1, Known
<1>4. /\ row.state = "draft" /\ row.pending = 0 /\ row.published = 0
      /\ row.owner = rows[c].owner /\ row.archived = FALSE
  BY <1>1, <1>3 DEF Checked, Rows
<1>5. rows' = [rows EXCEPT ![c] = row]
      /\ UNCHANGED <<captured, revisions, reviews, routes, drafts>>
  BY DEF RestoreArchive
<1>6. \A d \in Contents \ {c} : drafts'[d] = drafts[d]
  BY <1>5
<1>7. rows'[c] = row
  BY <1>5 DEF IInv, Base, TypeOK
<1> HIDE DEF row
<1>8. Checked(c)' /\ Frozen(c)' /\ Synced(c)'
  BY <1>4, <1>7 DEF Checked, Frozen, Synced
<1> QED
  BY <1>1, <1>2, <1>4, <1>5, <1>6, <1>8, IInvRow

LEMMA IInvSubmit ==
  ASSUME IInv, NEW u \in Users, NEW c \in Contents, NEW v \in 1..MaxVersion,
         Submit(u, c, v)
  PROVE  IInv'
<1> DEFINE row == [rows[c] EXCEPT !.state = "in_review", !.pending = captured + 1]
<1>1. Exists(c) /\ Mutable(c) /\ Capture(c, v, u)
  BY DEF Submit
<1>2. Base /\ Base'
  BY BaseSubmit DEF IInv
<1>3. /\ rows[c] \in Rows /\ captured \in Nat /\ Vetted(c) /\ Located(c)
      /\ Checked(c)
  BY <1>1, Known
<1>4. /\ captured' = captured + 1 /\ captured' \in Ids
      /\ revisions'[captured'] =
           [content |-> c, form |-> drafts[c].form, by |-> u, as |-> role[u]]
      /\ \A r \in Ids \ {captured'} : revisions'[r] = revisions[r]
      /\ reviews[captured'] = None
  BY <1>1, <1>2, OneCaptured
<1>5. /\ row.state = "in_review" /\ row.pending = captured'
      /\ row.published = rows[c].published
      /\ row.owner = rows[c].owner /\ row.archived = FALSE
  BY <1>1, <1>3, <1>4 DEF Mutable, Rows
<1>6. /\ rows' = [rows EXCEPT ![c] = row]
      /\ UNCHANGED <<role, drafts, reviews, routes, generation>>
  BY DEF Submit
<1>7. rows'[c] = row /\ \A d \in Contents \ {c} : rows'[d] = rows[d]
  BY <1>6 DEF IInv, Base, TypeOK
<1>8. \A r \in 1..captured : revisions'[r] = revisions[r] /\ r \in 1..captured'
  BY <1>3, <1>4, BoundsAssumption
<1> HIDE DEF row
<1>9. Checked(c)'
  <2>1. captured' # 0
    BY <1>4
  <2> QED
    BY <1>5, <1>7, <2>1 DEF Checked
<1>10. Frozen(c)'
  <2>1. captured' \in 1..captured'
    BY <1>4
  <2>2. /\ revisions'[captured'].content = c
        /\ revisions'[captured'].form = drafts[c].form
    BY <1>4
  <2> QED
    BY <1>4, <1>5, <1>6, <1>7, <2>1, <2>2 DEF Frozen
<1>11. Synced(c)'
  BY <1>5, <1>7 DEF Synced
<1>12. Vetted(c)'
  BY <1>3, <1>5, <1>6, <1>7, <1>8 DEF Vetted, VettedBy
<1>13. Located(c)'
  BY <1>3, <1>5, <1>6, <1>7, <1>8 DEF Located, Vetted, CanonicalPaths, CandidatePath
<1>14. Good(c)'
  BY <1>9, <1>10, <1>11, <1>12, <1>13 DEF Good
<1>15. captured <= captured'
  BY <1>3, <1>4
<1>16. Single(c)' /\ \A d \in Contents \ {c} : CanonicalPaths(d)' = CanonicalPaths(d)
  BY <1>6, SamePaths DEF IInv
<1> QED
  BY <1>2, <1>6, <1>7, <1>8, <1>14, <1>15, <1>16, OneContent

LEMMA IInvRequestChanges ==
  ASSUME IInv, NEW u \in Users, NEW c \in Contents, NEW r \in Ids,
         RequestChanges(u, c, r)
  PROVE  IInv'
<1> DEFINE row == ClearPendingRevision(rows[c], "changes_requested")
<1>1. Exists(c) /\ Pending(c, r) /\ ~rows[c].archived
  BY DEF RequestChanges, Pending
<1>2. Base /\ Base'
  BY BaseRequestChanges DEF IInv
<1>3. /\ rows[c] \in Rows /\ captured \in Nat /\ Vetted(c) /\ Located(c)
      /\ Frozen(c)
  BY <1>1, Known
<1>4. /\ r <= captured /\ r # rows[c].published
      /\ rows[c].state = "in_review" /\ rows[c].pending = r
  BY <1>1, <1>2, PendingFacts
<1>5. /\ row.state = "changes_requested" /\ row.pending = 0
      /\ row.published = rows[c].published
      /\ row.owner = rows[c].owner /\ row.archived = FALSE
  BY <1>1, <1>3 DEF ClearPendingRevision, Rows
<1>6. /\ rows' = [rows EXCEPT ![c] = row]
      /\ reviews' = [reviews EXCEPT ![r] =
           [decision |-> "changes_requested", by |-> u, as |-> role[u]]]
      /\ UNCHANGED <<role, drafts, captured, revisions, routes, generation>>
  BY DEF RequestChanges
<1>7. rows'[c] = row /\ \A d \in Contents \ {c} : rows'[d] = rows[d]
  BY <1>6 DEF IInv, Base, TypeOK
<1>8. \A q \in Ids \ {r} : reviews'[q] = reviews[q]
  BY <1>2, <1>4, <1>6, ReviewTypes
<1> HIDE DEF row
<1>9. Checked(c)' /\ Frozen(c)' /\ Synced(c)'
  BY <1>5, <1>7 DEF Checked, Frozen, Synced
<1>10. Vetted(c)'
  <2>1. rows[c].published # 0 => reviews'[rows[c].published] = reviews[rows[c].published]
    BY <1>3, <1>4, <1>8 DEF Rows
  <2> QED
    BY <1>3, <1>5, <1>6, <1>7, <2>1 DEF Vetted, VettedBy
<1>11. Located(c)'
  BY <1>3, <1>5, <1>6, <1>7 DEF Located, CanonicalPaths, CandidatePath
<1>12. Good(c)'
  BY <1>9, <1>10, <1>11 DEF Good
<1>13. captured <= captured' /\ \A q \in 1..captured : revisions'[q] = revisions[q]
  BY <1>3, <1>6
<1>14. \A q \in 1..captured : revisions[q].content # c => reviews'[q] = reviews[q]
  <2>1. revisions[r].content = c
    BY <1>3, <1>4 DEF Frozen
  <2>2. \A q \in 1..captured : q \in Ids
    BY <1>2, BoundsAssumption DEF Base, TypeOK
  <2> QED
    BY <1>8, <2>1, <2>2
<1>15. Single(c)' /\ \A d \in Contents \ {c} : CanonicalPaths(d)' = CanonicalPaths(d)
  BY <1>6, SamePaths DEF IInv
<1> QED
  BY <1>2, <1>6, <1>7, <1>12, <1>13, <1>14, <1>15, OneContent

LEMMA IInvPublishReviewed ==
  ASSUME IInv, NEW u \in Users, NEW c \in Contents, NEW r \in Ids,
         PublishReviewed(u, c, r)
  PROVE  IInv'
<1> DEFINE row == PublishRevision(rows[c], r)
           review == [decision |-> "approved", by |-> u, as |-> role[u]]
<1>1. /\ Exists(c) /\ Pending(c, r) /\ ~rows[c].archived
      /\ CanReview(u, c, revisions[r].form) /\ ClaimRoute(c, revisions[r].form)
  BY DEF PublishReviewed, Pending
<1>2. Base /\ Base'
  BY BasePublishReviewed DEF IInv
<1>3. rows[c] \in Rows /\ captured \in Nat /\ Frozen(c)
  BY <1>1, Known
<1>4. /\ r <= captured /\ revisions[r].form \in CompleteForms
      /\ rows[c].state = "in_review" /\ rows[c].pending = r
  BY <1>1, <1>2, PendingFacts
<1>5. /\ row.state = "synced" /\ row.pending = 0 /\ row.published = r
      /\ row.owner = rows[c].owner /\ row.archived = FALSE
  BY <1>1, <1>3 DEF PublishRevision, Rows
<1>6. /\ rows' = [rows EXCEPT ![c] = row]
      /\ reviews' = [reviews EXCEPT ![r] = review]
      /\ UNCHANGED <<role, drafts, captured, revisions>>
  BY DEF PublishReviewed
<1>7. rows'[c] = row /\ \A d \in Contents \ {c} : rows'[d] = rows[d]
  BY <1>6 DEF IInv, Base, TypeOK
<1>8. /\ reviews'[r] = review /\ review # None
      /\ \A q \in Ids \ {r} : reviews'[q] = reviews[q]
  BY <1>2, <1>4, <1>6, ReviewTypes
<1>9. /\ CanonicalPaths(c)' = {CandidatePath(c, revisions[r].form)}
      /\ \A d \in Contents \ {c} : CanonicalPaths(d)' = CanonicalPaths(d)
  BY <1>1, <1>2, <1>4, Claimed
<1>10. /\ r \in 1..captured /\ revisions[r].content = c
       /\ revisions[r].form = drafts[c].form
  BY <1>3, <1>4 DEF Frozen
<1>11. \/ review.as = "admin"
       \/ /\ review.as = "reviewer"
          /\ review.by \notin {rows[c].owner, revisions[r].form.byline}
  BY <1>1 DEF CanReview, Admin, Reviewer
<1>12. review.decision = "approved"
  OBVIOUS
<1> HIDE DEF row, review
<1>13. Checked(c)' /\ Frozen(c)'
  BY <1>5, <1>7, <1>10 DEF Checked, Frozen
<1>14. Synced(c)'
  BY <1>5, <1>6, <1>7, <1>10 DEF Synced
<1>15. Vetted(c)'
  BY <1>5, <1>6, <1>7, <1>8, <1>10, <1>11, <1>12 DEF Vetted, VettedBy
<1>16. Located(c)'
  BY <1>5, <1>6, <1>7, <1>9 DEF Located, CandidatePath
<1>17. Good(c)'
  BY <1>13, <1>14, <1>15, <1>16 DEF Good
<1>18. captured <= captured' /\ \A q \in 1..captured : revisions'[q] = revisions[q]
  BY <1>3, <1>6
<1>19. \A q \in 1..captured : revisions[q].content # c => reviews'[q] = reviews[q]
  <2>1. \A q \in 1..captured : q \in Ids
    BY <1>2, BoundsAssumption DEF Base, TypeOK
  <2> QED
    BY <1>8, <1>10, <2>1
<1>20. Single(c)'
  BY <1>9 DEF Single
<1> QED
  BY <1>2, <1>6, <1>7, <1>9, <1>17, <1>18, <1>19, <1>20, OneContent

LEMMA IInvPublishDirect ==
  ASSUME IInv, NEW u \in Users, NEW c \in Contents, NEW v \in 1..MaxVersion,
         PublishDirect(u, c, v)
  PROVE  IInv'
<1> DEFINE row == PublishRevision(rows[c], captured + 1)
<1>1. /\ Exists(c) /\ Admin(u) /\ Mutable(c) /\ Capture(c, v, u)
      /\ ClaimRoute(c, drafts[c].form)
  BY DEF PublishDirect
<1>2. Base /\ Base'
  BY BasePublishDirect DEF IInv
<1>3. rows[c] \in Rows /\ captured \in Nat
  BY <1>1, Known
<1>4. /\ captured' = captured + 1 /\ captured' \in Ids
      /\ drafts[c].form \in CompleteForms
      /\ revisions'[captured'] =
           [content |-> c, form |-> drafts[c].form, by |-> u, as |-> role[u]]
      /\ \A r \in Ids \ {captured'} : revisions'[r] = revisions[r]
      /\ reviews[captured'] = None
  BY <1>1, <1>2, OneCaptured
<1>5. /\ row.state = "synced" /\ row.pending = 0 /\ row.published = captured'
      /\ row.owner = rows[c].owner /\ row.archived = FALSE
  BY <1>1, <1>3, <1>4 DEF PublishRevision, Mutable, Rows
<1>6. rows' = [rows EXCEPT ![c] = row] /\ UNCHANGED <<role, drafts, reviews>>
  BY DEF PublishDirect
<1>7. rows'[c] = row /\ \A d \in Contents \ {c} : rows'[d] = rows[d]
  BY <1>6 DEF IInv, Base, TypeOK
<1>8. /\ CanonicalPaths(c)' = {CandidatePath(c, drafts[c].form)}
      /\ \A d \in Contents \ {c} : CanonicalPaths(d)' = CanonicalPaths(d)
  BY <1>1, <1>2, <1>4, Claimed
<1> HIDE DEF row
<1>9. captured' # 0 /\ captured' \in 1..captured'
  BY <1>4
<1>10. Checked(c)' /\ Frozen(c)'
  BY <1>5, <1>7, <1>9 DEF Checked, Frozen
<1>11. Synced(c)'
  BY <1>4, <1>5, <1>6, <1>7, <1>9 DEF Synced
<1>12. Vetted(c)'
  BY <1>1, <1>4, <1>5, <1>6, <1>7, <1>9 DEF Vetted, VettedBy, Admin
<1>13. Located(c)'
  BY <1>4, <1>5, <1>7, <1>8 DEF Located, CandidatePath
<1>14. Good(c)'
  BY <1>10, <1>11, <1>12, <1>13 DEF Good
<1>15. captured <= captured' /\ \A r \in 1..captured : revisions'[r] = revisions[r]
  BY <1>3, <1>4, BoundsAssumption
<1>16. Single(c)'
  BY <1>8 DEF Single
<1> QED
  BY <1>2, <1>6, <1>7, <1>8, <1>14, <1>15, <1>16, OneContent

LEMMA IInvStep == IInv /\ [Next]_vars => IInv'
<1> SUFFICES ASSUME IInv, [Next]_vars
             PROVE  IInv'
  OBVIOUS
<1>1. CASE UNCHANGED vars
  <2>1. Base'
    BY BaseStep DEF IInv
  <2>2. UNCHANGED <<rows, drafts, captured, revisions, reviews, routes>>
    BY <1>1 DEF vars
  <2>3. \A c \in Contents : Single(c)'
    BY <2>2, SamePaths DEF IInv
  <2>4. Existing' = Existing
    BY <2>2 DEF Existing, Exists
  <2>5. \A c \in Existing : Good(c)'
    BY <2>2 DEF IInv, Good, Checked, Frozen, Synced, Vetted, VettedBy, Located,
                CanonicalPaths, CandidatePath
  <2> QED
    BY <2>1, <2>3, <2>4, <2>5 DEF IInv
<1>2. CASE \E u \in Users, s \in Roles : ChangeUser(u, s)
  BY <1>2, IInvChangeUser
<1>3. ASSUME NEW u \in Users, NEW c \in Contents,
             \/ Create(u, c)
             \/ \E v \in 1..MaxVersion : \/ \E f \in Forms : Save(u, c, v, f)
                                         \/ Submit(u, c, v)
                                         \/ PublishDirect(u, c, v)
                                         \/ \E r \in Ids : RestoreRevision(u, c, r, v)
             \/ \E r \in Ids : RequestChanges(u, c, r) \/ PublishReviewed(u, c, r)
             \/ Withdraw(u, c)
             \/ Unpublish(u, c)
             \/ Archive(u, c)
             \/ RestoreArchive(u, c)
      PROVE  IInv'
  BY <1>3, IInvCreate, IInvSave, IInvSubmit, IInvPublishDirect,
     IInvRestoreRevision, IInvRequestChanges, IInvPublishReviewed, IInvWithdraw,
     IInvUnpublish, IInvArchive, IInvRestoreArchive
<1> QED
  BY <1>1, <1>2, <1>3 DEF Next

LEMMA Invariance == Spec => []IInv
BY InitIInv, IInvStep, PTL DEF Spec

-----------------------------------------------------------------------------
(* What the runs check, for every value of the constants.                  *)

\* No operation runs into the CHECKs of content_items, ids are in order, and
\* what waits for a review is not what is public.
THEOREM ChecksAlwaysHold == Spec => [](ChecksHold /\ Bookkeeping)
BY Invariance, InvMeaning, PTL

\* An author cannot slide other text under a running review.
THEOREM ReviewsAreFrozen == Spec => []UnderReviewIsFrozen
BY Invariance, InvMeaning, PTL

\* A draft that says synced is what readers get.
THEOREM SyncedMeansPublic == Spec => []SyncedIsPublished
BY Invariance, InvMeaning, PTL

\* Nothing is public that nobody entitled to it approved or published.
THEOREM NothingPublicUnvetted == Spec => []PublicIsVetted
BY Invariance, InvMeaning, PTL

\* A content has one canonical path at most; a public one has that of its
\* public revision.
THEOREM PathsAgree == Spec => []OneCanonicalPath
BY Invariance, InvMeaning, PTL

LEMMA SameRoutes ==
  ASSUME NEW u, NEW c, NEW v, NEW f, NEW r
  PROVE  /\ ChangeUser(u, r) => UNCHANGED routes
         /\ Create(u, c) => UNCHANGED routes
         /\ Save(u, c, v, f) => UNCHANGED routes
         /\ Submit(u, c, v) => UNCHANGED routes
         /\ RestoreRevision(u, c, r, v) => UNCHANGED routes
         /\ RequestChanges(u, c, r) => UNCHANGED routes
         /\ Withdraw(u, c) => UNCHANGED routes
         /\ Unpublish(u, c) => UNCHANGED routes
         /\ Archive(u, c) => UNCHANGED routes
         /\ RestoreArchive(u, c) => UNCHANGED routes
BY DEF ChangeUser, Create, Save, Submit, RestoreRevision, RequestChanges,
       Withdraw, Unpublish, Archive, RestoreArchive

LEMMA SameDrafts ==
  ASSUME NEW u, NEW c, NEW v, NEW r
  PROVE  /\ ChangeUser(u, r) => UNCHANGED drafts
         /\ Submit(u, c, v) => UNCHANGED drafts
         /\ PublishDirect(u, c, v) => UNCHANGED drafts
         /\ PublishReviewed(u, c, r) => UNCHANGED drafts
         /\ RequestChanges(u, c, r) => UNCHANGED drafts
         /\ Withdraw(u, c) => UNCHANGED drafts
         /\ Unpublish(u, c) => UNCHANGED drafts
         /\ Archive(u, c) => UNCHANGED drafts
         /\ RestoreArchive(u, c) => UNCHANGED drafts
BY DEF ChangeUser, Submit, PublishDirect, PublishReviewed, RequestChanges,
       Withdraw, Unpublish, Archive, RestoreArchive

\* A path is never taken from the content that first claimed it.
THEOREM PathsArePermanent == Spec => RoutesArePermanent
<1> DEFINE Kept == \A p \in Paths : routes[p] # None =>
                     routes'[p] # None /\ routes'[p].content = routes[p].content
<1>1. IInv /\ [Next]_vars => [Kept]_vars
  <2> SUFFICES ASSUME IInv, Next
               PROVE  Kept
    OBVIOUS
  <2>1. CASE UNCHANGED routes
    BY <2>1
  <2>2. ASSUME NEW u \in Users, NEW c \in Contents, NEW r \in Ids,
               PublishReviewed(u, c, r)
        PROVE  Kept
    <3>1. revisions[r].form \in CompleteForms /\ ClaimRoute(c, revisions[r].form)
      BY <2>2, PendingFacts DEF PublishReviewed, IInv
    <3> QED
      BY <3>1, Claimed DEF IInv
  <2>3. ASSUME NEW u \in Users, NEW c \in Contents, NEW v \in 1..MaxVersion,
               PublishDirect(u, c, v)
        PROVE  Kept
    <3>1. drafts[c].form \in CompleteForms /\ ClaimRoute(c, drafts[c].form)
      BY <2>3, OneCaptured DEF PublishDirect, IInv
    <3> QED
      BY <3>1, Claimed DEF IInv
  <2>4. \/ UNCHANGED routes
        \/ \E u \in Users, c \in Contents : \/ \E r \in Ids : PublishReviewed(u, c, r)
                                            \/ \E v \in 1..MaxVersion : PublishDirect(u, c, v)
    BY SameRoutes DEF Next
  <2> QED
    BY <2>1, <2>2, <2>3, <2>4
<1> QED
  BY <1>1, Invariance, PTL DEF Spec, RoutesArePermanent

LEMMA DraftSteps ==
  ASSUME IInv, Next
  PROVE  \/ UNCHANGED drafts
         \/ \E u \in Users, c \in Contents : Create(u, c)
         \/ \E u \in Users, c \in Contents, v \in 1..MaxVersion :
              \/ \E f \in Forms : Save(u, c, v, f)
              \/ \E r \in Ids : RestoreRevision(u, c, r, v)
BY SameDrafts DEF Next

\* The form that a step puts into a draft, who put it there, and what it saw.
LEMMA DraftChange ==
  ASSUME IInv, Next, NEW c \in Existing, drafts'[c] # drafts[c]
  PROVE  \E u \in Users, f \in AnyForm :
           /\ drafts'[c] = [version |-> drafts[c].version + 1, form |-> f, by |-> u]
           /\ CanSetFeatured(u, drafts[c].form.featured, f.featured)
<1>1. c \in Contents /\ Exists(c) /\ Base
  BY DEF Existing, IInv
<1>2. drafts[c] # None
  BY <1>1, Present, NoneIsNoRow
<1>3. ASSUME NEW u \in Users, NEW d \in Contents, Create(u, d)
      PROVE  FALSE
  BY <1>1, <1>3, BaseCreate DEF Create
<1>4. ASSUME NEW u \in Users, NEW d \in Contents, NEW v \in 1..MaxVersion,
             NEW f \in Forms, Save(u, d, v, f)
      PROVE  /\ f \in AnyForm
             /\ drafts'[c] = [version |-> drafts[c].version + 1, form |-> f, by |-> u]
             /\ CanSetFeatured(u, drafts[c].form.featured, f.featured)
  <2>1. f \in AnyForm /\ Exists(d) /\ Replace(d, f, u)
    BY <1>4, FormsAssumption DEF Save
  <2>2. drafts[d] # None
    BY <1>1, <2>1, Present, NoneIsNoRow
  <2>3. /\ drafts'[d] = [version |-> drafts[d].version + 1, form |-> f, by |-> u]
        /\ \A e \in Contents \ {d} : drafts'[e] = drafts[e]
    BY <1>1, <2>1, <2>2, ReplaceTypes DEF Base
  <2>4. d = c
    BY <1>1, <2>3
  <2> QED
    BY <1>4, <2>1, <2>3, <2>4 DEF Save
<1>5. ASSUME NEW u \in Users, NEW d \in Contents, NEW v \in 1..MaxVersion,
             NEW r \in Ids, RestoreRevision(u, d, r, v)
      PROVE  /\ revisions[r].form \in AnyForm
             /\ drafts'[c] = [version |-> drafts[c].version + 1,
                              form |-> revisions[r].form, by |-> u]
             /\ CanSetFeatured(u, drafts[c].form.featured, revisions[r].form.featured)
  <2>1. revisions[r] \in RevisionRows /\ Exists(d) /\ Replace(d, revisions[r].form, u)
    BY <1>1, <1>5 DEF RestoreRevision, Base, TypeOK
  <2>2. revisions[r].form \in AnyForm
    BY <2>1 DEF RevisionRows, CompleteForms
  <2>3. drafts[d] # None
    BY <1>1, <2>1, Present, NoneIsNoRow
  <2>4. /\ drafts'[d] = [version |-> drafts[d].version + 1,
                         form |-> revisions[r].form, by |-> u]
        /\ \A e \in Contents \ {d} : drafts'[e] = drafts[e]
    BY <1>1, <2>1, <2>2, <2>3, ReplaceTypes DEF Base
  <2>5. d = c
    BY <1>1, <2>4
  <2> QED
    BY <1>5, <2>2, <2>4, <2>5 DEF RestoreRevision, MayBringBack
<1> QED
  BY <1>3, <1>4, <1>5, DraftSteps, ZenonT(60)

\* No two texts of a draft share a version: what a client's version accepts is
\* what the client saw.
THEOREM VersionsAreUnique == Spec => VersionsTellDrafts
<1>1. IInv /\ [Next]_vars =>
        [\A c \in Existing : drafts'[c] # drafts[c] =>
           drafts'[c].version = drafts[c].version + 1]_vars
  <2> SUFFICES ASSUME IInv, Next, NEW c \in Existing, drafts'[c] # drafts[c]
               PROVE  drafts'[c].version = drafts[c].version + 1
    OBVIOUS
  <2>1. PICK u \in Users, f \in AnyForm :
          drafts'[c] = [version |-> drafts[c].version + 1, form |-> f, by |-> u]
    BY DraftChange
  <2> QED
    BY <2>1
<1> QED
  BY <1>1, Invariance, PTL DEF Spec, VersionsTellDrafts

\* Featured changes stay with the Admins, restored history included.
THEOREM FeaturedStaysWithAdmins == Spec => FeaturedIsAdmins
<1>1. IInv /\ [Next]_vars =>
        [\A c \in Existing : drafts'[c].form.featured # drafts[c].form.featured =>
           Admin(drafts'[c].by)]_vars
  <2> SUFFICES ASSUME IInv, Next, NEW c \in Existing,
                      drafts'[c].form.featured # drafts[c].form.featured
               PROVE  Admin(drafts'[c].by)
    OBVIOUS
  <2>1. drafts'[c] # drafts[c]
    OBVIOUS
  <2>2. PICK u \in Users, f \in AnyForm :
          /\ drafts'[c] = [version |-> drafts[c].version + 1, form |-> f, by |-> u]
          /\ CanSetFeatured(u, drafts[c].form.featured, f.featured)
    BY <2>1, DraftChange
  <2>3. f.featured # drafts[c].form.featured /\ drafts'[c].by = u
    BY <2>2
  <2> QED
    BY <2>2, <2>3 DEF CanSetFeatured
<1> QED
  BY <1>1, Invariance, PTL DEF Spec, FeaturedIsAdmins

\* What every operation leaves of its content's row.
LEMMA RowAfter ==
  ASSUME IInv, NEW c \in Contents, Exists(c), NEW row, rows' = [rows EXCEPT ![c] = row]
  PROVE  rows'[c] = row /\ \A d \in Contents \ {c} : rows'[d] = rows[d]
BY DEF IInv, Base, TypeOK

\* Only two operations give a content a public revision.
LEMMA PublishedSteps ==
  ASSUME IInv, Next, NEW c \in Existing, rows'[c].published \notin {0, rows[c].published}
  PROVE  \E u \in Users : \/ \E r \in Ids : PublishReviewed(u, c, r)
                          \/ \E v \in 1..MaxVersion : PublishDirect(u, c, v)
<1>1. c \in Contents /\ Exists(c) /\ Base /\ rows[c] \in Rows
  BY Known DEF Existing
<1>2. ASSUME NEW u \in Users, NEW s \in Roles, ChangeUser(u, s)
      PROVE  FALSE
  BY <1>2 DEF ChangeUser
<1>3. ASSUME NEW u \in Users, NEW d \in Contents, Create(u, d)
      PROVE  FALSE
  BY <1>1, <1>3, BaseCreate DEF Create
<1>4. ASSUME NEW u \in Users, NEW d \in Contents, NEW v, NEW f, NEW r,
             \/ Save(u, d, v, f) \/ RestoreRevision(u, d, r, v) \/ Submit(u, d, v)
             \/ RequestChanges(u, d, r)
             \/ Withdraw(u, d) \/ Unpublish(u, d) \/ Archive(u, d) \/ RestoreArchive(u, d)
      PROVE  FALSE
  <2>1. Exists(d) /\ rows[d] \in Rows /\ captured + 1 \in Nat
    BY <1>4, Known DEF Save, RestoreRevision, Submit, RequestChanges, Withdraw,
                       Unpublish, Archive, RestoreArchive
  <2> DEFINE Same(row) == row.published \in {0, rows[d].published}
  <2>2. /\ Same(MarkDraftEdited(rows[d]))
        /\ Same(ArchivedRow(rows[d]))
        /\ \A s \in EditorialStates : Same(ClearPendingRevision(rows[d], s))
        /\ Same([rows[d] EXCEPT !.published = 0, !.pending = 0, !.state = "draft"])
        /\ Same([rows[d] EXCEPT !.archived = FALSE, !.state = "draft"])
        /\ Same([rows[d] EXCEPT !.state = "in_review", !.pending = captured + 1])
    BY <2>1 DEF Rows, MarkDraftEdited, ArchivedRow, ClearPendingRevision
  <2>3. PICK row : rows' = [rows EXCEPT ![d] = row] /\ Same(row)
    BY <1>4, <2>2 DEF Save, RestoreRevision, Submit, RequestChanges, Withdraw,
                      Unpublish, Archive, RestoreArchive, EditorialStates
  <2>4. rows'[d] = row /\ \A e \in Contents \ {d} : rows'[e] = rows[e]
    BY <2>1, <2>3, RowAfter
  <2> QED
    BY <1>1, <2>3, <2>4
<1>5. ASSUME NEW u \in Users, NEW d \in Contents,
             \/ \E r \in Ids : PublishReviewed(u, d, r)
             \/ \E v \in 1..MaxVersion : PublishDirect(u, d, v)
      PROVE  d = c
  <2>1. PICK row : Exists(d) /\ rows' = [rows EXCEPT ![d] = row]
    BY <1>5 DEF PublishReviewed, PublishDirect
  <2>2. \A e \in Contents \ {d} : rows'[e] = rows[e]
    BY <2>1, RowAfter
  <2> QED
    BY <1>1, <2>2
<1>6. PICK u \in Users, d \in Contents :
        \/ \E r \in Ids : PublishReviewed(u, d, r)
        \/ \E v \in 1..MaxVersion : PublishDirect(u, d, v)
  BY <1>2, <1>3, <1>4 DEF Next
<1>7. d = c
  BY <1>5, <1>6
<1> QED
  BY <1>6, <1>7

\* An article that a topic needs is public before and after the topic goes public.
LEMMA TargetsStayPublic ==
  ASSUME IInv, NEW c \in Contents, Exists(c), KindOf[c] = "topic",
         NEW f \in AnyForm, TargetsPublished(c, f),
         \A d \in Contents \ {c} : rows'[d] = rows[d]
  PROVE  \A t \in f.targets : IsPublished(t)'
<1> TAKE t \in f.targets
<1>1. t \in Contents
  BY DEF AnyForm
<1>2. KindOf[t] = "curated_article" /\ IsPublished(t)
  BY DEF TargetsPublished
<1>3. t # c
  BY <1>2
<1> QED
  BY <1>1, <1>2, <1>3 DEF IsPublished, Exists

\* A topic never goes public before everything it lists.
THEOREM TopicsAreWhole == Spec => TopicsGoPublicWhole
<1> DEFINE Whole ==
      \A c \in Existing :
        LET r == rows'[c].published
        IN  r \notin {0, rows[c].published} /\ KindOf[c] = "topic" =>
              \A t \in revisions'[r].form.targets : IsPublished(t)'
<1>1. IInv /\ [Next]_vars => [Whole]_vars
  <2> SUFFICES ASSUME IInv, Next, NEW c \in Existing, KindOf[c] = "topic",
                      rows'[c].published \notin {0, rows[c].published}
               PROVE  \A t \in revisions'[rows'[c].published].form.targets : IsPublished(t)'
    OBVIOUS
  <2>1. c \in Contents /\ Exists(c) /\ Base /\ rows[c] \in Rows
    BY Known DEF Existing
  <2>2. ASSUME NEW u \in Users, NEW r \in Ids, PublishReviewed(u, c, r)
        PROVE  \A t \in revisions'[rows'[c].published].form.targets : IsPublished(t)'
    <3>1. /\ rows' = [rows EXCEPT ![c] = PublishRevision(rows[c], r)]
          /\ revisions' = revisions
          /\ TargetsPublished(c, revisions[r].form)
      BY <2>2 DEF PublishReviewed, ClaimRoute
    <3>2. rows'[c].published = r /\ \A d \in Contents \ {c} : rows'[d] = rows[d]
      BY <2>1, <3>1, RowAfter DEF PublishRevision, Rows
    <3>3. revisions[r].form \in AnyForm
      BY <2>1, <2>2, PendingFacts DEF PublishReviewed, CompleteForms
    <3> QED
      BY <2>1, <3>1, <3>2, <3>3, TargetsStayPublic
  <2>3. ASSUME NEW u \in Users, NEW v \in 1..MaxVersion, PublishDirect(u, c, v)
        PROVE  \A t \in revisions'[rows'[c].published].form.targets : IsPublished(t)'
    <3>1. /\ rows' = [rows EXCEPT ![c] = PublishRevision(rows[c], captured + 1)]
          /\ Capture(c, v, u)
          /\ TargetsPublished(c, drafts[c].form)
      BY <2>3 DEF PublishDirect, ClaimRoute
    <3>2. /\ captured' = captured + 1
          /\ drafts[c].form \in CompleteForms
          /\ revisions'[captured'] =
               [content |-> c, form |-> drafts[c].form, by |-> u, as |-> role[u]]
      BY <2>1, <3>1, OneCaptured
    <3>3. revisions'[captured'].form = drafts[c].form /\ drafts[c].form \in AnyForm
      BY <3>2 DEF CompleteForms
    <3>4. rows'[c].published = captured' /\ \A d \in Contents \ {c} : rows'[d] = rows[d]
      BY <2>1, <3>1, <3>2, RowAfter DEF PublishRevision, Rows
    <3> QED
      BY <2>1, <3>1, <3>3, <3>4, TargetsStayPublic
  <2> QED
    BY <2>2, <2>3, PublishedSteps
<1> QED
  BY <1>1, Invariance, PTL DEF Spec, TopicsGoPublicWhole

-----------------------------------------------------------------------------
(* The refinement: every operation either is one step of a revision's life *)
(* (RevisionLife) or changes none.                                         *)

\* What a revision is, given the row of its content.
FateIn(row, r) ==
  IF row.published = r THEN "public" ELSE IF row.pending = r THEN "open" ELSE "closed"

\* The two views of a revision agree.
LEMMA FateOf ==
  ASSUME IInv, NEW r \in Ids
  PROVE  /\ revisions[r] = None => Of[r] = None /\ Fate[r] = "none"
         /\ revisions[r] # None => /\ Of[r] \in Contents
                                   /\ Of[r] = revisions[r].content
                                   /\ Exists(Of[r])
                                   /\ Fate[r] = FateIn(rows[Of[r]], r)
<1>1. revisions[r] = None => Of[r] = None /\ Fate[r] = "none"
  BY DEF Of, Fate
<1>2. ASSUME revisions[r] # None
      PROVE  /\ Of[r] \in Contents
             /\ Of[r] = revisions[r].content
             /\ Exists(Of[r])
             /\ Fate[r] = FateIn(rows[Of[r]], r)
  <2>1. Of[r] = revisions[r].content /\ Fate[r] = FateIn(rows[Of[r]], r)
    BY <1>2 DEF Of, Fate, FateIn
  <2>2. revisions[r] \in RevisionRows
    BY <1>2 DEF IInv, Base, TypeOK
  <2>3. Exists(Of[r])
    BY <1>2, <2>1 DEF IInv, Base, Bookkeeping
  <2> QED
    BY <2>1, <2>2, <2>3 DEF RevisionRows
<1> QED
  BY <1>1, <1>2

LEMMA FateMine ==
  ASSUME IInv, NEW c \in Contents, NEW r \in Ids, Of[r] = c
  PROVE  revisions[r] # None /\ revisions[r].content = c /\ Fate[r] = FateIn(rows[c], r)
BY FateOf, NoneIsNoRow

\* An operation that captures nothing moves the revisions of its content only.
LEMMA FatesKept ==
  ASSUME IInv, NEW c \in Contents, UNCHANGED revisions,
         \A d \in Contents \ {c} : rows'[d] = rows[d]
  PROVE  /\ Of' = Of
         /\ Fate' = [r \in Ids |-> IF Of[r] = c THEN FateIn(rows'[c], r) ELSE Fate[r]]
<1>1. Of' = Of
  BY DEF Of
<1>2. Fate' = [r \in Ids |->
        IF revisions[r] = None THEN "none" ELSE FateIn(rows'[revisions[r].content], r)]
  BY DEF Fate, FateIn
<1>3. ASSUME NEW r \in Ids
      PROVE  (IF revisions[r] = None THEN "none" ELSE FateIn(rows'[revisions[r].content], r))
               = IF Of[r] = c THEN FateIn(rows'[c], r) ELSE Fate[r]
  <2>1. CASE revisions[r] = None
    BY <2>1, FateOf, NoneIsNoRow
  <2>2. CASE revisions[r] # None /\ Of[r] = c
    BY <2>2, FateOf
  <2>3. CASE revisions[r] # None /\ Of[r] # c
    <3>1. Of[r] \in Contents \ {c} /\ Of[r] = revisions[r].content
          /\ Fate[r] = FateIn(rows[Of[r]], r)
      BY <2>3, FateOf
    <3>2. rows'[Of[r]] = rows[Of[r]]
      BY <3>1
    <3> QED
      BY <2>3, <3>1, <3>2
  <2> QED
    BY <2>1, <2>2, <2>3
<1> QED
  BY <1>1, <1>2, <1>3

\* One that captures adds the fate of the new revision.
LEMMA FatesCaptured ==
  ASSUME IInv, NEW c \in Contents, Exists(c), NEW u \in Users,
         NEW v \in 1..MaxVersion, Capture(c, v, u),
         \A d \in Contents \ {c} : rows'[d] = rows[d]
  PROVE  /\ captured' \in Ids /\ captured' = captured + 1 /\ captured \in Nat
         /\ Of[captured'] = None /\ Fate[captured'] = "none"
         /\ Of' = [Of EXCEPT ![captured'] = c]
         /\ Fate' = [r \in Ids |-> IF r = captured' \/ Of[r] = c
                                     THEN FateIn(rows'[c], r) ELSE Fate[r]]
<1>1. /\ captured' = captured + 1 /\ captured' \in Ids /\ captured \in Nat
      /\ revisions'[captured'] =
           [content |-> c, form |-> drafts[c].form, by |-> u, as |-> role[u]]
      /\ \A r \in Ids \ {captured'} : revisions'[r] = revisions[r]
      /\ \A r \in Ids : revisions'[r] # None <=> r <= captured'
  BY OneCaptured, Known DEF IInv
<1>2. revisions[captured'] = None
  BY <1>1 DEF IInv, Base, Bookkeeping
<1>3. Of[captured'] = None /\ Fate[captured'] = "none"
  BY <1>1, <1>2, FateOf
<1>4. revisions'[captured'] # None /\ revisions'[captured'].content = c
  BY <1>1
<1>5. Of' = [Of EXCEPT ![captured'] = c]
  <2>1. Of' = [r \in Ids |-> IF revisions'[r] = None THEN None ELSE revisions'[r].content]
    BY DEF Of
  <2>2. ASSUME NEW r \in Ids
        PROVE  (IF revisions'[r] = None THEN None ELSE revisions'[r].content)
                 = IF r = captured' THEN c ELSE Of[r]
    BY <1>1, <1>4 DEF Of
  <2>3. Of = [r \in Ids |-> Of[r]]
    BY DEF Of
  <2> QED
    BY <1>1, <2>1, <2>2, <2>3
<1>6. Fate' = [r \in Ids |->
        IF revisions'[r] = None THEN "none" ELSE FateIn(rows'[revisions'[r].content], r)]
  BY DEF Fate, FateIn
<1>7. ASSUME NEW r \in Ids
      PROVE  (IF revisions'[r] = None THEN "none" ELSE FateIn(rows'[revisions'[r].content], r))
               = IF r = captured' \/ Of[r] = c THEN FateIn(rows'[c], r) ELSE Fate[r]
  <2>1. CASE r = captured'
    BY <1>4, <2>1
  <2>2. CASE r # captured' /\ revisions[r] = None
    BY <1>1, <2>2, FateOf, NoneIsNoRow
  <2>3. CASE r # captured' /\ revisions[r] # None /\ Of[r] = c
    BY <1>1, <2>3, FateOf
  <2>4. CASE r # captured' /\ revisions[r] # None /\ Of[r] # c
    <3>1. Of[r] \in Contents \ {c} /\ Of[r] = revisions[r].content
          /\ Fate[r] = FateIn(rows[Of[r]], r)
      BY <2>4, FateOf
    <3>2. rows'[Of[r]] = rows[Of[r]] /\ revisions'[r] = revisions[r]
      BY <1>1, <2>4, <3>1
    <3> QED
      BY <2>4, <3>1, <3>2
  <2> QED
    BY <2>1, <2>2, <2>3, <2>4
<1> QED
  BY <1>1, <1>3, <1>5, <1>6, <1>7

-----------------------------------------------------------------------------
(* Which revisions of a content wait or are public.                        *)

LEMMA NothingOpen ==
  ASSUME IInv, NEW c \in Contents, rows[c].pending = 0
  PROVE  Life!WithFate(c, "open") = {}
<1>1. ASSUME NEW r \in Ids, Of[r] = c
      PROVE  Fate[r] # "open"
  <2>1. Fate[r] = FateIn(rows[c], r)
    BY <1>1, FateMine
  <2>2. r # 0
    OBVIOUS
  <2> QED
    BY <2>1, <2>2 DEF FateIn
<1> QED
  BY <1>1 DEF Life!WithFate, Life!Mine

LEMMA PendingIsOpen ==
  ASSUME IInv, NEW c \in Contents, Exists(c), rows[c].pending # 0
  PROVE  /\ rows[c].pending \in Ids /\ Of[rows[c].pending] = c
         /\ Fate[rows[c].pending] = "open"
         /\ rows[c].pending # rows[c].published
         /\ Life!WithFate(c, "open") # {}
<1>1. rows[c].state = "in_review"
  BY Known DEF Checked
<1>2. rows[c].pending \in 1..captured /\ revisions[rows[c].pending].content = c
  BY <1>1, Known DEF Frozen
<1>3. rows[c].pending \in Ids /\ rows[c].pending # rows[c].published
  BY Present, BoundsAssumption DEF IInv
<1>4. revisions[rows[c].pending] # None
  BY <1>2, <1>3 DEF IInv, Base, Bookkeeping
<1>5. Of[rows[c].pending] = c /\ Fate[rows[c].pending] = FateIn(rows[c], rows[c].pending)
  BY <1>2, <1>3, <1>4, FateOf
<1>6. Fate[rows[c].pending] = "open"
  BY <1>3, <1>5 DEF FateIn
<1> QED
  BY <1>3, <1>5, <1>6 DEF Life!WithFate, Life!Mine

LEMMA PublishedIsPublic ==
  ASSUME IInv, NEW c \in Contents, Exists(c), rows[c].published # 0
  PROVE  Life!WithFate(c, "public") # {}
<1>1. rows[c].published \in 1..captured /\ revisions[rows[c].published].content = c
  BY Known DEF Vetted
<1>2. rows[c].published \in Ids
  BY <1>1, Present, BoundsAssumption DEF IInv
<1>3. revisions[rows[c].published] # None
  BY <1>1, <1>2 DEF IInv, Base, Bookkeeping
<1>4. Of[rows[c].published] = c
      /\ Fate[rows[c].published] = FateIn(rows[c], rows[c].published)
  BY <1>1, <1>2, <1>3, FateOf
<1>5. Fate[rows[c].published] = "public"
  BY <1>4 DEF FateIn
<1> QED
  BY <1>2, <1>4, <1>5 DEF Life!WithFate, Life!Mine

-----------------------------------------------------------------------------
(* The operations.                                                         *)

\* A row that keeps its two pointers.
LEMMA PointersKept ==
  ASSUME IInv, NEW c \in Contents, UNCHANGED revisions,
         \A d \in Contents \ {c} : rows'[d] = rows[d],
         \A r \in Ids : Of[r] = c => FateIn(rows'[c], r) = FateIn(rows[c], r)
  PROVE  UNCHANGED <<Of, Fate>>
<1>1. /\ Of' = Of
      /\ Fate' = [r \in Ids |-> IF Of[r] = c THEN FateIn(rows'[c], r) ELSE Fate[r]]
  BY FatesKept
<1>2. \A r \in Ids : Of[r] = c => FateIn(rows'[c], r) = Fate[r]
  BY FateMine
<1>3. Fate = [r \in Ids |-> Fate[r]]
  BY DEF Fate
<1> QED
  BY <1>1, <1>2, <1>3

LEMMA CreateStutters ==
  ASSUME IInv, NEW u \in Users, NEW c \in Contents, Create(u, c)
  PROVE  UNCHANGED <<Of, Fate, generation>>
<1>1. UNCHANGED <<revisions, generation>> /\ ~Exists(c)
  BY DEF Create
<1>2. \A d \in Contents \ {c} : rows'[d] = rows[d]
  BY BaseCreate DEF IInv
<1>3. \A r \in Ids : Of[r] # c
  BY <1>1, FateOf, NoneIsNoRow
<1> QED
  BY <1>1, <1>2, <1>3, PointersKept

\* Saving and the two restores leave every revision as it was.
LEMMA DraftStepsStutter ==
  ASSUME IInv, NEW u \in Users, NEW c \in Contents, NEW v, NEW f, NEW r,
         Save(u, c, v, f) \/ RestoreRevision(u, c, r, v) \/ RestoreArchive(u, c)
  PROVE  UNCHANGED <<Of, Fate, generation>>
<1>1. Exists(c) /\ UNCHANGED <<revisions, generation>>
  BY DEF Save, RestoreRevision, RestoreArchive
<1>2. rows[c] \in Rows /\ Checked(c)
  BY <1>1, Known
<1>3. ASSUME RestoreRevision(u, c, r, v)
      PROVE  rows[c].pending = 0
  BY <1>2, <1>3 DEF RestoreRevision, Mutable, Checked
<1> DEFINE Kept(row) == row.published = rows[c].published /\ row.pending = rows[c].pending
<1>4. /\ Kept(MarkDraftEdited(rows[c]))
      /\ Kept([rows[c] EXCEPT !.archived = FALSE, !.state = "draft"])
      /\ RestoreRevision(u, c, r, v) => Kept(ClearPendingRevision(rows[c], "draft"))
  BY <1>2, <1>3 DEF Rows, MarkDraftEdited, ClearPendingRevision
<1>5. PICK row : rows' = [rows EXCEPT ![c] = row] /\ Kept(row)
  BY <1>4 DEF Save, RestoreRevision, RestoreArchive
<1>6. rows'[c] = row /\ \A d \in Contents \ {c} : rows'[d] = rows[d]
  BY <1>1, <1>5, RowAfter
<1>7. \A q \in Ids : FateIn(rows'[c], q) = FateIn(rows[c], q)
  BY <1>5, <1>6 DEF FateIn
<1> QED
  BY <1>1, <1>6, <1>7, PointersKept

LEMMA SubmitProposes ==
  ASSUME IInv, NEW u \in Users, NEW c \in Contents, NEW v \in 1..MaxVersion,
         Submit(u, c, v)
  PROVE  \E r \in Ids : Life!Propose(c, r)
<1>1. Exists(c) /\ Capture(c, v, u) /\ rows[c].state # "in_review"
      /\ UNCHANGED generation
  BY DEF Submit
<1>2. rows[c] \in Rows /\ Checked(c) /\ rows[c].published <= captured
  BY <1>1, Known, Present
<1>3. rows[c].pending = 0
  BY <1>1, <1>2 DEF Checked
<1> DEFINE row == [rows[c] EXCEPT !.state = "in_review", !.pending = captured + 1]
<1>4. row.published = rows[c].published /\ row.pending = captured + 1
  BY <1>2 DEF Rows
<1>5. /\ rows'[c].published = rows[c].published /\ rows'[c].pending = captured + 1
      /\ \A d \in Contents \ {c} : rows'[d] = rows[d]
  <2>1. rows' = [rows EXCEPT ![c] = row]
    BY DEF Submit
  <2> HIDE DEF row
  <2>2. rows'[c] = row /\ \A d \in Contents \ {c} : rows'[d] = rows[d]
    BY <1>1, <2>1, RowAfter
  <2> QED
    BY <1>4, <2>2
<1> HIDE DEF row
<1>6. /\ captured' \in Ids /\ captured' = captured + 1 /\ captured \in Nat
      /\ Of[captured'] = None /\ Fate[captured'] = "none"
      /\ Of' = [Of EXCEPT ![captured'] = c]
      /\ Fate' = [r \in Ids |-> IF r = captured' \/ Of[r] = c
                                  THEN FateIn(rows'[c], r) ELSE Fate[r]]
  BY <1>1, <1>5, FatesCaptured
<1>7. FateIn(rows'[c], captured') = "open"
  BY <1>2, <1>5, <1>6 DEF FateIn, Rows
<1>8. ASSUME NEW r \in Ids \ {captured'}, Of[r] = c
      PROVE  FateIn(rows'[c], r) = Fate[r]
  <2>1. Fate[r] = FateIn(rows[c], r) /\ r # 0
    BY <1>8, FateMine
  <2> QED
    BY <1>3, <1>5, <1>6, <2>1 DEF FateIn
<1>9. Fate' = [Fate EXCEPT ![captured'] = "open"]
  <2>1. Fate = [r \in Ids |-> Fate[r]]
    BY DEF Fate
  <2> QED
    BY <1>6, <1>7, <1>8, <2>1
<1> QED
  BY <1>1, <1>3, <1>6, <1>9, NothingOpen DEF Life!Propose

\* Rejecting and withdrawing close the waiting revision.
LEMMA DecisionsDrop ==
  ASSUME IInv, NEW u \in Users, NEW c \in Contents, NEW r \in Ids,
         RequestChanges(u, c, r) \/ Withdraw(u, c)
  PROVE  Life!Drop(c)
<1>1. /\ Exists(c) /\ rows[c].state = "in_review"
      /\ UNCHANGED <<revisions, generation>>
  BY DEF RequestChanges, Withdraw, Pending
<1>2. rows[c] \in Rows /\ rows[c].pending # 0
  BY <1>1, Known DEF Checked
<1>3. PICK s \in EditorialStates : rows' = [rows EXCEPT ![c] = ClearPendingRevision(rows[c], s)]
  BY DEF RequestChanges, Withdraw, EditorialStates
<1>4. /\ rows'[c] = ClearPendingRevision(rows[c], s)
      /\ \A d \in Contents \ {c} : rows'[d] = rows[d]
  BY <1>1, <1>3, RowAfter
<1>5. rows'[c].published = rows[c].published /\ rows'[c].pending = 0
  BY <1>2, <1>4 DEF ClearPendingRevision, Rows
<1>6. /\ Of' = Of
      /\ Fate' = [q \in Ids |-> IF Of[q] = c THEN FateIn(rows'[c], q) ELSE Fate[q]]
  BY <1>1, <1>4, FatesKept
<1>7. ASSUME NEW q \in Ids, Of[q] = c
      PROVE  FateIn(rows'[c], q) = IF Fate[q] \in {"open"} THEN "closed" ELSE Fate[q]
  <2>1. Fate[q] = FateIn(rows[c], q) /\ q # 0
    BY <1>7, FateMine
  <2> QED
    BY <1>1, <1>2, <1>5, <2>1, PendingIsOpen DEF FateIn
<1>8. Fate' = Life!Closing(c, {"open"})
  BY <1>6, <1>7 DEF Life!Closing
<1> QED
  BY <1>1, <1>2, <1>6, <1>8, PendingIsOpen DEF Life!Drop

LEMMA ReviewedGoesPublic ==
  ASSUME IInv, NEW u \in Users, NEW c \in Contents, NEW r \in Ids,
         PublishReviewed(u, c, r)
  PROVE  Life!GoPublic(c, r)
<1>1. /\ Exists(c) /\ Pending(c, r) /\ UNCHANGED revisions
      /\ generation' = generation + 1
      /\ rows' = [rows EXCEPT ![c] = PublishRevision(rows[c], r)]
  BY DEF PublishReviewed, MarkDirty
<1>2. rows[c] \in Rows /\ rows[c].pending = r /\ r # 0
  BY <1>1, Known DEF Pending
<1>3. /\ rows'[c] = PublishRevision(rows[c], r)
      /\ \A d \in Contents \ {c} : rows'[d] = rows[d]
  BY <1>1, RowAfter
<1>4. rows'[c].published = r /\ rows'[c].pending = 0
  BY <1>2, <1>3 DEF PublishRevision, Rows
<1>5. /\ Of' = Of
      /\ Fate' = [q \in Ids |-> IF Of[q] = c THEN FateIn(rows'[c], q) ELSE Fate[q]]
  BY <1>1, <1>3, FatesKept
<1>6. Of[r] = c /\ Fate[r] = "open" /\ r # rows[c].published
  BY <1>1, <1>2, PendingIsOpen
<1>7. ASSUME NEW q \in Ids, Of[q] = c, q # r
      PROVE  FateIn(rows'[c], q) = IF Fate[q] \in {"public"} THEN "closed" ELSE Fate[q]
  <2>1. Fate[q] = FateIn(rows[c], q) /\ q # 0
    BY <1>7, FateMine
  <2> QED
    BY <1>2, <1>4, <1>7, <2>1 DEF FateIn
<1>8. FateIn(rows'[c], r) = "public"
  BY <1>4 DEF FateIn
<1>9. Fate' = [Life!Closing(c, {"public"}) EXCEPT ![r] = "public"]
  BY <1>5, <1>6, <1>7, <1>8 DEF Life!Closing
<1> QED
  BY <1>1, <1>5, <1>6, <1>9 DEF Life!GoPublic

LEMMA DirectGoesPublic ==
  ASSUME IInv, NEW u \in Users, NEW c \in Contents, NEW v \in 1..MaxVersion,
         PublishDirect(u, c, v)
  PROVE  \E r \in Ids : Life!GoPublic(c, r)
<1>1. /\ Exists(c) /\ Capture(c, v, u) /\ rows[c].state # "in_review"
      /\ generation' = generation + 1
      /\ rows' = [rows EXCEPT ![c] = PublishRevision(rows[c], captured + 1)]
  BY DEF PublishDirect, MarkDirty
<1>2. rows[c] \in Rows /\ rows[c].pending = 0
  BY <1>1, Known DEF Checked
<1>3. /\ rows'[c] = PublishRevision(rows[c], captured + 1)
      /\ \A d \in Contents \ {c} : rows'[d] = rows[d]
  BY <1>1, RowAfter
<1>4. rows'[c].published = captured + 1 /\ rows'[c].pending = 0
  BY <1>2, <1>3 DEF PublishRevision, Rows
<1>5. /\ captured' \in Ids /\ captured' = captured + 1 /\ captured \in Nat
      /\ Of[captured'] = None /\ Fate[captured'] = "none"
      /\ Of' = [Of EXCEPT ![captured'] = c]
      /\ Fate' = [q \in Ids |-> IF q = captured' \/ Of[q] = c
                                  THEN FateIn(rows'[c], q) ELSE Fate[q]]
  BY <1>1, <1>3, FatesCaptured
<1>6. ASSUME NEW q \in Ids, Of[q] = c, q # captured'
      PROVE  FateIn(rows'[c], q) = IF Fate[q] \in {"public"} THEN "closed" ELSE Fate[q]
  <2>1. Fate[q] = FateIn(rows[c], q) /\ q # 0
    BY <1>6, FateMine
  <2> QED
    BY <1>2, <1>4, <1>5, <1>6, <2>1 DEF FateIn
<1>7. FateIn(rows'[c], captured') = "public"
  BY <1>4, <1>5 DEF FateIn
<1>8. Fate' = [Life!Closing(c, {"public"}) EXCEPT ![captured'] = "public"]
  BY <1>5, <1>6, <1>7 DEF Life!Closing
<1> QED
  BY <1>1, <1>2, <1>5, <1>8, NothingOpen DEF Life!GoPublic

\* What a row without pointers means.
LEMMA AllClosed ==
  ASSUME IInv, NEW c \in Contents, Exists(c), UNCHANGED revisions,
         \A d \in Contents \ {c} : rows'[d] = rows[d],
         rows'[c].published = 0, rows'[c].pending = 0
  PROVE  /\ Of' = Of
         /\ Fate' = Life!Closing(c, {"public", "open"})
         /\ rows[c].published = 0 => Fate' = Life!Closing(c, {"open"})
         /\ rows[c].published = 0 /\ rows[c].pending = 0 => Fate' = Fate
<1>1. /\ Of' = Of
      /\ Fate' = [q \in Ids |-> IF Of[q] = c THEN FateIn(rows'[c], q) ELSE Fate[q]]
  BY FatesKept
<1>2. ASSUME NEW q \in Ids, Of[q] = c
      PROVE  /\ FateIn(rows'[c], q) = "closed"
             /\ Fate[q] \in {"public", "open", "closed"}
             /\ rows[c].published = 0 => Fate[q] # "public"
             /\ rows[c].pending = 0 => Fate[q] # "open"
  <2>1. Fate[q] = FateIn(rows[c], q) /\ q # 0
    BY <1>2, FateMine
  <2> QED
    BY <2>1 DEF FateIn
<1>3. Fate = [q \in Ids |-> Fate[q]]
  BY DEF Fate
<1> QED
  BY <1>1, <1>2, <1>3 DEF Life!Closing

LEMMA UnpublishTakesDown ==
  ASSUME IInv, NEW u \in Users, NEW c \in Contents, Unpublish(u, c)
  PROVE  Life!TakeDown(c)
<1> DEFINE row == [rows[c] EXCEPT !.published = 0, !.pending = 0, !.state = "draft"]
<1>1. /\ Exists(c) /\ rows[c].published # 0 /\ UNCHANGED revisions
      /\ generation' = generation + 1 /\ rows' = [rows EXCEPT ![c] = row]
  BY DEF Unpublish, MarkDirty
<1>2. rows[c] \in Rows
  BY <1>1, Known
<1>3. row.published = 0 /\ row.pending = 0
  BY <1>2 DEF Rows
<1> HIDE DEF row
<1>4. rows'[c] = row /\ \A d \in Contents \ {c} : rows'[d] = rows[d]
  BY <1>1, RowAfter
<1> QED
  BY <1>1, <1>3, <1>4, AllClosed, PublishedIsPublic DEF Life!TakeDown

\* Archiving takes down what is public, else drops what waits, else nothing.
LEMMA ArchiveCloses ==
  ASSUME IInv, NEW u \in Users, NEW c \in Contents, Archive(u, c)
  PROVE  Life!TakeDown(c) \/ Life!Drop(c) \/ UNCHANGED <<Of, Fate, generation>>
<1>1. /\ Exists(c) /\ UNCHANGED revisions
      /\ rows' = [rows EXCEPT ![c] = ArchivedRow(rows[c])]
      /\ rows[c].published # 0 => generation' = generation + 1
      /\ rows[c].published = 0 => generation' = generation
  BY DEF Archive, MarkDirty
<1>2. rows[c] \in Rows
  BY <1>1, Known
<1>3. ArchivedRow(rows[c]).published = 0 /\ ArchivedRow(rows[c]).pending = 0
  BY <1>2 DEF Rows, ArchivedRow
<1>4. rows'[c] = ArchivedRow(rows[c]) /\ \A d \in Contents \ {c} : rows'[d] = rows[d]
  BY <1>1, RowAfter
<1>5. /\ Of' = Of
      /\ Fate' = Life!Closing(c, {"public", "open"})
      /\ rows[c].published = 0 => Fate' = Life!Closing(c, {"open"})
      /\ rows[c].published = 0 /\ rows[c].pending = 0 => Fate' = Fate
  BY <1>1, <1>3, <1>4, AllClosed
<1>6. CASE rows[c].published # 0
  BY <1>1, <1>5, <1>6, PublishedIsPublic DEF Life!TakeDown
<1>7. CASE rows[c].published = 0 /\ rows[c].pending # 0
  BY <1>1, <1>5, <1>7, PendingIsOpen DEF Life!Drop
<1>8. CASE rows[c].published = 0 /\ rows[c].pending = 0
  BY <1>1, <1>5, <1>8
<1> QED
  BY <1>6, <1>7, <1>8

-----------------------------------------------------------------------------
(* The simulation.                                                         *)

LEMMA LifeInit == Init => Life!Init
BY DEF Init, Life!Init, Of, Fate

LEMMA LifeStep ==
  IInv /\ [Next]_vars => [Life!Next]_<<Of, Fate, generation>>
<1> SUFFICES ASSUME IInv, [Next]_vars
             PROVE  Life!Next \/ UNCHANGED <<Of, Fate, generation>>
  OBVIOUS
<1>1. CASE UNCHANGED vars
  BY <1>1 DEF vars, Of, Fate
<1>2. ASSUME NEW u \in Users, NEW s \in Roles, ChangeUser(u, s)
      PROVE  UNCHANGED <<Of, Fate, generation>>
  BY <1>2 DEF ChangeUser, Of, Fate
<1>3. ASSUME NEW u \in Users, NEW c \in Contents,
             \/ Create(u, c)
             \/ \E v \in 1..MaxVersion : \/ \E f \in Forms : Save(u, c, v, f)
                                         \/ Submit(u, c, v)
                                         \/ PublishDirect(u, c, v)
                                         \/ \E r \in Ids : RestoreRevision(u, c, r, v)
             \/ \E r \in Ids : RequestChanges(u, c, r) \/ PublishReviewed(u, c, r)
             \/ Withdraw(u, c)
             \/ Unpublish(u, c)
             \/ Archive(u, c)
             \/ RestoreArchive(u, c)
      PROVE  Life!Next \/ UNCHANGED <<Of, Fate, generation>>
  <2>1. Create(u, c) => UNCHANGED <<Of, Fate, generation>>
    BY CreateStutters
  <2>2. ASSUME NEW v \in 1..MaxVersion, NEW f, NEW r,
               Save(u, c, v, f) \/ RestoreRevision(u, c, r, v) \/ RestoreArchive(u, c)
        PROVE  UNCHANGED <<Of, Fate, generation>>
    BY <2>2, DraftStepsStutter
  <2>3. ASSUME NEW v \in 1..MaxVersion, Submit(u, c, v) \/ PublishDirect(u, c, v)
        PROVE  \E r \in Ids : Life!Propose(c, r) \/ Life!GoPublic(c, r)
    BY <2>3, SubmitProposes, DirectGoesPublic
  <2>4. ASSUME NEW r \in Ids, PublishReviewed(u, c, r)
        PROVE  Life!GoPublic(c, r)
    BY <2>4, ReviewedGoesPublic
  <2>5. ASSUME NEW r \in Ids, RequestChanges(u, c, r) \/ Withdraw(u, c)
        PROVE  Life!Drop(c)
    BY <2>5, DecisionsDrop
  <2>6. Withdraw(u, c) => \E r \in Ids : RequestChanges(u, c, r) \/ Withdraw(u, c)
    BY Known, PendingIsOpen DEF Withdraw, Pending
  <2>7. RestoreArchive(u, c) => UNCHANGED <<Of, Fate, generation>>
    BY DraftStepsStutter
  <2>8. Unpublish(u, c) => Life!TakeDown(c)
    BY UnpublishTakesDown
  <2>9. Archive(u, c) =>
          Life!TakeDown(c) \/ Life!Drop(c) \/ UNCHANGED <<Of, Fate, generation>>
    BY ArchiveCloses
  <2> QED
    BY <1>3, <2>1, <2>2, <2>3, <2>4, <2>5, <2>6, <2>7, <2>8, <2>9 DEF Life!Next
<1> QED
  BY <1>1, <1>2, <1>3 DEF Next

\* Whatever sequence of saves, reviews, publications, archives and restores, a
\* revision is public once at most, never after it was closed, and the
\* generation counts exactly the changes of what is public.
THEOREM EditorialImplementsLife == Spec => RevisionsLiveOnce
<1>1. Life!Spec <=> Life!Init /\ [][Life!Next]_<<Of, Fate, generation>>
  BY DEF Life!Spec
<1>2. Spec => Life!Spec
  BY <1>1, LifeInit, LifeStep, Invariance, PTL DEF Spec
<1> QED
  BY <1>2 DEF RevisionsLiveOnce
=============================================================================
