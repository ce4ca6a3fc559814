----------------------------- MODULE Editorial -----------------------------
(***************************************************************************)
(* The editorial workflow of the CMS (internal/content, internal/policy):  *)
(* drafts with optimistic versions, immutable revisions, reviews, permanent*)
(* routes and the pointer that makes a revision public.                    *)
(*                                                                         *)
(* Every operation is one SQLite immediate transaction that looks up its   *)
(* actor again after it has the write lock, so an operation is one step    *)
(* and reads the current role.  The ids, versions and forms a client sends *)
(* were chosen earlier, from whatever it saw then: they are arbitrary      *)
(* parameters.  A refused operation rolls back and is no step.             *)
(*                                                                         *)
(* A form is what a draft holds, reduced to what the workflow looks at.    *)
(* The display fields of a note's group, which the server copies into the  *)
(* payload, and the validity of the text itself are abstracted: an invalid *)
(* form is one that is never submitted.                                    *)
(***************************************************************************)
EXTENDS Integers, FiniteSets

CONSTANTS
  Users,
  Careers,      \* the roles each user may ever be given
  Contents,
  KindOf,       \* content_items.type, immutable
  Slugs,
  Forms,        \* complete forms a client may save
  MaxRevisions, \* bound on the number of content_revisions
  MaxVersion,   \* bound on content_drafts.version
  None

Kinds == {"curated_article", "post", "note", "topic"}

Roles == {"admin", "reviewer", "editor", "inactive"}

AnyForm == [slug     : Slugs \cup {None},
            byline   : Users,
            featured : BOOLEAN,
            targets  : SUBSET Contents]

ASSUME CareersAssumption == Careers \in [Users -> SUBSET Roles]

ASSUME KindAssumption == KindOf \in [Contents -> Kinds]

ASSUME FormsAssumption == Forms \subseteq AnyForm

ASSUME BoundsAssumption == MaxRevisions \in Nat /\ MaxVersion \in Nat \ {0}

VARIABLES
  role,       \* users.role, "inactive" when the account is not active
  rows,       \* content_items, None before Create
  drafts,     \* content_drafts
  captured,   \* number of content_revisions, the last id given
  revisions,  \* content_revisions with their relations
  reviews,    \* content_reviews, by the revision decided on
  routes,     \* content_routes, by path
  generation  \* site_state.publication_generation

vars == <<role, rows, drafts, captured, revisions, reviews, routes, generation>>

Ids == 1..MaxRevisions

EditorialStates == {"draft", "in_review", "changes_requested", "synced"}

\* pending and published are 0 for NULL.
Rows == [owner     : Users,
         state     : EditorialStates,
         pending   : 0..MaxRevisions,
         published : 0..MaxRevisions,
         archived  : BOOLEAN]

\* by is updated_by.
Drafts == [version : 1..MaxVersion, form : AnyForm, by : Users]

CompleteForms == {f \in AnyForm : f.slug # None}

\* by is created_by; as is history, the role it was created under.
RevisionRows == [content : Contents, form : CompleteForms, by : Users, as : Roles]

\* by is reviewer_user_id; as is history, the role it was decided under.
Reviews == [decision : {"approved", "changes_requested"}, by : Users, as : Roles]

Paths == Kinds \X Slugs

Routes == [content : Contents, kind : {"canonical", "redirect"}]

TypeOK ==
  /\ role \in [Users -> Roles]
  /\ rows \in [Contents -> Rows \cup {None}]
  /\ drafts \in [Contents -> Drafts \cup {None}]
  /\ captured \in 0..MaxRevisions
  /\ revisions \in [Ids -> RevisionRows \cup {None}]
  /\ reviews \in [Ids -> Reviews \cup {None}]
  /\ routes \in [Paths -> Routes \cup {None}]
  /\ generation \in Nat

ASSUME NoneIsNoRow ==
  /\ None \notin Slugs \cup Contents
  /\ None \notin Rows \cup Drafts \cup RevisionRows \cup Reviews \cup Routes

Init ==
  /\ role \in [Users -> Roles]
  /\ \A u \in Users : role[u] \in Careers[u]
  /\ \E u \in Users : role[u] = "admin"
  /\ rows = [c \in Contents |-> None]
  /\ drafts = [c \in Contents |-> None]
  /\ captured = 0
  /\ revisions = [r \in Ids |-> None]
  /\ reviews = [r \in Ids |-> None]
  /\ routes = [p \in Paths |-> None]
  /\ generation = 0

-----------------------------------------------------------------------------
(* Policy.                                                                 *)

Active(u)   == role[u] # "inactive"
Admin(u)    == role[u] = "admin"
Reviewer(u) == role[u] = "reviewer"

CanCreateContent(u, c) == IF KindOf[c] = "topic" THEN Admin(u) ELSE Active(u)

CanEditDraft(u, c) == Active(u) /\ (Admin(u) \/ rows[c].owner = u)

\* (mutation: only the owner is kept from reviewing)
CanReviewOwnByline(u, c, f) ==
  Admin(u) \/ (Reviewer(u) /\ rows[c].owner # u)

CanReview(u, c, f) ==
  Admin(u) \/ (Reviewer(u) /\ rows[c].owner # u /\ f.byline # u)

CanSetByline(u, id) == Admin(u) \/ (Active(u) /\ id = u)

CanSetFeatured(u, old, new) == Admin(u) \/ (Active(u) /\ old = new)

-----------------------------------------------------------------------------
(* Parts of the operations.                                                *)

Exists(c) == rows[c] # None

Mutable(c) == ~rows[c].archived /\ rows[c].state # "in_review"

ValidRelations(c, f) ==
  \A t \in f.targets :
    KindOf[c] = "topic" /\ t # c /\ Exists(t) /\ KindOf[t] = "curated_article"

\* save: the form is replaced under a new version.
Replace(c, f, u) ==
  /\ drafts[c].version < MaxVersion
  /\ drafts' = [drafts EXCEPT ![c] =
                  [version |-> drafts[c].version + 1, form |-> f, by |-> u]]

\* (mutation: an edited draft still counts as what is published)
MarkDraftNotEdited(row) == row

MarkDraftEdited(row) ==
  IF row.state = "synced" THEN [row EXCEPT !.state = "draft"] ELSE row

\* snapshot: a new revision with what the draft of that version holds.
Capture(c, v, u) ==
  /\ drafts[c].version = v
  /\ drafts[c].form.slug # None
  /\ ValidRelations(c, drafts[c].form)
  /\ captured < MaxRevisions
  /\ captured' = captured + 1
  /\ revisions' = [revisions EXCEPT ![captured + 1] =
       [content |-> c, form |-> drafts[c].form, by |-> u, as |-> role[u]]]

CandidatePath(c, f) == <<KindOf[c], f.slug>>

RouteAvailable(c, f) ==
  LET p == CandidatePath(c, f)
  IN  routes[p] # None => routes[p].content = c

\* (mutation: the old path of a renamed content stays canonical)
KeepCanonical(rt, c) == rt

\* (mutation: a renamed content gives up its old path)
DropCanonical(rt, c) ==
  [p \in Paths |-> IF rt[p] # None /\ rt[p].content = c THEN None ELSE rt[p]]

DemoteCanonical(rt, c) ==
  [p \in Paths |-> IF rt[p] # None /\ rt[p].content = c
                     THEN [rt[p] EXCEPT !.kind = "redirect"] ELSE rt[p]]

\* INSERT ... ON CONFLICT(path) DO UPDATE SET kind: an existing row keeps its owner.
ClaimCanonical(rt, c, q) ==
  [rt EXCEPT ![q] = IF rt[q] = None THEN [content |-> c, kind |-> "canonical"]
                                    ELSE [rt[q] EXCEPT !.kind = "canonical"]]

IsPublished(c) == Exists(c) /\ rows[c].published # 0 /\ ~rows[c].archived

\* (mutation: the targets were checked when the topic was submitted)
TargetsAssumed(c, f) == TRUE

\* UnpublishableTopicTargets = 0.
TargetsPublished(c, f) ==
  KindOf[c] = "topic" =>
    \A t \in f.targets : KindOf[t] = "curated_article" /\ IsPublished(t)

ClaimRoute(c, f) ==
  /\ RouteAvailable(c, f)
  /\ TargetsPublished(c, f)
  /\ routes' = ClaimCanonical(DemoteCanonical(routes, c), c, CandidatePath(c, f))

PublishRevision(row, r) ==
  [row EXCEPT !.published = r, !.pending = 0, !.state = "synced"]

ClearPendingRevision(row, s) == [row EXCEPT !.pending = 0, !.state = s]

MarkDirty == generation' = generation + 1

\* (mutation: the id the reviewer looked at is ignored while one is pending)
PendingOther(c, r) ==
  /\ ~rows[c].archived
  /\ rows[c].state = "in_review"
  /\ r \in 1..captured
  /\ revisions[r].content = c

Pending(c, r) ==
  /\ ~rows[c].archived
  /\ rows[c].state = "in_review"
  /\ r # 0
  /\ rows[c].pending = r

-----------------------------------------------------------------------------
(* Operations, each by a user u.                                           *)

\* An Admin changes an account; the last active Admin stays one.
ChangeUser(u, s) ==
  /\ s \in Careers[u] \ {role[u]}
  /\ role[u] = "admin" => \E w \in Users \ {u} : role[w] = "admin"
  /\ role' = [role EXCEPT ![u] = s]
  /\ UNCHANGED <<rows, drafts, captured, revisions, reviews, routes, generation>>

Create(u, c) ==
  /\ ~Exists(c)
  /\ CanCreateContent(u, c)
  /\ rows' = [rows EXCEPT ![c] = [owner |-> u, state |-> "draft", pending |-> 0,
                                  published |-> 0, archived |-> FALSE]]
  /\ drafts' = [drafts EXCEPT ![c] =
       [version |-> 1, by |-> u,
        form |-> [slug |-> None, byline |-> u, featured |-> FALSE, targets |-> {}]]]
  /\ UNCHANGED <<role, captured, revisions, reviews, routes, generation>>

Save(u, c, v, f) ==
  /\ Exists(c)
  /\ CanEditDraft(u, c)
  /\ Mutable(c)
  /\ drafts[c].version = v
  /\ CanSetByline(u, f.byline)
  /\ CanSetFeatured(u, drafts[c].form.featured, f.featured)
  /\ ValidRelations(c, f)
  /\ Replace(c, f, u)
  /\ rows' = [rows EXCEPT ![c] = MarkDraftEdited(rows[c])]
  /\ UNCHANGED <<role, captured, revisions, reviews, routes, generation>>

Submit(u, c, v) ==
  /\ Exists(c)
  /\ CanEditDraft(u, c)
  /\ Mutable(c)
  /\ rows[c].state \in {"draft", "changes_requested"}
  /\ Capture(c, v, u)
  /\ RouteAvailable(c, drafts[c].form)
  /\ rows' = [rows EXCEPT ![c] =
                [rows[c] EXCEPT !.state = "in_review", !.pending = captured + 1]]
  /\ UNCHANGED <<role, drafts, reviews, routes, generation>>

RequestChanges(u, c, r) ==
  /\ Exists(c)
  /\ Admin(u) \/ Reviewer(u)
  /\ Pending(c, r)
  /\ CanReview(u, c, revisions[r].form)
  /\ reviews[r] = None
  /\ reviews' = [reviews EXCEPT ![r] =
       [decision |-> "changes_requested", by |-> u, as |-> role[u]]]
  /\ rows' = [rows EXCEPT ![c] = ClearPendingRevision(rows[c], "changes_requested")]
  /\ UNCHANGED <<role, drafts, captured, revisions, routes, generation>>

Withdraw(u, c) ==
  /\ Exists(c)
  /\ CanEditDraft(u, c)
  /\ Pending(c, rows[c].pending)
  /\ rows' = [rows EXCEPT ![c] = ClearPendingRevision(rows[c], "draft")]
  /\ UNCHANGED <<role, drafts, captured, revisions, reviews, routes, generation>>

PublishReviewed(u, c, r) ==
  /\ Exists(c)
  /\ Admin(u) \/ Reviewer(u)
  /\ Pending(c, r)
  /\ CanReview(u, c, revisions[r].form)
  /\ ClaimRoute(c, revisions[r].form)
  /\ reviews[r] = None
  /\ reviews' = [reviews EXCEPT ![r] =
       [decision |-> "approved", by |-> u, as |-> role[u]]]
  /\ rows' = [rows EXCEPT ![c] = PublishRevision(rows[c], r)]
  /\ MarkDirty
  /\ UNCHANGED <<role, drafts, captured, revisions>>

PublishDirect(u, c, v) ==
  /\ Exists(c)
  /\ Admin(u)
  /\ Mutable(c)
  /\ rows[c].state \in {"draft", "changes_requested"}
  /\ Capture(c, v, u)
  /\ ClaimRoute(c, drafts[c].form)
  /\ rows' = [rows EXCEPT ![c] = PublishRevision(rows[c], captured + 1)]
  /\ MarkDirty
  /\ UNCHANGED <<role, drafts, reviews>>

Unpublish(u, c) ==
  /\ Exists(c)
  /\ Admin(u)
  /\ ~rows[c].archived
  /\ rows[c].published # 0
  /\ rows' = [rows EXCEPT ![c] =
       [rows[c] EXCEPT !.published = 0, !.pending = 0, !.state = "draft"]]
  /\ MarkDirty
  /\ UNCHANGED <<role, drafts, captured, revisions, reviews, routes>>

\* (mutation: archiving leaves the review open)
ArchivedRowPending(row) == [row EXCEPT !.published = 0, !.archived = TRUE]

ArchivedRow(row) ==
  [row EXCEPT !.published = 0, !.pending = 0, !.state = "draft", !.archived = TRUE]

Archive(u, c) ==
  /\ Exists(c)
  /\ Admin(u)
  /\ ~rows[c].archived
  /\ rows' = [rows EXCEPT ![c] = ArchivedRow(rows[c])]
  /\ IF rows[c].published # 0 THEN MarkDirty ELSE UNCHANGED generation
  /\ UNCHANGED <<role, drafts, captured, revisions, reviews, routes>>

RestoreArchive(u, c) ==
  /\ Exists(c)
  /\ Admin(u)
  /\ rows[c].archived
  /\ rows' = [rows EXCEPT ![c] =
                [rows[c] EXCEPT !.archived = FALSE, !.state = "draft"]]
  /\ UNCHANGED <<role, drafts, captured, revisions, reviews, routes, generation>>

\* (mutation: a form that was a draft once is taken to be allowed)
AnyMayBringBack(u, c, r) == Active(u)

MayBringBack(u, c, r) ==
  CanSetFeatured(u, drafts[c].form.featured, revisions[r].form.featured)

\* A historic form comes back as it was: its byline and relations are not
\* checked again, its featured flag is.
RestoreRevision(u, c, r, v) ==
  /\ Exists(c)
  /\ CanEditDraft(u, c)
  /\ Mutable(c)
  /\ drafts[c].version = v
  /\ revisions[r] # None
  /\ revisions[r].content = c
  /\ MayBringBack(u, c, r)
  /\ Replace(c, revisions[r].form, u)
  /\ rows' = [rows EXCEPT ![c] = ClearPendingRevision(rows[c], "draft")]
  /\ UNCHANGED <<role, captured, revisions, reviews, routes, generation>>

Next ==
  \/ \E u \in Users, s \in Roles : ChangeUser(u, s)
  \/ \E u \in Users, c \in Contents :
       \/ Create(u, c)
       \/ \E v \in 1..MaxVersion : \/ \E f \in Forms : Save(u, c, v, f)
                                   \/ Submit(u, c, v)
                                   \/ PublishDirect(u, c, v)
                                   \/ \E r \in Ids : RestoreRevision(u, c, r, v)
       \/ \E r \in Ids : RequestChanges(u, c, r) \/ PublishReviewed(u, c, r)
       \/ Withdraw(u, c)
       \/ Unpublish(u, c)
       \/ Archive(u, c)
       \/ RestoreArchive(u, c)

Spec == Init /\ [][Next]_vars

-----------------------------------------------------------------------------
(* Safety.                                                                 *)

Existing == {c \in Contents : Exists(c)}

FormOf(r) == revisions[r].form

\* No sequence of operations makes a row that the CHECKs of content_items
\* refuse: a pending pointer exactly while in review, nothing but an
\* unpublished draft in the archive.  Otherwise the operation would end in an
\* internal error instead of what the workflow says.
ChecksHold ==
  \A c \in Existing :
    /\ rows[c].state = "in_review" <=> rows[c].pending # 0
    /\ rows[c].archived =>
         rows[c].published = 0 /\ rows[c].pending = 0 /\ rows[c].state = "draft"

\* While a revision waits for its decision, the draft still holds exactly what
\* was submitted, no review of it exists, and it is the content's own: the
\* author cannot slide other text under a running review, and what an approval
\* publishes is what the author still sees.
UnderReviewIsFrozen ==
  \A c \in Existing : rows[c].state = "in_review" =>
    LET r == rows[c].pending
    IN  /\ r \in 1..captured
        /\ revisions[r].content = c
        /\ reviews[r] = None
        /\ FormOf(r) = drafts[c].form

\* A draft marked synced holds what readers get.
SyncedIsPublished ==
  \A c \in Existing : rows[c].state = "synced" =>
    /\ rows[c].published # 0
    /\ FormOf(rows[c].published) = drafts[c].form

\* Whatever is public was either approved, for that very revision, by an Admin
\* or by a Reviewer who neither owns it nor signs it, or was captured and
\* published in one go by an Admin.
PublicIsVetted ==
  \A c \in Existing : rows[c].published # 0 =>
    LET r == rows[c].published
    IN  /\ r \in 1..captured
        /\ revisions[r].content = c
        /\ IF reviews[r] = None
             THEN revisions[r].as = "admin"
             ELSE /\ reviews[r].decision = "approved"
                  /\ \/ reviews[r].as = "admin"
                     \/ /\ reviews[r].as = "reviewer"
                        /\ reviews[r].by \notin {rows[c].owner, FormOf(r).byline}

\* Ids are given in order and point at what exists; the revision that waits is
\* never the public one.
Bookkeeping ==
  /\ \A r \in Ids : revisions[r] # None <=> r <= captured
  /\ \A r \in Ids : reviews[r] # None => r <= captured
  /\ \A r \in Ids : revisions[r] # None => Exists(revisions[r].content)
  /\ \A c \in Contents : Exists(c) <=> drafts[c] # None
  /\ \A c \in Existing :
       /\ rows[c].pending <= captured
       /\ rows[c].published <= captured
       /\ rows[c].pending # 0 => rows[c].pending # rows[c].published

CanonicalPaths(c) ==
  {p \in Paths : routes[p] # None /\ routes[p] = [content |-> c, kind |-> "canonical"]}

\* A content has at most one canonical path, and a public one has exactly the
\* path that its public revision names, so readers, redirects and the exporter
\* agree where it is.
OneCanonicalPath ==
  \A c \in Contents :
    /\ \A p, q \in CanonicalPaths(c) : p = q
    /\ Exists(c) /\ rows[c].published # 0 =>
         CandidatePath(c, FormOf(rows[c].published)) \in CanonicalPaths(c)

-----------------------------------------------------------------------------
(* What a step may never do.                                               *)

\* A path belongs to the content that first claimed it, whatever is renamed,
\* unpublished, archived or published later.
RoutesArePermanent ==
  [][\A p \in Paths : routes[p] # None =>
       routes'[p] # None /\ routes'[p].content = routes[p].content]_vars

\* Two different texts of a draft never carry the same version, so a client
\* whose version is accepted has seen what it replaces.
VersionsTellDrafts ==
  [][\A c \in Existing : drafts'[c] # drafts[c] =>
       drafts'[c].version = drafts[c].version + 1]_vars

\* Nobody but an Admin changes whether a draft is featured, neither by saving
\* nor by bringing back a revision of a time when it was.
FeaturedIsAdmins ==
  [][\A c \in Existing : drafts'[c].form.featured # drafts[c].form.featured =>
       Admin(drafts'[c].by)]_vars

\* A topic goes public only when every article it lists is public at that
\* moment, however long the review took.
TopicsGoPublicWhole ==
  [][\A c \in Existing :
       LET r == rows'[c].published
       IN  r \notin {0, rows[c].published} /\ KindOf[c] = "topic" =>
             \A t \in revisions'[r].form.targets : IsPublished(t)']_vars

-----------------------------------------------------------------------------
(* Refinement: the life of a revision.                                     *)

Of == [r \in Ids |-> IF revisions[r] = None THEN None ELSE revisions[r].content]

Fate == [r \in Ids |->
  IF revisions[r] = None                             THEN "none"
  ELSE IF rows[revisions[r].content].published = r   THEN "public"
  ELSE IF rows[revisions[r].content].pending = r     THEN "open"
  ELSE "closed"]

Life == INSTANCE RevisionLife WITH of <- Of, fate <- Fate

\* A revision is public at most once in its life and never after it was
\* rejected, withdrawn or replaced; one is public and one is waiting per
\* content at most; the generation counts exactly the changes of what is
\* public.
RevisionsLiveOnce == Life!Spec
=============================================================================
