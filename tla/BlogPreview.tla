---------------------------- MODULE BlogPreview ----------------------------
(***************************************************************************)
(* A saved draft shown as the site will show it (blogPreview of editor.tsx,*)
(* features/content/blog-preview.ts, the site's dev/preview.ts): a window  *)
(* is opened at once, the draft is saved, read with its author and posted  *)
(* to the site, which takes nothing it would not take of a snapshot but    *)
(* the few fields a draft may still lack.  Meanwhile the draft and the     *)
(* profiles change, any call may fail and the window may be closed.        *)
(*                                                                         *)
(* Abstractions: a text is "" or one of its kind; the text of a draft and  *)
(* of a profile is what the server saves, which both sides take alike;     *)
(* sizes are checked as numbers.                                           *)
(***************************************************************************)
EXTENDS Naturals, Sequences, FiniteSets, Functions

CONSTANTS
    Drafts,      \* what the server saves as a draft
    Authors,     \* the users with a profile
    MaxVersion,  \* bound on the versions of the draft
    Sizes        \* the sizes of the projection, in bytes

VARIABLE
    box    \* the draft and its version, the version of each profile; the
           \* window, the stage of the preview, what it has read; what was posted

Locales == {"zh", "en"}
NoText  == ""

\* What the server saves as a draft: fields may be missing, but what is there is right.
Saves(d) ==
    /\ d.type \in {"post", "note", "curated_article", "topic"} /\ d.byline \in Authors
    /\ d.type = "note" => DOMAIN d.payload = {"group", "groupSlug"}
    /\ d.type = "curated_article" =>
          /\ d.payload.sourceUrl \in {NoText, "web"} /\ d.payload.rating \in {NoText, "A"}
          /\ NoText \notin d.payload.links
    /\ IF d.type = "topic" THEN d.tags = <<>> /\ d.payload.recommended <= Len(d.entries) ELSE d.entries = <<>>
    /\ IsInjective(d.tags) /\ IsInjective(d.entries) /\ 1 \notin Range(d.entries)

-----------------------------------------------------------------------------
(* The Admin: the projection of a draft.                                    *)

Or(text, other) == IF text = NoText THEN other ELSE text

\* (mutation: a draft without an address is sent as it is)
SlugAsSaved(slug) == slug

SlugOf(slug) == Or(slug, "preview-1")

Payload(d) == IF d.type # "note" THEN d.payload
              ELSE [d.payload EXCEPT !.group = Or(@, "none"), !.groupSlug = Or(@, "preview")]

English(d, locale) == locale = "en" /\ d.type \in {"curated_article", "topic"} /\ d.english

Projection(d, version, author, locale) ==
    [locale |-> locale, version |-> version, type |-> d.type, slug |-> SlugOf(d.slug), author |-> d.byline,
     under |-> IF d.type = "note" THEN Payload(d).groupSlug ELSE d.type,
     title |-> IF English(d, locale) THEN Or(d.titleEn, "untitled") ELSE Or(d.title, "untitled"),
     language |-> IF English(d, locale) THEN "en" ELSE Or(d.language, "zh-CN"),
     cover |-> d.cover, tags |-> d.tags, entries |-> d.entries, payload |-> Payload(d),
     withAuthor |-> author, withCover |-> d.cover, withTags |-> Range(d.tags), withTargets |-> Range(d.entries)]

-----------------------------------------------------------------------------
(* The site: parsePreview.                                                  *)

Schema(x) ==
    /\ x.title # NoText /\ x.slug # NoText /\ x.language # NoText /\ x.under # NoText
    /\ x.type = "note" => x.payload.group # NoText /\ x.payload.groupSlug # NoText
    /\ x.type # "topic" => x.entries = <<>>
    /\ x.type = "topic" => x.tags = <<>>
    /\ x.type = "curated_article" =>
          /\ x.payload.sourceUrl \in {NoText, "web"} /\ x.payload.rating \in {NoText, "A"}
          /\ NoText \notin x.payload.links

Accepts(x) ==
    /\ Schema(x)
    /\ x.type = "topic" => x.payload.recommended <= Len(x.entries)
    /\ x.author = x.withAuthor.user /\ x.cover = x.withCover
    /\ IsInjective(x.tags) /\ Range(x.tags) = x.withTags
    /\ IsInjective(x.entries) /\ Range(x.entries) = x.withTargets /\ 1 \notin Range(x.entries)

\* Bytes of the form: every byte of the projection may be written as three, but its
\* names are letters; "preview=" comes first.
Limit == 1048576
Posted(size, letters) == 8 + letters + 3 * (size - letters)
Taken(size, letters)  == Posted(size, letters) <= 3 * Limit

-----------------------------------------------------------------------------
(* The preview.                                                             *)

Nothing == [draft |-> <<>>, version |-> 0, saved |-> 0, size |-> 0]

Init ==
    \E d \in Drafts, locale \in Locales :
        box = [draft |-> d, version |-> 1, profiles |-> [a \in Authors |-> 1], window |-> "none", stage |-> "idle",
               locale |-> locale, read |-> Nothing, posted |-> <<>>, answer |-> "none"]

Open == box.stage = "idle" /\ box.window = "none" /\ box' = [box EXCEPT !.window = "blank", !.stage = "saving"]

\* flush: everything the author typed is saved, or the preview ends.
Saved == box.stage = "saving" /\ box' = [box EXCEPT !.stage = "reading", !.read.saved = box.version]

\* getContent: the draft as it is now, its labels with it.
Read ==
    /\ box.stage = "reading"
    /\ box' = [box EXCEPT !.stage = "author", !.read.draft = <<box.draft>>, !.read.version = box.version]

\* The profile of the draft's byline; the projection goes through the limit; a window closed ends it.
Post ==
    /\ box.stage = "author"
    /\ LET d == box.read.draft[1]
           x == Projection(d, box.read.version, [user |-> d.byline, version |-> box.profiles[d.byline]], box.locale)
       IN  \E size \in Sizes :
              box' = IF size > Limit THEN [box EXCEPT !.stage = "idle", !.window = "closed"]
                     ELSE IF box.window = "closed" THEN [box EXCEPT !.stage = "idle"]
                     ELSE [box EXCEPT !.stage = "idle", !.posted = <<x>>, !.read.size = size, !.window = "posting"]

Answer ==
    /\ box.window = "posting"
    /\ box' = [box EXCEPT !.window = "shown",
                          !.answer = IF Accepts(box.posted[1]) /\ Taken(box.read.size, 4) THEN "page" ELSE "refused"]

\* A version conflict, a refused or unanswered call: the catch closes the window.
Fails == box.stage \in {"saving", "reading", "author"} /\ box' = [box EXCEPT !.stage = "idle", !.window = "closed"]

Close == box.window = "blank" /\ box' = [box EXCEPT !.window = "closed"]

\* Another save of the draft, by anyone who may, and of a profile.
Edit ==
    \/ /\ box.version < MaxVersion
       /\ \E d \in {d \in Drafts : d.type = box.draft.type} : box' = [box EXCEPT !.draft = d, !.version = @ + 1]
    \/ \E a \in Authors : box.profiles[a] < MaxVersion /\ box' = [box EXCEPT !.profiles[a] = @ + 1]

Next == Open \/ Saved \/ Read \/ Post \/ Answer \/ Fails \/ Close \/ Edit

Spec == Init /\ [][Next]_box

-----------------------------------------------------------------------------
(* Properties.                                                              *)

\* Whatever a saved draft still lacks, the site shows it: nothing the Admin posts
\* is refused, by its form, its relations or its size in the form's encoding; what
\* is shown is one saved version, no older than what the author had on asking, in
\* the locale asked for, under the profile of its own byline; and a window is not
\* left blank when nothing is under way (blog-preview.ts:7-142, preview.ts:68-180,
\* editor.tsx:270-297).
PreviewIsShown ==
    /\ box.answer # "refused"
    /\ box.posted # <<>> =>
          LET x == box.posted[1] IN
          /\ x.version >= box.read.saved /\ x.version = box.read.version
          /\ x.locale = box.locale /\ x.withAuthor.user = x.author
          /\ x.title = "untitled" <=> (IF English(box.read.draft[1], x.locale) THEN box.read.draft[1].titleEn
                                       ELSE box.read.draft[1].title) = NoText
    /\ box.window = "blank" => box.stage # "idle"
=============================================================================
