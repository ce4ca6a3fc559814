-------------------------- MODULE MCEditorialSite --------------------------
(***************************************************************************)
(* One admin runs two articles that want the same paths, or a topic and    *)
(* the article it lists.  The articles are renamed after they went public, *)
(* old paths become redirects and are asked for again; the topic goes      *)
(* public, or does not, after its article left the site.                   *)
(***************************************************************************)
EXTENDS Editorial

CONSTANTS ada, topic, first, second, s1, s2

MCUsers    == {ada}
MCContents == {topic, first, second}
MCKindOf   == [c \in MCContents |-> IF c = topic THEN "topic" ELSE "curated_article"]
MCSlugs    == {s1, s2}
MCCareers  == [u \in MCUsers |-> {"admin"}]

Form(s, ts) == [slug |-> s, byline |-> ada, featured |-> FALSE, targets |-> ts]

MCForms == {Form(s1, {}), Form(s2, {}), Form(s1, {first})}

\* Either the two articles, of which the first may be renamed twice, or the topic
\* and the first article, each saved once.
VersionsOf(c) ==
  IF topic \in Existing THEN 2 ELSE IF c = first THEN MaxVersion ELSE MaxVersion - 1

InScope ==
  /\ ~({topic, second} \subseteq Existing)
  /\ \A c \in Existing : drafts[c].version <= VersionsOf(c)
=============================================================================
