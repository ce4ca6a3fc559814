--------------------------- MODULE MCPublication ---------------------------
(***************************************************************************)
(* A small site for TLC: a topic that lists one article, an article with   *)
(* two revisions of which one carries a tag.                               *)
(***************************************************************************)
EXTENDS Publication, TLC

CONSTANTS topic, article, t1, a1, a2, tag, v1, v2

MCItems        == {topic, article}
MCRevisions    == {t1, a1, a2}
MCShared       == {tag}
MCSharedValues == {v1, v2}
MCRevisionsOf  == [i \in MCItems |-> IF i = topic THEN {t1} ELSE {a1, a2}]
MCUsesOf       == [r \in MCRevisions |-> IF r = a1 THEN {tag} ELSE {}]
Symmetry       == Permutations(MCSharedValues)
MCTargetsOf    == [r \in MCRevisions |-> IF r = t1 THEN {article} ELSE {}]
============================================================================
