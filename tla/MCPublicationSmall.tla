------------------------- MODULE MCPublicationSmall ------------------------
(***************************************************************************)
(* A smaller site for the liveness runs: a topic, the article it lists and *)
(* no shared rows, so that three generations can make the projection       *)
(* impossible to export (publish, publish the topic, unpublish).           *)
(***************************************************************************)
EXTENDS Publication

CONSTANTS topic, article, t1, a1

MCItems        == {topic, article}
MCRevisions    == {t1, a1}
MCShared       == {}
MCSharedValues == {}
MCRevisionsOf  == [i \in MCItems |-> IF i = topic THEN {t1} ELSE {a1}]
MCUsesOf       == [r \in MCRevisions |-> {}]
MCTargetsOf    == [r \in MCRevisions |-> IF r = t1 THEN {article} ELSE {}]
============================================================================
