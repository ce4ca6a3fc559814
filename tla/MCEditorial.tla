---------------------------- MODULE MCEditorial ----------------------------
(***************************************************************************)
(* One post, an admin, a reviewer who was an admin or becomes one, and an  *)
(* editor who is made a reviewer: who may decide on what, on which         *)
(* revision, and who may bring back which text.                            *)
(***************************************************************************)
EXTENDS Editorial

CONSTANTS ada, rex, ed, post, s1, s2

MCUsers    == {ada, rex, ed}
MCContents == {post}
MCKindOf   == [c \in MCContents |-> "post"]
MCSlugs    == {s1, s2}
MCCareers  == [u \in MCUsers |-> CASE u = ada -> {"admin"}
                                   [] u = rex -> {"reviewer", "admin"}
                                   [] u = ed  -> {"editor", "reviewer"}]

Form(s, b, f) == [slug |-> s, byline |-> b, featured |-> f, targets |-> {}]

\* What anybody may save, and what takes an Admin: featured, signed by another.
MCForms == {Form(s1, ed, FALSE), Form(s2, rex, TRUE)}
=============================================================================
