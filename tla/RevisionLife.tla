---------------------------- MODULE RevisionLife ----------------------------
(***************************************************************************)
(* What the editorial workflow promises about a revision: it is captured   *)
(* once for one content, may wait for a decision, may become public, and   *)
(* is closed for good afterwards.  Of every content at most one revision   *)
(* waits and at most one is public.  The generation moves with every change*)
(* of what is public and with nothing else: it is the only thing the       *)
(* publication pipeline hears.                                             *)
(***************************************************************************)
EXTENDS Naturals

CONSTANTS Contents, Ids, None

VARIABLES of, fate, generation

Mine(c) == {r \in Ids : of[r] = c}

WithFate(c, s) == {r \in Mine(c) : fate[r] = s}

Init ==
  /\ of = [r \in Ids |-> None]
  /\ fate = [r \in Ids |-> "none"]
  /\ generation = 0

\* fate with the revisions of c that wait or are public closed
Closing(c, states) ==
  [r \in Ids |-> IF of[r] = c /\ fate[r] \in states THEN "closed" ELSE fate[r]]

\* A new revision waits for its decision.
Propose(c, r) ==
  /\ fate[r] = "none"
  /\ WithFate(c, "open") = {}
  /\ of' = [of EXCEPT ![r] = c]
  /\ fate' = [fate EXCEPT ![r] = "open"]
  /\ UNCHANGED generation

\* It is rejected, withdrawn or dropped with its content.
Drop(c) ==
  /\ WithFate(c, "open") # {}
  /\ fate' = Closing(c, {"open"})
  /\ UNCHANGED <<of, generation>>

\* The waiting revision, or a new one when none waits, replaces the public one.
GoPublic(c, r) ==
  /\ \/ /\ fate[r] = "open"
        /\ of[r] = c
        /\ UNCHANGED of
     \/ /\ fate[r] = "none"
        /\ WithFate(c, "open") = {}
        /\ of' = [of EXCEPT ![r] = c]
  /\ fate' = [Closing(c, {"public"}) EXCEPT ![r] = "public"]
  /\ generation' = generation + 1

\* The public revision goes, and with it the one that waits.
TakeDown(c) ==
  /\ WithFate(c, "public") # {}
  /\ fate' = Closing(c, {"public", "open"})
  /\ generation' = generation + 1
  /\ UNCHANGED of

Next ==
  \E c \in Contents : \/ \E r \in Ids : Propose(c, r) \/ GoPublic(c, r)
                      \/ Drop(c)
                      \/ TakeDown(c)

Spec == Init /\ [][Next]_<<of, fate, generation>>
=============================================================================
