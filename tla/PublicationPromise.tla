------------------------- MODULE PublicationPromise -------------------------
(***************************************************************************)
(* What the publication pipeline promises, without worker, jobs or store:  *)
(* the site an editor has committed, the site the store serves to a build, *)
(* and the commits for which a build was ordered.  The served site is      *)
(* always one whole committed site, it only ever jumps to the newest       *)
(* commit, and a build is ordered only while the served site is newest.    *)
(***************************************************************************)
EXTENDS Naturals

CONSTANTS Sites, Nothing

VARIABLES
  commit,  \* number of public commits so far
  site,    \* the committed public site
  served,  \* the commit and the site a build would read, or Nothing
  ordered  \* the commits for which a build was accepted

promise == <<commit, site, served, ordered>>

Init ==
  /\ commit = 0
  /\ site \in Sites
  /\ served = Nothing
  /\ ordered = {}

Commit ==
  /\ commit' = commit + 1
  /\ site' \in Sites
  /\ UNCHANGED <<served, ordered>>

Serve ==
  /\ served' = [commit |-> commit, site |-> site]
  /\ UNCHANGED <<commit, site, ordered>>

Order ==
  /\ served = [commit |-> commit, site |-> site]
  /\ ordered' = ordered \cup {commit}
  /\ UNCHANGED <<commit, site, served>>

Next == Commit \/ Serve \/ Order

Spec == Init /\ [][Next]_promise
=============================================================================
