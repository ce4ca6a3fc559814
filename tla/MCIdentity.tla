----------------------------- MODULE MCIdentity -----------------------------
(***************************************************************************)
(* The bootstrap account and two others, who log in, are approved, made    *)
(* Admins, demoted and disabled while requests are in flight.              *)
(***************************************************************************)
EXTENDS Identity, TLC

CONSTANTS boot, ann, bob, t1, t2, t3, s1, s2, s3, r1, r2

MCAccounts == {boot, ann, bob}
MCStates   == {t1, t2, t3}
MCSessions == {s1, s2, s3}
MCRequests == {r1, r2}

\* Everything but the bootstrap account is one of several alike.
Alike == Permutations({ann, bob}) \cup Permutations(MCStates)
           \cup Permutations(MCSessions) \cup Permutations(MCRequests)
=============================================================================
