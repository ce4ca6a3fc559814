----------------------------- MODULE MCAutosave -----------------------------
(* Two sessions of one Draft.  The sessions are interchangeable.           *)
EXTENDS Autosave, TLC

CONSTANTS a, b, t0, t1, t2

Symmetry == Permutations(Sessions) \union Permutations({t1, t2})
=============================================================================
