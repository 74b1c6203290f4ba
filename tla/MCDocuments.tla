----------------------------- MODULE MCDocuments -----------------------------
(* Instances of Documents for TLC: the two jobs are alike.                  *)
EXTENDS Documents, TLC

CONSTANTS j1, j2, d1, d2, d3

\* What comes after an overlap or a failed request is not followed up.
InOrder == mixed = {}

Alike == Permutations({j1, j2})
=============================================================================
