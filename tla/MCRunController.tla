-------------------------- MODULE MCRunController --------------------------
(* Small instances of the Run controllers for TLC. *)
EXTENDS RunController, TLC

CONSTANTS c1, c2, r1, r2, m1, m2, m3, m4

\* The two controllers are interchangeable.
Symmetry == Permutations({c1, c2})
=============================================================================
