---------------------------- MODULE MCActivation ----------------------------
(* Small instances of the activation coordinator for TLC. *)
EXTENDS Activation, TLC

Symmetry == Permutations(Workers)
=============================================================================
