---------------------------- MODULE RunLifecycle ----------------------------
(***************************************************************************)
(* What a Run promises about its lifecycle: the abstract specification     *)
(* that Run implements.                                                    *)
(***************************************************************************)
EXTENDS RunPhases

VARIABLES phase, open

lvars == <<phase, open>>

LInit == phase = "Active" /\ open = FALSE
LNext == Moves(phase, open, phase', open')
LSpec == LInit /\ [][LNext]_lvars
=============================================================================
