---------------------------- MODULE MCSessionLog ----------------------------
(* Small instances of the Session log for TLC. *)
EXTENDS SessionLog

CONSTANTS i1, i2, interrupted, cancelled   \* two requests and two reasons
=============================================================================
