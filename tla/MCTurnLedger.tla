---------------------------- MODULE MCTurnLedger ----------------------------
(* Small instances of the Turn ledger for TLC. *)
EXTENDS TurnLedger, TLC

CONSTANTS t1, t2, t3, o1   \* Turns and an operation

\* Every Turn has a prompt of its own.
OwnPrompt == [t \in Turns |-> t]

\* The Turns with a plain text prompt are interchangeable.
Plain == Permutations(Turns \ Rich)
=============================================================================
