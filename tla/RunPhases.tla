----------------------------- MODULE RunPhases -----------------------------
(***************************************************************************)
(* The phases of a Run and the moves between them.  A Run is open while an *)
(* iteration, an effect or a child of it is unsettled.  Each operator      *)
(* relates the phase p and openness o of a record to those of a successor, *)
(* q and n.                                                                *)
(***************************************************************************)

Phases == {"Active", "Waiting", "Recovering", "Terminal", "Tombstoned"}

\* A status that is not terminal.
Live == {"Active", "Waiting", "Recovering"}

\* Only an Active Run takes on work; a callback may settle it at any time, and
\* Host control changes the phase without touching the work.
Working(p, o, q, n) ==
  /\ p \in Live \cup {"Terminal"} /\ q = p
  /\ n => o \/ p = "Active"

Controlled(p, o, q, n) ==
  /\ n = o
  /\ \/ p = "Active" /\ q \in {"Waiting", "Terminal"}
     \/ p = "Waiting" /\ q \in {"Active", "Terminal"}
     \/ p = "Recovering" /\ q = "Terminal"
     \/ p = "Terminal" /\ ~o /\ q = "Tombstoned"

\* An outcome that cannot be trusted sends a Run that has open work back to
\* recovery, also after its end.
Fences(p, o, q, n) ==
  /\ p \in Live \cup {"Terminal"} /\ q = "Recovering"
  /\ o /\ n

\* Recovery ends with all work settled.
Recovered(p, o, q, n) ==
  /\ p = "Recovering" /\ q \in {"Active", "Waiting", "Terminal"}
  /\ ~n

\* The moves of a command, and of a callback, which opens no work.
Commanded(p, o, q, n) ==
  Working(p, o, q, n) \/ Controlled(p, o, q, n) \/ Recovered(p, o, q, n)
CalledBack(p, o, q, n) ==
  (Working(p, o, q, n) /\ (n => o)) \/ Fences(p, o, q, n)

\* begin_recovery, which any Run but a settled terminal one can enter.
Reopens(p, o, q, n) ==
  /\ p \in Live \/ (p = "Terminal" /\ o)
  /\ q = "Recovering" /\ n = o

\* One step of a Run.
Moves(p, o, q, n) ==
  Commanded(p, o, q, n) \/ CalledBack(p, o, q, n) \/ Reopens(p, o, q, n)
=============================================================================
