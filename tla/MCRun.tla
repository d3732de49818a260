------------------------------- MODULE MCRun -------------------------------
(* Small instances of the Run reducer for TLC. *)
EXTENDS Run, TLC

CONSTANTS o1, o2, o3, k1   \* three operations and a child

OneClass == (o1 :> "NonRepeatable")
TwoClasses == (o1 :> "Reconcilable") @@ (o2 :> "NonRepeatable")
EachOnce == [o \in {o1, o2, o3} |-> "NonRepeatable"]
DetachedChild == (k1 :> "Detached")
RequiredChild == (k1 :> "MustSucceed")
NoChildren == [k \in {} |-> "Detached"]

Budget == {[iterations |-> 2, units |-> 3]}
Tight == {[iterations |-> 2, units |-> 2]}
SmallAndLarge == {[iterations |-> 1, units |-> 1], [iterations |-> 2, units |-> 3]}
=============================================================================
