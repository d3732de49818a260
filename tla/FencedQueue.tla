---------------------------- MODULE FencedQueue ----------------------------
(***************************************************************************)
(* What the activation coordinator promises, without rows, clocks or       *)
(* leases: permissions are minted with strictly growing tokens per work    *)
(* item, only the newest permission of an item may record an outcome, and  *)
(* no permission records one twice.                                        *)
(***************************************************************************)
EXTENDS Integers

CONSTANTS Items, Workers

VARIABLES issued,     \* every permission that was ever handed to a worker
          recorded    \* the permissions whose outcome was recorded

qvars == <<issued, recorded>>

Handle == [item : Items, worker : Workers, token : Nat]

\* h carries a larger token than every other permission of its item in S.
NewestIn(h, S) ==
  \A g \in S : g.item = h.item /\ g # h => g.token < h.token

QInit == issued = {} /\ recorded = {}

\* One sweep hands out permissions for several items, one per item.
Mint ==
  /\ issued \subseteq issued' /\ issued' \subseteq Handle
  /\ \A h \in issued' \ issued : NewestIn(h, issued')
  /\ UNCHANGED recorded

Record(h) ==
  /\ h \in issued \ recorded
  /\ NewestIn(h, issued)
  /\ recorded' = recorded \cup {h}
  /\ UNCHANGED issued

QNext == Mint \/ \E h \in issued : Record(h)

QSpec == QInit /\ [][QNext]_qvars
=============================================================================
