----------------------------- MODULE MCEventBus -----------------------------
(***************************************************************************)
(* A small instance of EventBus: two clients, two trades.                  *)
(***************************************************************************)
EXTENDS EventBus

CONSTANTS k1, k2, p1, p2

MCKeys == {k1, k2}
MCNav == [k \in MCKeys |-> IF k = k1 THEN 65 ELSE 0]
MCQty == [k \in MCKeys |-> IF k = k1 THEN 3 ELSE 1]
MCHasQty == {k1}
AllFaults == {"publish", "settlement", "ledger", "indoubt", "crash"}
=============================================================================
