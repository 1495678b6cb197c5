--------------------------- MODULE MCTradePipeline ---------------------------
(***************************************************************************)
(* A small instance of TradePipeline: two clients, two trades.             *)
(***************************************************************************)
EXTENDS TradePipeline

CONSTANTS k1, k2, p1, p2

MCKeys == {k1, k2}
MCNav == [k \in MCKeys |-> IF k = k1 THEN 65 ELSE 0]
MCQty == [k \in MCKeys |-> IF k = k1 THEN 3 ELSE 1]
MCBoth == {k1, k2}

NoFaults == {}
AllFaults == {"publish", "settlement", "ledger", "indoubt", "crash"}
=============================================================================
