------------------------------ MODULE MCPlatform ------------------------------
(***************************************************************************)
(* A small instance of Platform: two clients, two trades, one job.         *)
(***************************************************************************)
EXTENDS Platform

CONSTANTS k1, k2, p1, p2

MCKeys == {k1, k2}
MCNav == [k \in MCKeys |-> IF k = k1 THEN 65 ELSE 7]
MCQty == [k \in MCKeys |-> IF k = k1 THEN 3 ELSE 1]

MCHasQty == {k1}

StepFaults == {"settlement", "ledger"}
=============================================================================
