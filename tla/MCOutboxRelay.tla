---------------------------- MODULE MCOutboxRelay ----------------------------
(***************************************************************************)
(* A small instance of OutboxRelay: two workers, rows numbered from 1.     *)
(***************************************************************************)
EXTENDS OutboxRelay

CONSTANTS w1, w2

TwoRows == 1 .. 2
ThreeRows == 1 .. 3
Refuses == {"raise"}
Loses == {"lose"}
=============================================================================
