----------------------------- MODULE MCChainRails -----------------------------
(***************************************************************************)
(* A small instance of ChainRails: two threads, three trades, one of them  *)
(* without a "qty" in its payload.  Which trades a fault has disturbed is  *)
(* kept beside it, so that the others can be asked to complete.            *)
(***************************************************************************)
EXTENDS ChainRails

CONSTANTS k1, k2, k3, p1, p2

MCKeys == {k1, k2, k3}
MCNav == [k \in MCKeys |-> IF k = k1 THEN 65 ELSE 0]
MCQty == [k \in MCKeys |-> IF k = k1 THEN 3 ELSE 1]
MCHasQty == {k1, k2}

HandlerFaults == {"publish", "settlement"}

VARIABLE raised     \* auxiliary: trades in which a fault has been injected

mc_vars == <<vars, rail_vars, raised>>

MCInit == RailsInit /\ raised = {}

\* A payload without "qty" is no fault: its exception comes every time.
Injected(p) == Raise(p) /\ ~MissingQty(p)

MCNext ==
    /\ RailsNext
    /\ raised' = raised \cup {trade[p] : p \in {q \in Clients : Injected(q)}}

MCSpec ==
    /\ MCInit
    /\ [][MCNext]_mc_vars
    /\ Scheduled

\* Sixteen transactions, one after the other: a recorded trade goes all the way
\* unless an exception is raised in it, whatever is raised in the trades beside
\* it, which share the handlers, the tables and the block counter.
TradeCompletes == \A k \in Keys : log[k] # <<>> ~> Complete(k) \/ k \in raised
=============================================================================
