------------------------------ MODULE EventBus ------------------------------
(***************************************************************************)
(* core/event_bus.py as it runs: nested publish() calls over the           *)
(* subscriptions of core/bootstrap.py.  A frame of a client's stack is one *)
(* publish() whose event was inserted: its loop is at the h-th subscribed  *)
(* handler, which is at its i-th database transaction.  The transactions   *)
(* are those of TradePipeline; what this module adds is the dispatch, and  *)
(* it is shown to implement TradePipeline, whose tables Returns and Raises *)
(* it thereby derives from the subscriptions.                              *)
(***************************************************************************)
EXTENDS Integers, Sequences, SequencesExt

CONSTANTS Clients, Keys, Nav, Qty, HasQty, Faults, NoTrade

VARIABLES
    log, settlements, history, journal, trade, settlement_id,
    stack,      \* the publish() frames of each client
    pc          \* auxiliary: the transaction each stack is at, TradePipeline's pc

\* build_system(): the handlers of each event type in subscription order.
Subscribers ==
    [TradeCreated          |-> <<"trade_ingestion", "ledger_posting">>,
     BasketRequested       |-> <<"netting">>,
     NettingExecuted       |-> <<"settlement", "ledger_posting">>,
     SettlementPending     |-> <<>>,
     SettlementApproved    |-> <<>>,
     SettlementSigned      |-> <<>>,
     SettlementBroadcasted |-> <<>>,
     SettlementConfirmed   |-> <<"custody", "ledger_posting">>,
     CustodyUpdated        |-> <<>>]

\* The transactions of each handler in program order, by TradePipeline's names.
Transactions ==
    [trade_ingestion |-> <<"ingest">>,
     netting         |-> <<"net">>,
     settlement      |->
         <<"create", "pub_pending", "approve", "pub_approved", "sign",
           "pub_signed", "broadcast", "pub_broadcasted", "confirm",
           "pub_confirmed">>,
     custody         |-> <<"custody">>]

\* The ledger handler's one transaction is named for the event it posts.
Posting ==
    [TradeCreated        |-> <<"post_trade">>,
     NettingExecuted     |-> <<"post_netting">>,
     SettlementConfirmed |-> <<"post_confirmed">>]

Body(handler, e) ==
    IF handler = "ledger_posting" THEN Posting[e] ELSE Transactions[handler]

Publishing(e) == [event |-> e, h |-> 1, i |-> 1]

InLoop(f) == f.h <= Len(Subscribers[f.event])
Handler(f) == Body(Subscribers[f.event][f.h], f.event)
InHandler(f) == InLoop(f) /\ f.i <= Len(Handler(f))

\* The handler goes on to its next transaction.
Advanced(f) == [f EXCEPT !.i = @ + 1]

\* The loop takes the next handler: the last one returned, or was caught.
NextHandler(f) == [event |-> f.event, h |-> f.h + 1, i |-> 1]

SetTop(st, f) == Append(Front(st), f)

\* publish() of the event below the top returns into the handler that called it.
Popped(st) ==
    IF Len(st) = 1 THEN <<>> ELSE SetTop(Front(st), Advanced(Last(Front(st))))

\* What the loop of a frame runs next, its handler being at the i-th: that
\* transaction, or the first one of the handler after it.
NextIn(f, i) ==
    IF ~InLoop(f) THEN "idle"
    ELSE IF i <= Len(Handler(f)) THEN Handler(f)[i]
    ELSE IF ~InLoop(NextHandler(f)) THEN "idle"
    ELSE Handler(NextHandler(f))[1]

\* What the n-th frame of a stack has left: below the top its handler waits in
\* a publish(), which is the transaction it goes on from.
Left(st, n) == NextIn(st[n], IF n = Len(st) THEN st[n].i ELSE st[n].i + 1)

\* The transaction a stack is at: that of the topmost frame with any left.
PointOf(st) ==
    LET busy == {n \in DOMAIN st : Left(st, n) # "idle"}
    IN  IF busy = {} THEN "idle" ELSE Left(st, Max(busy))

P == INSTANCE TradePipeline

vars == <<log, settlements, history, journal, trade, settlement_id, stack, pc>>

-----------------------------------------------------------------------------
Init ==
    /\ log = [k \in Keys |-> <<>>]
    /\ settlements = [k \in Keys |-> <<>>]
    /\ history = [k \in Keys |-> <<>>]
    /\ journal = [k \in Keys |-> <<>>]
    /\ stack = [p \in Clients |-> <<>>]
    /\ pc = [p \in Clients |-> "idle"]
    /\ trade = [p \in Clients |-> NoTrade]
    /\ settlement_id = [p \in Clients |-> 0]

Restack(p, after) ==
    \E st \in {after} : /\ stack' = [stack EXCEPT ![p] = st]
                        /\ pc' = [pc EXCEPT ![p] = PointOf(st)]

\* publish() called by a client.
publish(p, k) ==
    /\ stack[p] = <<>>
    /\ ~P!IsDuplicate(k)
    /\ P!persist_event(k, "TradeCreated")
    /\ \/ /\ Restack(p, <<Publishing("TradeCreated")>>)
          /\ trade' = [trade EXCEPT ![p] = k]
       \/ /\ "indoubt" \in Faults
          /\ UNCHANGED <<stack, pc, trade>>
    /\ UNCHANGED <<settlements, history, journal, settlement_id>>

Top(p) == Last(stack[p])

\* The client's top handler is about to run its transaction pt.
At(p, pt) ==
    /\ stack[p] # <<>>
    /\ InHandler(Top(p))
    /\ Handler(Top(p))[Top(p).i] = pt

\* Mutant: the loop is outside the try, an exception ends it.
Catch_OutsideLoop(st) == Popped(st)

\* An exception of the running handler is caught by the loop that called it.
Catch(st) == SetTop(st, NextHandler(Last(st)))

\* The transaction commits; should its answer be lost, the handler unwinds.
Done(p, after) ==
    /\ \/ Restack(p, after)
       \/ "indoubt" \in Faults /\ Restack(p, Catch(stack[p]))
    /\ UNCHANGED trade

\* publish() called by a handler: persist_event, and the loop is entered.
PublishChild(p) ==
    \E pt \in DOMAIN P!Publishes :
        /\ At(p, pt)
        /\ ~(pt = "net" /\ trade[p] \notin HasQty)
        /\ P!persist_event(trade[p], P!Publishes[pt])
        /\ Done(p, Append(stack[p], Publishing(P!Publishes[pt])))
        /\ UNCHANGED <<settlements, history, journal, settlement_id>>

CreateSettlement(p) ==
    /\ At(p, "create")
    /\ LET k == trade[p]
           s == Len(settlements[k]) + 1
       IN  /\ settlements' = [settlements EXCEPT ![k] = Append(@, "PENDING")]
           /\ P!record_state_change(k, s, "NULL", "PENDING")
           /\ settlement_id' = [settlement_id EXCEPT ![p] = s]
    /\ Done(p, SetTop(stack[p], Advanced(Top(p))))
    /\ UNCHANGED <<log, journal>>

\* Steps 2 to 5 of the settlement handler.
UpdateSettlement(p) ==
    /\ \/ /\ At(p, "approve")
          /\ settlements[trade[p]][settlement_id[p]] = "PENDING"
          /\ P!update_status(p, "PENDING", "APPROVED")
       \/ At(p, "sign") /\ P!update_status(p, "APPROVED", "SIGNED")
       \/ At(p, "broadcast") /\ P!update_status(p, "SIGNED", "BROADCASTED")
       \/ At(p, "confirm") /\ P!update_status(p, "BROADCASTED", "CONFIRMED")
    /\ Done(p, SetTop(stack[p], Advanced(Top(p))))
    /\ UNCHANGED <<log, journal, settlement_id>>

PostLedger(p) ==
    \E pt \in DOMAIN P!Posts :
        /\ At(p, pt)
        /\ journal' = [journal EXCEPT ![trade[p]] =
               @ \o P!legs(P!get_accounts(trade[p], P!Posts[pt]))]
        /\ Done(p, SetTop(stack[p], Advanced(Top(p))))
        /\ UNCHANGED <<log, settlements, history, settlement_id>>

Raise(p) ==
    /\ stack[p] # <<>>
    /\ InHandler(Top(p))
    /\ P!MayFail(p)
    /\ Restack(p, Catch(stack[p]))
    /\ UNCHANGED <<log, settlements, history, journal, trade, settlement_id>>

\* A handler returns and the loop of its publish() takes the next one.
HandlerReturns(p) ==
    /\ stack[p] # <<>>
    /\ InLoop(Top(p)) /\ ~InHandler(Top(p))
    /\ Restack(p, SetTop(stack[p], NextHandler(Top(p))))
    /\ UNCHANGED <<log, settlements, history, journal, trade, settlement_id>>

\* Mutant: publish() holds a lock a nested publish() cannot take and release.
PublishReturns_Outermost(p) ==
    /\ Len(stack[p]) = 1
    /\ ~InLoop(Top(p))
    /\ Restack(p, <<>>)
    /\ UNCHANGED <<log, settlements, history, journal, trade, settlement_id>>

\* The loop is done and publish() returns to its caller.
PublishReturns(p) ==
    /\ stack[p] # <<>>
    /\ ~InLoop(Top(p))
    /\ Restack(p, Popped(stack[p]))
    /\ UNCHANGED <<log, settlements, history, journal, trade, settlement_id>>

Crash(p) ==
    /\ "crash" \in Faults
    /\ stack[p] # <<>>
    /\ Restack(p, <<>>)
    /\ UNCHANGED <<log, settlements, history, journal, trade, settlement_id>>

Step(p) ==
    \/ PublishChild(p)
    \/ CreateSettlement(p)
    \/ UpdateSettlement(p)
    \/ PostLedger(p)
    \/ Raise(p)
    \/ HandlerReturns(p)
    \/ PublishReturns(p)

Next ==
    \E p \in Clients :
        \/ \E k \in Keys : publish(p, k)
        \/ Step(p)
        \/ Crash(p)

\* A client whose call returned need not make another.
Spec == Init /\ [][Next]_vars /\ \A p \in Clients : WF_vars(Step(p))

-----------------------------------------------------------------------------
\* The dispatch loop over the subscriptions runs the same transactions in the
\* same order, and resumes at the same ones after an exception, a lost answer
\* or a crash, as the two tables of TradePipeline say.
ImplementsPipeline == P!Spec

\* However deep the publish() calls nest and whatever the handlers raise, the
\* client's own publish() returns: every frame is popped again.
DispatchEnds == \A p \in Clients : stack[p] # <<>> ~> stack[p] = <<>>
=============================================================================
