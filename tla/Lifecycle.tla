------------------------------ MODULE Lifecycle ------------------------------
(***************************************************************************)
(* What the platform promises about one trade, and nothing about how: the  *)
(* events recorded for a trade start with TradeCreated, each later one is  *)
(* allowed by the transition table after the one before it, and none is    *)
(* ever recorded again.  validate_transition states the rule but no code   *)
(* calls it: that the event bus, its handlers and the idempotency key keep *)
(* to it anyhow is what TradePipeline is shown to implement.               *)
(***************************************************************************)
EXTENDS StateMachine, Sequences

CONSTANT Trades

VARIABLE log        \* [Trades -> Seq(EventTypes)]: a trade's events, in order

Init == log = [t \in Trades |-> <<>>]

Begin(t) ==
    /\ log[t] = <<>>
    /\ log' = [log EXCEPT ![t] = <<"TradeCreated">>]

Advance(t, e) ==
    /\ log[t] # <<>>
    /\ validate_transition(log[t][Len(log[t])], e)
    /\ log' = [log EXCEPT ![t] = Append(@, e)]

Next == \E t \in Trades : Begin(t) \/ \E e \in EventTypes : Advance(t, e)

Spec == Init /\ [][Next]_log
=============================================================================
