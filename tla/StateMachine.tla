---------------------------- MODULE StateMachine ----------------------------
(***************************************************************************)
(* The tables of events/events.py and events/state_machine.py: the domain  *)
(* events, which event may follow which, and the settlement statuses with  *)
(* the rule that a settlement advances exactly one status at a time.       *)
(***************************************************************************)
EXTENDS Naturals

SettlementEvents ==
    {"SettlementPending", "SettlementApproved", "SettlementSigned",
     "SettlementBroadcasted", "SettlementConfirmed"}

EventTypes ==
    {"TradeCreated", "BasketRequested", "NettingExecuted", "CustodyUpdated"}
        \cup SettlementEvents

\* CUSTODY_UPDATED is no key of the dictionaries: nothing may follow it.
ALLOWED_TRANSITIONS ==
    [TradeCreated          |-> {"BasketRequested"},
     BasketRequested       |-> {"NettingExecuted"},
     NettingExecuted       |-> {"SettlementPending"},
     SettlementPending     |-> {"SettlementApproved"},
     SettlementApproved    |-> {"SettlementSigned"},
     SettlementSigned      |-> {"SettlementBroadcasted"},
     SettlementBroadcasted |-> {"SettlementConfirmed"},
     SettlementConfirmed   |-> {"CustodyUpdated"},
     CustodyUpdated        |-> {}]

\* validate_transition raises unless this holds.
validate_transition(current, next_event) ==
    next_event \in ALLOWED_TRANSITIONS[current]

Statuses == {"PENDING", "APPROVED", "SIGNED", "BROADCASTED", "CONFIRMED"}

SETTLEMENT_STATE_ORDER ==
    [PENDING |-> 0, APPROVED |-> 1, SIGNED |-> 2,
     BROADCASTED |-> 3, CONFIRMED |-> 4]

\* validate_settlement_state raises unless this holds.
validate_settlement_state(current_status, next_status) ==
    /\ current_status \in Statuses
    /\ next_status \in Statuses
    /\ SETTLEMENT_STATE_ORDER[next_status]
           = SETTLEMENT_STATE_ORDER[current_status] + 1
=============================================================================
