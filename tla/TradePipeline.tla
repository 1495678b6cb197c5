---------------------------- MODULE TradePipeline ----------------------------
(***************************************************************************)
(* The in-process trade pipeline: EventBus.publish, the event store's      *)
(* idempotency gate, and the five handlers core/bootstrap.py subscribes.   *)
(* publish() runs its handlers synchronously and they publish in turn, so  *)
(* one root publish is a single call tree.  Every row a handler writes and *)
(* every persist_event is a transaction of its own; a control point pc[p]  *)
(* names the next transaction of client p's call tree, Returns where the   *)
(* tree goes after it, Raises where the nearest publish() loop resumes     *)
(* after catching an exception.  Module EventBus derives both tables from  *)
(* the subscriptions.                                                      *)
(*                                                                         *)
(* A trade is known by the idempotency key of its root event.  The child   *)
(* events inherit its trace and carry fresh keys, which never collide; the *)
(* tables are kept per trade.  persist_event writes the outbox row in the  *)
(* event's own transaction: log stands for both (OutboxRelay takes over).  *)
(***************************************************************************)
EXTENDS StateMachine, Integers, Sequences

CONSTANTS
    Clients,    \* callers of bus.publish: threads or processes
    Keys,       \* idempotency keys of root events, one per trade
    Nav,        \* payload "nav" of each trade, 0 when absent
    Qty,        \* payload "qty" of each trade
    HasQty,     \* the trades whose payload has a "qty" at all
    Faults,     \* which faults the environment may inject
    NoTrade     \* a client that runs no trade

FaultKinds == {"publish", "settlement", "ledger", "indoubt", "crash"}

ASSUME PipelineAssumption ==
    /\ Nav \in [Keys -> Int]
    /\ Qty \in [Keys -> Int]
    /\ HasQty \subseteq Keys
    /\ Faults \subseteq FaultKinds
    /\ NoTrade \notin Keys

VARIABLES
    log,            \* event_log, per trade: event types in insertion order
    settlements,    \* settlement_instructions, per trade: status of each row
    history,        \* settlement_state_history, per trade, append-only
    journal,        \* journal_entries, per trade, append-only
    pc,             \* the next transaction of each client's call tree
    trade,          \* the trade each client runs
    settlement_id   \* handle()'s local: which row of settlements it created

vars == <<log, settlements, history, journal, pc, trade, settlement_id>>

-----------------------------------------------------------------------------
\* The events published inside a handler, by control point.
Publishes ==
    [ingest          |-> "BasketRequested",
     net             |-> "NettingExecuted",
     pub_pending     |-> "SettlementPending",
     pub_approved    |-> "SettlementApproved",
     pub_signed      |-> "SettlementSigned",
     pub_broadcasted |-> "SettlementBroadcasted",
     pub_confirmed   |-> "SettlementConfirmed",
     custody         |-> "CustodyUpdated"]

\* The rows settlement.py writes, by control point, and the status they set.
Writes ==
    [create    |-> "PENDING",
     approve   |-> "APPROVED",
     sign      |-> "SIGNED",
     broadcast |-> "BROADCASTED",
     confirm   |-> "CONFIRMED"]

\* The events ledger_posting.py posts, by control point.
Posts ==
    [post_confirmed |-> "SettlementConfirmed",
     post_netting   |-> "NettingExecuted",
     post_trade     |-> "TradeCreated"]

Points == DOMAIN Publishes \cup DOMAIN Writes \cup DOMAIN Posts

\* Mutant: the settlement events are published before the rows are written.
Returns_PublishFirst ==
    [ingest          |-> "net",
     net             |-> "pub_pending",
     pub_pending     |-> "create",
     create          |-> "pub_approved",
     pub_approved    |-> "approve",
     approve         |-> "pub_signed",
     pub_signed      |-> "sign",
     sign            |-> "pub_broadcasted",
     pub_broadcasted |-> "broadcast",
     broadcast       |-> "pub_confirmed",
     pub_confirmed   |-> "confirm",
     confirm         |-> "custody",
     custody         |-> "post_confirmed",
     post_confirmed  |-> "post_netting",
     post_netting    |-> "post_trade",
     post_trade      |-> "idle"]

Returns ==
    [ingest          |-> "net",
     net             |-> "create",
     create          |-> "pub_pending",
     pub_pending     |-> "approve",
     approve         |-> "pub_approved",
     pub_approved    |-> "sign",
     sign            |-> "pub_signed",
     pub_signed      |-> "broadcast",
     broadcast       |-> "pub_broadcasted",
     pub_broadcasted |-> "confirm",
     confirm         |-> "pub_confirmed",
     pub_confirmed   |-> "custody",
     custody         |-> "post_confirmed",
     post_confirmed  |-> "post_netting",
     post_netting    |-> "post_trade",
     post_trade      |-> "idle"]

\* Mutant: a handler swallows its own exception and goes on.
Raises_Swallowed == Returns

\* Mutant: publish() does not catch, the exception reaches the root caller.
Raises_Uncaught == [pt \in Points |-> "idle"]

\* Mutant: a failed approval is logged and the next step is taken.
Raises_ApprovalSkipped ==
    [pt \in Points |-> IF pt = "approve" THEN "pub_approved" ELSE "idle"]

\* The next handler subscribed to the event whose publish() loop catches it.
Raises ==
    [ingest          |-> "post_trade",
     net             |-> "post_trade",
     create          |-> "post_netting",
     pub_pending     |-> "post_netting",
     approve         |-> "post_netting",
     pub_approved    |-> "post_netting",
     sign            |-> "post_netting",
     pub_signed      |-> "post_netting",
     broadcast       |-> "post_netting",
     pub_broadcasted |-> "post_netting",
     confirm         |-> "post_netting",
     pub_confirmed   |-> "post_netting",
     custody         |-> "post_confirmed",
     post_confirmed  |-> "post_netting",
     post_netting    |-> "post_trade",
     post_trade      |-> "idle"]

\* Mutant: no ledger handler is subscribed to SETTLEMENT_CONFIRMED.
Resume_NoConfirmedPosting(p) ==
    {IF pc[p] = "custody" THEN "post_netting" ELSE Returns[pc[p]]}

\* A commit whose answer is lost has its effect, and raises all the same.
Resume(p) ==
    IF "indoubt" \in Faults THEN {Returns[pc[p]], Raises[pc[p]]}
                            ELSE {Returns[pc[p]]}

Leave(p) ==
    /\ pc' \in {[pc EXCEPT ![p] = pt] : pt \in Resume(p)}
    /\ UNCHANGED trade

-----------------------------------------------------------------------------
Init ==
    /\ log = [k \in Keys |-> <<>>]
    /\ settlements = [k \in Keys |-> <<>>]
    /\ history = [k \in Keys |-> <<>>]
    /\ journal = [k \in Keys |-> <<>>]
    /\ pc = [p \in Clients |-> "idle"]
    /\ trade = [p \in Clients |-> NoTrade]
    /\ settlement_id = [p \in Clients |-> 0]

\* INSERT ... ON CONFLICT (idempotency_key) DO NOTHING: the row of a child
\* event always goes in, that of a root event only if its key is new.
persist_event(k, e) == log' = [log EXCEPT ![k] = Append(@, e)]

\* Mutant: the insert has no ON CONFLICT clause and no unique key.
IsDuplicate_Never(k) == FALSE

\* Mutant: only copies of a trade that is still running are turned away.
IsDuplicate_WhileRunning(k) ==
    \E p \in Clients : pc[p] # "idle" /\ trade[p] = k

IsDuplicate(k) == log[k] # <<>>

\* publish() of a root event: a first submission, a retry with the same key
\* or another client's copy.  A duplicate returns before any dispatch; after
\* an in-doubt commit the caller sees the exception and nothing is dispatched.
Submit(p, k) ==
    /\ pc[p] = "idle"
    /\ ~IsDuplicate(k)
    /\ persist_event(k, "TradeCreated")
    /\ \/ /\ pc' = [pc EXCEPT ![p] = "ingest"]
          /\ trade' = [trade EXCEPT ![p] = k]
       \/ /\ "indoubt" \in Faults
          /\ UNCHANGED <<pc, trade>>
    /\ UNCHANGED <<settlements, history, journal, settlement_id>>

SubmitDuplicate(p, k) ==
    /\ pc[p] = "idle"
    /\ IsDuplicate(k)
    /\ UNCHANGED vars

\* netting reads payload["qty"]: without one it raises before it publishes.
MissingQty(p) == pc[p] = "net" /\ trade[p] \notin HasQty

\* trade_ingestion, netting, settlement and custody: bus.publish(event.child).
PublishChild(p) ==
    /\ pc[p] \in DOMAIN Publishes
    /\ ~MissingQty(p)
    /\ persist_event(trade[p], Publishes[pc[p]])
    /\ Leave(p)
    /\ UNCHANGED <<settlements, history, journal, settlement_id>>

record_state_change(k, s, prev, new) ==
    history' = [history EXCEPT ![k] =
                   Append(@, [settlement |-> s, previous |-> prev, new |-> new])]

\* Step 1: the instruction and its first history row, one transaction.
CreateSettlement(p) ==
    LET k == trade[p]
        s == Len(settlements[k]) + 1
    IN  /\ pc[p] = "create"
        /\ settlements' = [settlements EXCEPT ![k] = Append(@, "PENDING")]
        /\ record_state_change(k, s, "NULL", "PENDING")
        /\ settlement_id' = [settlement_id EXCEPT ![p] = s]
        /\ Leave(p)
        /\ UNCHANGED <<log, journal>>

\* UPDATE settlement_instructions SET status = to WHERE id = settlement_id,
\* and the history row, whose previous status is the one the code names.
update_status(p, from, to) ==
    /\ settlements' =
           [settlements EXCEPT ![trade[p]][settlement_id[p]] = to]
    /\ record_state_change(trade[p], settlement_id[p], from, to)

\* _transition_settlement matches the row only in the status it expects.
NotInExpectedState(p) ==
    /\ pc[p] = "approve"
    /\ settlements[trade[p]][settlement_id[p]] # "PENDING"

\* Step 2, the only write that goes through _transition_settlement.
Approve(p) ==
    /\ pc[p] = "approve"
    /\ validate_settlement_state("PENDING", "APPROVED")
    /\ ~NotInExpectedState(p)
    /\ update_status(p, "PENDING", "APPROVED")
    /\ Leave(p)
    /\ UNCHANGED <<log, journal, settlement_id>>

\* Mutant: the previous status of the record is the wrong literal.
Sign_FromPending(p) ==
    /\ pc[p] = "sign"
    /\ update_status(p, "PENDING", "SIGNED")
    /\ Leave(p)
    /\ UNCHANGED <<log, journal, settlement_id>>

\* Steps 3 to 5 write the row without looking at its status.
Sign(p) ==
    /\ pc[p] = "sign"
    /\ update_status(p, "APPROVED", "SIGNED")
    /\ Leave(p)
    /\ UNCHANGED <<log, journal, settlement_id>>

Broadcast(p) ==
    /\ pc[p] = "broadcast"
    /\ update_status(p, "SIGNED", "BROADCASTED")
    /\ Leave(p)
    /\ UNCHANGED <<log, journal, settlement_id>>

Confirm(p) ==
    /\ pc[p] = "confirm"
    /\ update_status(p, "BROADCASTED", "CONFIRMED")
    /\ Leave(p)
    /\ UNCHANGED <<log, journal, settlement_id>>

\* Mutant: the confirmed settlement is booked to the trade's own accounts.
get_accounts_Copied(k, e) ==
    [debit_account  |-> IF e = "NettingExecuted" THEN "netting.exposure"
                                                 ELSE "trade.receivable",
     credit_account |-> IF e = "NettingExecuted" THEN "netting.offset"
                                                 ELSE "trade.payable",
     amount         |-> Nav[k]]

\* Mutant: an account literal is misspelt; no constraint of the table objects.
get_accounts_Misspelt(k, e) ==
    [debit_account  |-> "clearing.cash",
     credit_account |-> "clearing.etf_inventory",
     amount         |-> Nav[k]]

\* get_accounts: the two legs of each accounting event.
get_accounts(k, e) ==
    CASE e = "SettlementConfirmed" ->
            [debit_account  |-> "clearing.cash_obligation",
             credit_account |-> "clearing.etf_inventory",
             amount         |-> Nav[k]]
      [] e = "NettingExecuted" ->
            [debit_account  |-> "netting.exposure",
             credit_account |-> "netting.offset",
             amount         |-> Qty[k] - 1]
      [] e = "TradeCreated" ->
            [debit_account  |-> "trade.receivable",
             credit_account |-> "trade.payable",
             amount         |-> Nav[k]]

\* A journal row has a debit or a credit, the other column being NULL.
journal_entry(account, column, amount) ==
    [account |-> account, column |-> column, amount |-> amount]

\* Mutant: each leg in a transaction of its own, the second one lost.
legs_DebitOnly(m) == <<journal_entry(m.debit_account, "debit", m.amount)>>

legs(m) == <<journal_entry(m.debit_account, "debit", m.amount),
             journal_entry(m.credit_account, "credit", m.amount)>>

\* ledger_posting: both legs in one transaction.
PostLedger(p) ==
    LET k == trade[p]
    IN  /\ pc[p] \in DOMAIN Posts
        /\ journal' = [journal EXCEPT ![k] =
                          @ \o legs(get_accounts(k, Posts[pc[p]]))]
        /\ Leave(p)
        /\ UNCHANGED <<log, settlements, history, settlement_id>>

\* An exception before the commit: the connection's transaction rolls back,
\* the handler unwinds and the nearest publish() loop goes on.
MayFail(p) ==
    \/ pc[p] \in DOMAIN Publishes /\ "publish" \in Faults
    \/ pc[p] \in DOMAIN Writes /\ "settlement" \in Faults
    \/ pc[p] \in DOMAIN Posts /\ "ledger" \in Faults
    \/ MissingQty(p)
    \/ NotInExpectedState(p)

Raise(p) ==
    /\ pc[p] \in Points
    /\ MayFail(p)
    /\ pc' = [pc EXCEPT ![p] = Raises[pc[p]]]
    /\ UNCHANGED <<log, settlements, history, journal, trade, settlement_id>>

\* The process dies and comes back with an empty stack.
Crash(p) ==
    /\ "crash" \in Faults
    /\ pc[p] # "idle"
    /\ pc' = [pc EXCEPT ![p] = "idle"]
    /\ UNCHANGED <<log, settlements, history, journal, trade, settlement_id>>

Step(p) ==
    \/ PublishChild(p)
    \/ CreateSettlement(p)
    \/ Approve(p)
    \/ Sign(p)
    \/ Broadcast(p)
    \/ Confirm(p)
    \/ PostLedger(p)
    \/ Raise(p)

Next ==
    \E p \in Clients :
        \/ \E k \in Keys : Submit(p, k) \/ SubmitDuplicate(p, k)
        \/ Step(p)
        \/ Crash(p)

Spec == Init /\ [][Next]_vars

-----------------------------------------------------------------------------
\* Safety.

Columns == {"debit", "credit"}

Accounts ==
    {"clearing.cash_obligation", "clearing.etf_inventory", "netting.exposure",
     "netting.offset", "trade.receivable", "trade.payable"}

HistoryRows ==
    [settlement : Nat, previous : Statuses \cup {"NULL"}, new : Statuses]

JournalRows == [account : Accounts, column : Columns, amount : Int]

\* Every table and every local holds values of its type.
TypeOK ==
    /\ log \in [Keys -> Seq(EventTypes)]
    /\ settlements \in [Keys -> Seq(Statuses)]
    /\ history \in [Keys -> Seq(HistoryRows)]
    /\ journal \in [Keys -> Seq(JournalRows)]
    /\ pc \in [Clients -> Points \cup {"idle"}]
    /\ trade \in [Clients -> Keys \cup {NoTrade}]
    /\ settlement_id \in [Clients -> Nat]

Running(p, k) == pc[p] # "idle" /\ trade[p] = k

Logged(k, e) == \E i \in DOMAIN log[k] : log[k][i] = e

\* However often and from however many clients a root event is published, its
\* handlers run in one call tree at most: the idempotency key admits it once.
OneRunner ==
    \A p, q \in Clients :
        pc[p] # "idle" /\ pc[q] # "idle" /\ p # q => trade[p] # trade[q]

\* The status a settlement event announces.
Announces ==
    [SettlementPending     |-> "PENDING",
     SettlementApproved    |-> "APPROVED",
     SettlementSigned      |-> "SIGNED",
     SettlementBroadcasted |-> "BROADCASTED",
     SettlementConfirmed   |-> "CONFIRMED"]

\* Row and event are two transactions, the row first: whatever fails between
\* them, no consumer hears of a status no instruction of the trade reached.
EventFollowsRow ==
    \A k \in Keys : \A i \in DOMAIN log[k] :
        log[k][i] \in SettlementEvents =>
            \E s \in DOMAIN settlements[k] :
                SETTLEMENT_STATE_ORDER[settlements[k][s]]
                    >= SETTLEMENT_STATE_ORDER[Announces[log[k][i]]]

\* The history is true although four of its five writers name the previous
\* status as a literal: each record continues an earlier one of the same
\* instruction, no status is recorded twice, and the instruction's status is
\* the last one recorded.
ContinuesHistory(k, i) ==
    LET r == history[k][i]
    IN  \/ /\ r.previous = "NULL"
           /\ r.new = "PENDING"
        \/ /\ validate_settlement_state(r.previous, r.new)
           /\ \E j \in 1 .. i - 1 : /\ history[k][j].settlement = r.settlement
                                    /\ history[k][j].new = r.previous

HistoryIsTheLifecycle ==
    \A k \in Keys :
        /\ \A i \in DOMAIN history[k] :
               /\ history[k][i].settlement \in DOMAIN settlements[k]
               /\ ContinuesHistory(k, i)
               /\ \A j \in 1 .. i - 1 :
                      history[k][j].settlement = history[k][i].settlement
                          => history[k][j].new # history[k][i].new
        /\ \A s \in DOMAIN settlements[k] :
               \E i \in DOMAIN history[k] :
                   /\ history[k][i].settlement = s
                   /\ history[k][i].new = settlements[k][s]
                   /\ \A j \in i + 1 .. Len(history[k]) :
                          history[k][j].settlement # s

\* A trade never has two settlement instructions: it is not paid twice.
OneSettlement == \A k \in Keys : Len(settlements[k]) <= 1

PostedEvents == {Posts[pt] : pt \in DOMAIN Posts}

AccountsOf(k, e) == {legs(get_accounts(k, e))[i].account : i \in 1 .. 2}

\* No event is posted to the ledger twice, and none that was not recorded.
PostedOnce ==
    \A k \in Keys :
        /\ \A i, j \in DOMAIN journal[k] :
               journal[k][i].account = journal[k][j].account => i = j
        /\ \A i \in DOMAIN journal[k] : \E e \in PostedEvents :
               /\ journal[k][i].account \in AccountsOf(k, e)
               /\ Logged(k, e)

\* Double entry, in every committed state: the rows of a trade are debits each
\* followed by a credit of the same amount, so debits and credits sum alike.
DoubleEntry ==
    \A k \in Keys :
        /\ Len(journal[k]) % 2 = 0
        /\ \A i \in DOMAIN journal[k] :
               IF i % 2 = 1 THEN /\ i + 1 \in DOMAIN journal[k]
                                 /\ journal[k][i].column = "debit"
                                 /\ journal[k][i + 1].column = "credit"
                                 /\ journal[k][i + 1].amount = journal[k][i].amount
                            ELSE journal[k][i].column = "credit"

LC == INSTANCE Lifecycle WITH Trades <- Keys

\* validate_transition is never called; the pipeline keeps to it all the same.
\* Under retries, concurrent copies, exceptions and crashes the events of a
\* trade follow ALLOWED_TRANSITIONS one by one and never start again.
ImplementsLifecycle == LC!Spec

-----------------------------------------------------------------------------
\* Action properties.

\* A settlement instruction is never deleted and changes status only by the
\* step validate_settlement_state allows, though only one writer calls it.
AdvancesOneStep(k) ==
    \A s \in DOMAIN settlements[k] :
        /\ s \in DOMAIN settlements'[k]
        /\ \/ settlements'[k][s] = settlements[k][s]
           \/ validate_settlement_state(settlements[k][s], settlements'[k][s])

SettlementAdvancesOneStep == [][\A k \in Keys : AdvancesOneStep(k)]_vars

\* Nothing resumes a trade: once recorded, and no call tree runs it, neither a
\* retry nor another client ever adds to what it left in any table.
Abandoned(k) == log[k] # <<>> /\ \A p \in Clients : ~Running(p, k)

LeftAlone(k) ==
    /\ log'[k] = log[k]
    /\ settlements'[k] = settlements[k]
    /\ history'[k] = history[k]
    /\ journal'[k] = journal[k]

AbandonedIsFinal == [][\A k \in Keys : Abandoned(k) => LeftAlone(k)]_vars

-----------------------------------------------------------------------------
\* Liveness, under the fairness of ChainRails.

Posted(k, e) ==
    \E i \in DOMAIN journal[k] : journal[k][i].account \in AccountsOf(k, e)

\* The end of a trade: settled, custody updated, three events posted.  One
\* without "qty" stops before netting, with no settlement and only its own
\* ledger entry.
Complete(k) ==
    IF k \in HasQty
    THEN /\ settlements[k] = <<"CONFIRMED">>
         /\ Logged(k, "CustodyUpdated")
         /\ \A e \in PostedEvents : Posted(k, e)
    ELSE /\ settlements[k] = <<>>
         /\ log[k] = <<"TradeCreated", "BasketRequested">>
         /\ Posted(k, "TradeCreated")

\* publish() catches each handler's exception for itself: whatever fails below
\* a recorded event, its ledger handler still runs and its entry is posted.
LoggedIsPosted ==
    \A k \in Keys : \A e \in PostedEvents : Logged(k, e) ~> Posted(k, e)

-----------------------------------------------------------------------------
\* What the documentation says and the code does not do.

\* README.md:778: "Business operations and event publishing happen in a single
\* database transaction", so in no committed state is a settlement's status one
\* its event has not announced.
BusinessAndEventAtomic ==
    \A k \in Keys : \A s \in DOMAIN settlements[k] :
        \E i \in DOMAIN log[k] :
            /\ log[k][i] \in SettlementEvents
            /\ Announces[log[k][i]] = settlements[k][s]
=============================================================================
