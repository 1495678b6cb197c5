------------------------- MODULE TradePipelineProofs -------------------------
(***************************************************************************)
(* Theorems about TradePipeline, for every set of clients and trades, all  *)
(* amounts and every set of injected faults.                               *)
(***************************************************************************)
EXTENDS TradePipeline, SequenceTheorems, TLAPS

-----------------------------------------------------------------------------
\* The inductive invariant.

Order ==
    <<"TradeCreated", "BasketRequested", "NettingExecuted",
      "SettlementPending", "SettlementApproved", "SettlementSigned",
      "SettlementBroadcasted", "SettlementConfirmed", "CustodyUpdated">>

StatusOrder == <<"PENDING", "APPROVED", "SIGNED", "BROADCASTED", "CONFIRMED">>

\* The n-th record of a trade's settlement.
Record(n) ==
    [settlement |-> 1,
     previous   |-> IF n = 1 THEN "NULL" ELSE StatusOrder[n - 1],
     new        |-> StatusOrder[n]]

\* A trade's events are a prefix of the chain.
LogInv(k) ==
    /\ Len(log[k]) <= 9
    /\ \A i \in 1 .. Len(log[k]) : log[k][i] = Order[i]

\* A trade has at most one settlement, whose status and history agree.
HistoryInv(k) ==
    /\ Len(history[k]) <= 5
    /\ \A i \in 1 .. Len(history[k]) : history[k][i] = Record(i)
    /\ settlements[k] = IF Len(history[k]) = 0
                        THEN <<>> ELSE <<StatusOrder[Len(history[k])]>>

\* No event runs ahead of the row it announces, no row of the next event.
OrderInv(k) ==
    /\ Len(log[k]) > Len(history[k]) + 3 => Len(history[k]) = 5
    /\ Len(history[k]) > 0 => Len(log[k]) >= Len(history[k]) + 2

\* How many events, and how many statuses, a call tree at pt has recorded.
EventsAt ==
    [ingest |-> 1, net |-> 2, create |-> 3, pub_pending |-> 3, approve |-> 4,
     pub_approved |-> 4, sign |-> 5, pub_signed |-> 5, broadcast |-> 6,
     pub_broadcasted |-> 6, confirm |-> 7, pub_confirmed |-> 7, custody |-> 8,
     post_confirmed |-> 8, post_netting |-> 3, post_trade |-> 1]

StatusesAt ==
    [ingest |-> 0, net |-> 0, create |-> 0, pub_pending |-> 1, approve |-> 1,
     pub_approved |-> 2, sign |-> 2, pub_signed |-> 3, broadcast |-> 3,
     pub_broadcasted |-> 4, confirm |-> 4, pub_confirmed |-> 5, custody |-> 5]

\* A call tree has recorded exactly what its control point says; the ledger
\* handlers also run after an exception below their event.
PointInv(p) ==
    /\ trade[p] \in Keys
    /\ IF pc[p] \in DOMAIN Posts
       THEN Len(log[trade[p]]) >= EventsAt[pc[p]]
       ELSE /\ Len(log[trade[p]]) = EventsAt[pc[p]]
            /\ Len(history[trade[p]]) = StatusesAt[pc[p]]
            /\ StatusesAt[pc[p]] > 0 => settlement_id[p] = 1

ClientInv == \A p \in Clients : pc[p] # "idle" => PointInv(p)

TradeInv == \A k \in Keys : LogInv(k) /\ HistoryInv(k) /\ OrderInv(k)

IInv == TypeOK /\ OneRunner /\ ClientInv /\ TradeInv

-----------------------------------------------------------------------------
\* The tables.

\* The control points, listed.
LEMMA PointsListed ==
    /\ DOMAIN Publishes = {"ingest", "net", "pub_pending", "pub_approved",
                           "pub_signed", "pub_broadcasted", "pub_confirmed",
                           "custody"}
    /\ DOMAIN Writes = {"create", "approve", "sign", "broadcast", "confirm"}
    /\ DOMAIN Posts = {"post_confirmed", "post_netting", "post_trade"}
    /\ Points = {"ingest", "net", "create", "pub_pending", "approve",
                 "pub_approved", "sign", "pub_signed", "broadcast",
                 "pub_broadcasted", "confirm", "pub_confirmed", "custody",
                 "post_confirmed", "post_netting", "post_trade"}
  BY DEF Publishes, Writes, Posts, Points

\* Both tables lead from a control point to a control point or to the end.
LEMMA TablesType ==
    ASSUME NEW pt \in Points
    PROVE  /\ Returns[pt] \in Points \cup {"idle"}
           /\ Raises[pt] \in Points \cup {"idle"}
  BY PointsListed DEF Returns, Raises

\* Handlers publish event types; postings are rows of known accounts.
LEMMA PublishesType ==
    \A pt \in DOMAIN Publishes : Publishes[pt] \in EventTypes
  BY DEF Publishes, EventTypes, SettlementEvents

\* The two legs of a posting are rows of the journal's type.
LEMMA LegsType ==
    ASSUME NEW k \in Keys, NEW pt \in DOMAIN Posts
    PROVE  legs(get_accounts(k, Posts[pt]))
               \in Seq(JournalRows)
  <1>1. Nav[k] \in Int /\ Qty[k] - 1 \in Int
    BY PipelineAssumption
  <1>2. Posts[pt] \in {"SettlementConfirmed", "NettingExecuted", "TradeCreated"}
    BY DEF Posts
  <1>3. get_accounts(k, Posts[pt]) \in
            [debit_account : Accounts, credit_account : Accounts, amount : Int]
    BY <1>1, <1>2 DEF get_accounts, Accounts
  <1> QED
    BY <1>3 DEF legs, journal_entry, Columns, JournalRows

-----------------------------------------------------------------------------
\* Type correctness.

\* Empty tables and idle clients are of their types.
LEMMA TypeInit == Init => TypeOK
  BY DEF Init, TypeOK

-----------------------------------------------------------------------------
\* The inductive step.  An action of client p touches the tables of one trade
\* and p's own locals; no other client runs that trade.

\* The tables keep their types, those of the trades other than k and the
\* locals of the clients other than p their values; p goes to pt.
Local(p, k, pt) ==
    /\ log' \in [Keys -> Seq(EventTypes)]
    /\ settlements' \in [Keys -> Seq(Statuses)]
    /\ history' \in [Keys -> Seq(HistoryRows)]
    /\ journal' \in [Keys -> Seq(JournalRows)]
    /\ settlement_id' \in [Clients -> Nat]
    /\ \A j \in Keys \ {k} : /\ log'[j] = log[j]
                             /\ settlements'[j] = settlements[j]
                             /\ history'[j] = history[j]
    /\ \A q \in Clients \ {p} : settlement_id'[q] = settlement_id[q]
    /\ pc' = [pc EXCEPT ![p] = pt]
    /\ pt \in Points \cup {"idle"}
    /\ \/ trade' = [trade EXCEPT ![p] = k]
       \/ trade' = trade /\ pt = "idle"

TablesInv(k) == LogInv(k) /\ HistoryInv(k) /\ OrderInv(k)

\* A step that touches one client and its trade keeps IInv if it keeps what
\* IInv says of that client and that trade.
LEMMA LocalStep ==
    ASSUME IInv, NEW p \in Clients, NEW k \in Keys, NEW pt,
           Local(p, k, pt),
           \A q \in Clients \ {p} : pc[q] # "idle" => trade[q] # k,
           TablesInv(k)',
           pt # "idle" => PointInv(p)'
    PROVE  IInv'
  <1>1. TypeOK'
    <2>1. trade' \in [Clients -> Keys \cup {NoTrade}]
      BY DEF IInv, TypeOK, Local
    <2>2. pc' \in [Clients -> Points \cup {"idle"}]
      BY DEF IInv, TypeOK, Local
    <2> QED
      BY <2>1, <2>2 DEF TypeOK, Local
  <1>2. OneRunner'
    BY DEF IInv, TypeOK, OneRunner, Local
  <1>3. ClientInv'
    <2> SUFFICES ASSUME NEW q \in Clients, (pc[q] # "idle")'
                 PROVE  PointInv(q)'
      BY DEF ClientInv
    <2>1. CASE q = p
      BY <2>1 DEF Local, IInv, TypeOK
    <2>2. CASE q # p
      <3>1. /\ pc'[q] = pc[q] /\ trade'[q] = trade[q] /\ pc[q] # "idle"
            /\ settlement_id'[q] = settlement_id[q]
        BY <2>2 DEF Local, IInv, TypeOK
      <3>2. PointInv(q) /\ trade[q] # k
        BY <2>2, <3>1 DEF IInv, ClientInv
      <3>3. log'[trade[q]] = log[trade[q]] /\ history'[trade[q]] = history[trade[q]]
        BY <3>2 DEF PointInv, Local
      <3> QED
        BY <3>1, <3>2, <3>3 DEF PointInv
    <2> QED
      BY <2>1, <2>2
  <1>4. TradeInv'
    <2> SUFFICES ASSUME NEW j \in Keys
                 PROVE  (LogInv(j) /\ HistoryInv(j) /\ OrderInv(j))'
      BY DEF TradeInv
    <2>1. CASE j = k
      BY <2>1 DEF TablesInv
    <2>2. CASE j # k
      <3>1. /\ log'[j] = log[j]
            /\ settlements'[j] = settlements[j]
            /\ history'[j] = history[j]
        BY <2>2 DEF Local
      <3>2. LogInv(j) /\ HistoryInv(j) /\ OrderInv(j)
        BY DEF IInv, TradeInv
      <3> QED
        BY <3>1, <3>2 DEF LogInv, HistoryInv, OrderInv
    <2> QED
      BY <2>1, <2>2
  <1> QED
    BY <1>1, <1>2, <1>3, <1>4 DEF IInv

\* What IInv says of a client that runs.
LEMMA Runner ==
    ASSUME IInv, NEW p \in Clients, pc[p] \in Points
    PROVE  /\ trade[p] \in Keys
           /\ PointInv(p)
           /\ TablesInv(trade[p])
           /\ \A q \in Clients \ {p} : pc[q] # "idle" => trade[q] # trade[p]
           /\ trade = [trade EXCEPT ![p] = trade[p]]
  <1>1. pc[p] # "idle"
    BY PointsListed
  <1>2. PointInv(p)
    BY <1>1 DEF IInv, ClientInv
  <1>3. \A q \in Clients \ {p} : pc[q] # "idle" => trade[q] # trade[p]
    BY <1>1 DEF IInv, OneRunner
  <1> QED
    BY <1>2, <1>3 DEF PointInv, IInv, TypeOK, TradeInv, TablesInv

\* Where a call tree goes next, whether or not the commit is answered.
LEMMA Leaves ==
    ASSUME NEW p \in Clients, pc[p] \in Points, Leave(p)
    PROVE  \E pt \in {Returns[pc[p]], Raises[pc[p]]} :
               pc' = [pc EXCEPT ![p] = pt] /\ pt \in Points \cup {"idle"}
  BY TablesType DEF Leave, Resume

\* publish() of a new root event puts one client at the start of its trade.
LEMMA SubmitStep ==
    ASSUME IInv, NEW p \in Clients, NEW k \in Keys, Submit(p, k)
    PROVE  IInv'
  <1>1. log[k] = <<>> /\ log' = [log EXCEPT ![k] = Append(@, "TradeCreated")]
    BY DEF Submit, IsDuplicate, persist_event
  <1>2. log' \in [Keys -> Seq(EventTypes)] /\ log'[k] = <<"TradeCreated">>
    BY <1>1 DEF IInv, TypeOK, EventTypes
  <1>3. \A q \in Clients : pc[q] # "idle" => trade[q] # k
    <2> SUFFICES ASSUME NEW q \in Clients, pc[q] # "idle", trade[q] = k
                 PROVE  FALSE
      OBVIOUS
    <2>1. PointInv(q) /\ pc[q] \in Points
      BY DEF IInv, ClientInv, TypeOK
    <2>2. Len(log[k]) = 0
      BY <1>1
    <2> QED
      BY <2>1, <2>2, PointsListed DEF PointInv, EventsAt
  <1>4. TablesInv(k) /\ Len(history[k]) = 0
    BY <1>1 DEF IInv, TypeOK, TradeInv, TablesInv, OrderInv
  <1>5. TablesInv(k)'
    BY <1>2, <1>4 DEF TablesInv, LogInv, HistoryInv, OrderInv, Order, Submit
  <1>6. CASE pc' = [pc EXCEPT ![p] = "ingest"] /\ trade' = [trade EXCEPT ![p] = k]
    <2>1. PointInv(p)'
      <3>1. /\ pc'[p] = "ingest" /\ trade'[p] = k
            /\ Len(log'[k]) = 1 /\ Len(history'[k]) = 0
        BY <1>2, <1>4, <1>6 DEF Submit, IInv, TypeOK
      <3>2. "ingest" \notin DOMAIN Posts
        BY PointsListed
      <3>3. EventsAt["ingest"] = 1 /\ StatusesAt["ingest"] = 0
        BY DEF EventsAt, StatusesAt
      <3> QED
        BY <3>1, <3>2, <3>3 DEF PointInv
    <2>2. Local(p, k, "ingest")
      BY <1>1, <1>2, <1>6, PointsListed DEF Local, Submit, IInv, TypeOK
    <2> QED
      BY <1>3, <1>5, <2>1, <2>2, LocalStep
  <1>7. CASE UNCHANGED <<pc, trade>>
    <2>1. Local(p, k, "idle")
      BY <1>1, <1>2, <1>7 DEF Local, Submit, IInv, TypeOK
    <2> QED
      BY <1>3, <1>5, <2>1, LocalStep
  <1> QED
    BY <1>6, <1>7 DEF Submit

\* The points where p's call tree has recorded exactly what they say.
Exact(p, k, n, m) ==
    /\ Len(log[k]) = n
    /\ Len(history[k]) = m
    /\ m > 0 => settlement_id[p] = 1

\* A call tree that has recorded what its next point says fits that point.
LEMMA Arrives ==
    ASSUME NEW p \in Clients, NEW k \in Keys, NEW pt \in Points,
           pc'[p] = pt, trade'[p] = k,
           \/ /\ pt \notin DOMAIN Posts
              /\ Exact(p, k, EventsAt[pt], StatusesAt[pt])'
           \/ /\ pt \in DOMAIN Posts
              /\ Len(log'[k]) >= EventsAt[pt]
    PROVE  PointInv(p)'
  BY DEF PointInv, Exact

\* A handler's publish() appends the next event of the chain.
LEMMA PublishStep ==
    ASSUME IInv, NEW p \in Clients, PublishChild(p)
    PROVE  IInv'
  <1>1. pc[p] \in DOMAIN Publishes /\ pc[p] \in Points
    BY DEF PublishChild, Points
  <1>2. PICK k \in Keys :
           /\ k = trade[p] /\ PointInv(p) /\ TablesInv(k)
           /\ \A q \in Clients \ {p} : pc[q] # "idle" => trade[q] # k
    BY <1>1, Runner
  <1>3. PICK pt \in {Returns[pc[p]], Raises[pc[p]]} :
            pc' = [pc EXCEPT ![p] = pt] /\ pt \in Points \cup {"idle"}
    BY <1>1, Leaves DEF PublishChild
  <1>4. /\ log' \in [Keys -> Seq(EventTypes)]
        /\ log'[k] = Append(log[k], Publishes[pc[p]])
        /\ \A j \in Keys \ {k} : log'[j] = log[j]
    BY <1>1, <1>2, PublishesType DEF PublishChild, persist_event, IInv, TypeOK
  <1>5. Local(p, k, pt)
    BY <1>2, <1>3, <1>4 DEF Local, PublishChild, Leave, IInv, TypeOK
  <1>6. Exact(p, k, EventsAt[pc[p]], StatusesAt[pc[p]])
    BY <1>1, <1>2, PointsListed DEF PointInv, Exact
  <1>7. Publishes[pc[p]] = Order[Len(log[k]) + 1] /\ Len(log[k]) < 9
    BY <1>1, <1>6, PointsListed DEF Publishes, EventsAt, Order, Exact
  <1>8. /\ Len(log'[k]) = Len(log[k]) + 1
        /\ \A i \in 1 .. Len(log[k]) : log'[k][i] = log[k][i]
        /\ log'[k][Len(log[k]) + 1] = Publishes[pc[p]]
        /\ Len(log[k]) \in Nat
    BY <1>4 DEF IInv, TypeOK
  <1>9. LogInv(k)'
    BY <1>2, <1>7, <1>8 DEF LogInv, TablesInv
  <1>10. /\ history'[k] = history[k] /\ settlements'[k] = settlements[k]
         /\ settlement_id'[p] = settlement_id[p]
    BY DEF PublishChild
  <1>11. OrderInv(k)'
    <2>1. /\ EventsAt[pc[p]] + 1 <= StatusesAt[pc[p]] + 3 \/ StatusesAt[pc[p]] = 5
          /\ StatusesAt[pc[p]] > 0 => EventsAt[pc[p]] + 1 >= StatusesAt[pc[p]] + 2
          /\ EventsAt[pc[p]] \in Nat /\ StatusesAt[pc[p]] \in Nat
      BY <1>1, PointsListed DEF EventsAt, StatusesAt
    <2>2. PICK n \in Nat, m \in Nat : n = EventsAt[pc[p]] /\ m = StatusesAt[pc[p]]
      BY <2>1
    <2>3. Len(log'[k]) = n + 1 /\ Len(history'[k]) = m
      BY <1>6, <1>8, <1>10, <2>2 DEF Exact
    <2>4. /\ n + 1 <= m + 3 \/ m = 5
          /\ m > 0 => n + 1 >= m + 2
      BY <2>1, <2>2
    <2> QED
      BY <2>3, <2>4 DEF OrderInv
  <1>12. TablesInv(k)'
    BY <1>2, <1>9, <1>10, <1>11 DEF TablesInv, HistoryInv
  <1>13. pt # "idle" => PointInv(p)'
    <2>1. pc'[p] = pt /\ trade'[p] = k
      BY <1>2, <1>3 DEF IInv, TypeOK, PublishChild, Leave
    <2>2. \/ /\ pt \notin DOMAIN Posts
             /\ EventsAt[pt] = EventsAt[pc[p]] + 1
             /\ StatusesAt[pt] = StatusesAt[pc[p]]
          \/ /\ pt \in DOMAIN Posts
             /\ EventsAt[pt] <= EventsAt[pc[p]] + 1
      BY <1>1, <1>3, PointsListed DEF Returns, Raises, EventsAt, StatusesAt
    <2> QED
      BY <1>3, <1>6, <1>8, <1>10, <2>1, <2>2, Arrives DEF Exact
  <1> QED
    BY <1>2, <1>5, <1>12, <1>13, LocalStep

\* A settlement's n-th status and its record extend the history by one.
LEMMA RecordExtends ==
    ASSUME IInv, NEW k \in Keys, NEW n \in 1 .. 5,
           Len(history[k]) = n - 1,
           history'[k] = Append(history[k], Record(n)),
           settlements'[k] = <<StatusOrder[n]>>
    PROVE  HistoryInv(k)' /\ Len(history'[k]) = n
  <1>1. /\ Len(history'[k]) = n
        /\ \A i \in 1 .. n - 1 : history'[k][i] = history[k][i]
        /\ history'[k][n] = Record(n)
    BY DEF IInv, TypeOK
  <1>2. \A i \in 1 .. n - 1 : history[k][i] = Record(i)
    BY DEF IInv, TradeInv, HistoryInv
  <1>3. \A i \in 1 .. n : history'[k][i] = Record(i)
    BY <1>1, <1>2
  <1>4. (\A i \in 1 .. Len(history[k]) : history[k][i] = Record(i))'
    BY <1>1, <1>3 DEF Record
  <1> QED
    BY <1>1, <1>4 DEF HistoryInv

\* The record of a status is of the type of the history's rows.
LEMMA RecordType ==
    ASSUME NEW m \in 1 .. 5
    PROVE  /\ Record(m) \in HistoryRows
           /\ StatusOrder[m] \in Statuses
  BY DEF Record, StatusOrder, Statuses, HistoryRows

\* The first settlement transaction makes the row and its first record.
LEMMA CreateStep ==
    ASSUME IInv, NEW p \in Clients, CreateSettlement(p)
    PROVE  IInv'
  <1>1. pc[p] = "create" /\ pc[p] \in Points /\ pc[p] \notin DOMAIN Posts
    BY PointsListed DEF CreateSettlement
  <1>2. PICK k \in Keys :
           /\ k = trade[p] /\ PointInv(p) /\ TablesInv(k)
           /\ \A q \in Clients \ {p} : pc[q] # "idle" => trade[q] # k
    BY <1>1, Runner
  <1>3. PICK pt \in {Returns[pc[p]], Raises[pc[p]]} :
            pc' = [pc EXCEPT ![p] = pt] /\ pt \in Points \cup {"idle"}
    BY <1>1, Leaves DEF CreateSettlement
  <1>4. Len(log[k]) = 3 /\ Len(history[k]) = 0
    BY <1>1, <1>2 DEF PointInv, EventsAt, StatusesAt
  <1>5. settlements[k] = <<>>
    BY <1>2, <1>4 DEF TablesInv, HistoryInv
  <1>6. Record(1) = [settlement |-> 1, previous |-> "NULL", new |-> "PENDING"]
    BY DEF Record, StatusOrder
  <1>7. /\ settlements' = [settlements EXCEPT ![k] = Append(@, "PENDING")]
        /\ history' = [history EXCEPT ![k] = Append(@, Record(1))]
        /\ settlement_id' = [settlement_id EXCEPT ![p] = 1]
    <2>1. Len(settlements[k]) + 1 = 1
      BY <1>5
    <2> QED
      BY <1>2, <1>6, <2>1 DEF CreateSettlement, record_state_change
  <1>8. /\ settlements' \in [Keys -> Seq(Statuses)]
        /\ settlements'[k] = <<"PENDING">>
    BY <1>5, <1>7 DEF IInv, TypeOK, Statuses
  <1>9. /\ history' \in [Keys -> Seq(HistoryRows)]
        /\ history'[k] = Append(history[k], Record(1))
    BY <1>7, RecordType DEF IInv, TypeOK
  <1>10. Local(p, k, pt)
    BY <1>2, <1>3, <1>7, <1>8, <1>9
       DEF Local, CreateSettlement, Leave, IInv, TypeOK
  <1>11. HistoryInv(k)' /\ Len(history'[k]) = 1
    <2>1. Len(history[k]) = 1 - 1 /\ settlements'[k] = <<StatusOrder[1]>>
      BY <1>4, <1>8 DEF StatusOrder
    <2> QED
      BY <1>2, <1>9, <2>1, RecordExtends
  <1>12. log'[k] = log[k]
    BY DEF CreateSettlement
  <1>13. TablesInv(k)'
    <2>1. LogInv(k)'
      BY <1>2, <1>12 DEF TablesInv, LogInv
    <2>2. OrderInv(k)'
      <3>1. Len(log'[k]) = 3 /\ Len(history'[k]) = 1
        BY <1>4, <1>11, <1>12
      <3> QED
        BY <3>1 DEF OrderInv
    <2> QED
      BY <1>11, <2>1, <2>2 DEF TablesInv
  <1>14. pt # "idle" => PointInv(p)'
    <2>1. pc'[p] = pt /\ trade'[p] = k /\ settlement_id'[p] = 1
      BY <1>2, <1>3, <1>7 DEF IInv, TypeOK, CreateSettlement, Leave
    <2>2. \/ /\ pt \notin DOMAIN Posts
             /\ EventsAt[pt] = 3
             /\ StatusesAt[pt] = 1
          \/ /\ pt \in DOMAIN Posts
             /\ EventsAt[pt] <= 3
      BY <1>1, <1>3, PointsListed DEF Returns, Raises, EventsAt, StatusesAt
    <2> QED
      BY <1>3, <1>4, <1>11, <1>12, <2>1, <2>2, Arrives DEF Exact
  <1> QED
    BY <1>2, <1>10, <1>13, <1>14, LocalStep

\* Steps 2 to 5 of the settlement handler, m statuses being recorded so far.
LEMMA UpdateStep ==
    ASSUME IInv, NEW p \in Clients, NEW m \in 1 .. 4,
           pc[p] = <<"approve", "sign", "broadcast", "confirm">>[m],
           update_status(p, StatusOrder[m], StatusOrder[m + 1]),
           Leave(p),
           UNCHANGED <<log, journal, settlement_id>>
    PROVE  IInv'
  <1>1. /\ pc[p] \in {"approve", "sign", "broadcast", "confirm"}
        /\ pc[p] \in Points /\ pc[p] \notin DOMAIN Posts
    BY PointsListed
  <1>2. PICK k \in Keys :
           /\ k = trade[p] /\ PointInv(p) /\ TablesInv(k)
           /\ \A q \in Clients \ {p} : pc[q] # "idle" => trade[q] # k
    BY <1>1, Runner
  <1>3. PICK pt \in {Returns[pc[p]], Raises[pc[p]]} :
            pc' = [pc EXCEPT ![p] = pt] /\ pt \in Points \cup {"idle"}
    BY <1>1, Leaves
  <1>4. EventsAt[pc[p]] = m + 3 /\ StatusesAt[pc[p]] = m
    BY DEF EventsAt, StatusesAt
  <1>5. Exact(p, k, m + 3, m) /\ settlement_id[p] = 1
    BY <1>1, <1>2, <1>4 DEF PointInv, Exact
  <1>6. settlements[k] = <<StatusOrder[m]>>
    BY <1>2, <1>5 DEF TablesInv, HistoryInv, Exact
  <1>7. Record(m + 1) = [settlement |-> 1, previous |-> StatusOrder[m],
                         new |-> StatusOrder[m + 1]]
    BY DEF Record
  <1>8. /\ settlements' = [settlements EXCEPT ![k][1] = StatusOrder[m + 1]]
        /\ history' = [history EXCEPT ![k] = Append(@, Record(m + 1))]
    BY <1>2, <1>5, <1>7 DEF update_status, record_state_change
  <1>9. /\ settlements' \in [Keys -> Seq(Statuses)]
        /\ settlements'[k] = <<StatusOrder[m + 1]>>
    <2>1. [settlements[k] EXCEPT ![1] = StatusOrder[m + 1]] = <<StatusOrder[m + 1]>>
      BY <1>6
    <2>2. <<StatusOrder[m + 1]>> \in Seq(Statuses)
      BY RecordType
    <2> QED
      BY <1>8, <2>1, <2>2 DEF IInv, TypeOK
  <1>10. /\ history' \in [Keys -> Seq(HistoryRows)]
         /\ history'[k] = Append(history[k], Record(m + 1))
    BY <1>8, RecordType DEF IInv, TypeOK
  <1>11. Local(p, k, pt)
    BY <1>2, <1>3, <1>8, <1>9, <1>10 DEF Local, Leave, IInv, TypeOK
  <1>12. HistoryInv(k)' /\ Len(history'[k]) = m + 1
    <2>1. Len(history[k]) = (m + 1) - 1 /\ m + 1 \in 1 .. 5
      BY <1>5 DEF Exact
    <2> QED
      BY <1>2, <1>9, <1>10, <2>1, RecordExtends
  <1>13. log'[k] = log[k]
    OBVIOUS
  <1>14. TablesInv(k)'
    <2>1. LogInv(k)'
      BY <1>2, <1>13 DEF TablesInv, LogInv
    <2>2. OrderInv(k)'
      BY <1>5, <1>12, <1>13 DEF OrderInv, Exact
    <2> QED
      BY <1>12, <2>1, <2>2 DEF TablesInv
  <1>15. pt # "idle" => PointInv(p)'
    <2>1. pc'[p] = pt /\ trade'[p] = k /\ settlement_id'[p] = 1
      BY <1>2, <1>3, <1>5 DEF IInv, TypeOK, Leave
    <2>2. \/ /\ pt \notin DOMAIN Posts
             /\ EventsAt[pt] = m + 3
             /\ StatusesAt[pt] = m + 1
          \/ /\ pt \in DOMAIN Posts
             /\ EventsAt[pt] <= m + 3
      BY <1>3, PointsListed DEF Returns, Raises, EventsAt, StatusesAt
    <2> QED
      BY <1>3, <1>5, <1>12, <1>13, <2>1, <2>2, Arrives DEF Exact
  <1> QED
    BY <1>2, <1>11, <1>14, <1>15, LocalStep

\* A point that an exception, or a ledger handler's return, leads to is one of
\* an event already recorded.
LEMMA PostsFollow ==
    ASSUME NEW pt \in Points, NEW to,
           to = Raises[pt] \/ (pt \in DOMAIN Posts /\ to = Returns[pt])
    PROVE  /\ to \in DOMAIN Posts \cup {"idle"}
           /\ to # "idle" => EventsAt[to] <= EventsAt[pt]
           /\ EventsAt[pt] \in Nat
           /\ to # "idle" => EventsAt[to] \in Nat
  BY PointsListed DEF Returns, Raises, EventsAt

\* A step that leaves log and settlements alone and goes to such a point.
LEMMA PostStep ==
    ASSUME IInv, NEW p \in Clients, pc[p] \in Points, NEW to,
           \/ to = Raises[pc[p]]
           \/ pc[p] \in DOMAIN Posts /\ to = Returns[pc[p]],
           pc' = [pc EXCEPT ![p] = to],
           journal' \in [Keys -> Seq(JournalRows)],
           UNCHANGED <<log, settlements, history, trade, settlement_id>>
    PROVE  IInv'
  <1>1. PICK k \in Keys :
           /\ k = trade[p] /\ PointInv(p) /\ TablesInv(k)
           /\ \A q \in Clients \ {p} : pc[q] # "idle" => trade[q] # k
           /\ trade' = [trade EXCEPT ![p] = k]
    BY Runner
  <1>2. /\ to \in DOMAIN Posts \cup {"idle"}
        /\ to # "idle" => EventsAt[to] <= EventsAt[pc[p]]
        /\ to # "idle" => EventsAt[to] \in Nat
        /\ EventsAt[pc[p]] \in Nat
    BY PostsFollow
  <1>3. to \in Points \cup {"idle"}
    BY <1>2 DEF Points
  <1>4. Local(p, k, to)
    BY <1>1, <1>3 DEF Local, IInv, TypeOK
  <1>5. TablesInv(k)'
    BY <1>1 DEF TablesInv, LogInv, HistoryInv, OrderInv
  <1>6. to # "idle" => PointInv(p)'
    <2>1. pc'[p] = to /\ trade'[p] = k /\ log'[k] = log[k]
      BY <1>1 DEF IInv, TypeOK
    <2>2. Len(log[k]) >= EventsAt[pc[p]] /\ Len(log[k]) \in Nat
      BY <1>1, <1>2 DEF PointInv, IInv, TypeOK
    <2>3. to # "idle" => Len(log'[k]) >= EventsAt[to]
      BY <1>2, <2>1, <2>2
    <2> QED
      BY <1>2, <1>3, <2>1, <2>3, Arrives
  <1> QED
    BY <1>1, <1>4, <1>5, <1>6, LocalStep

\* A posting leaves events and settlements alone.
LEMMA LedgerStep ==
    ASSUME IInv, NEW p \in Clients, PostLedger(p)
    PROVE  IInv'
  <1>1. pc[p] \in DOMAIN Posts /\ pc[p] \in Points
    BY DEF PostLedger, Points
  <1>2. PICK to \in {Returns[pc[p]], Raises[pc[p]]} :
            pc' = [pc EXCEPT ![p] = to]
    BY <1>1, Leaves DEF PostLedger
  <1>3. PICK k \in Keys : k = trade[p]
    BY <1>1, Runner
  <1>4. journal[k] \o legs(get_accounts(k, Posts[pc[p]])) \in Seq(JournalRows)
    BY <1>1, LegsType DEF IInv, TypeOK
  <1>5. journal' \in [Keys -> Seq(JournalRows)]
    BY <1>3, <1>4 DEF PostLedger, IInv, TypeOK
  <1> QED
    BY <1>1, <1>2, <1>5, PostStep DEF PostLedger, Leave

\* After an exception only ledger handlers of recorded events go on.
LEMMA RaiseStep ==
    ASSUME IInv, NEW p \in Clients, Raise(p)
    PROVE  IInv'
  <1>1. journal' \in [Keys -> Seq(JournalRows)]
    BY DEF Raise, IInv, TypeOK
  <1> QED
    BY <1>1, PostStep DEF Raise

\* A crash leaves every table alone and its client idle.
LEMMA CrashStep ==
    ASSUME IInv, NEW p \in Clients, Crash(p)
    PROVE  IInv'
  <1>1. pc[p] \in Points
    BY DEF Crash, IInv, TypeOK
  <1>2. PICK k \in Keys :
           /\ k = trade[p] /\ TablesInv(k)
           /\ \A q \in Clients \ {p} : pc[q] # "idle" => trade[q] # k
           /\ trade' = [trade EXCEPT ![p] = k]
    BY <1>1, Runner DEF Crash
  <1>3. Local(p, k, "idle")
    BY <1>2 DEF Local, Crash, IInv, TypeOK
  <1>4. TablesInv(k)'
    BY <1>2 DEF Crash, TablesInv, LogInv, HistoryInv, OrderInv
  <1> QED
    BY <1>2, <1>3, <1>4, LocalStep

\* A duplicate submission changes nothing.
LEMMA StutterStep == IInv /\ UNCHANGED vars => IInv'
  <1> SUFFICES ASSUME IInv, UNCHANGED vars PROVE IInv'
    OBVIOUS
  <1>1. TypeOK' /\ OneRunner'
    BY DEF IInv, TypeOK, OneRunner, vars
  <1>2. ClientInv'
    BY DEF IInv, ClientInv, PointInv, vars
  <1>3. TradeInv'
    BY DEF IInv, TradeInv, LogInv, HistoryInv, OrderInv, vars
  <1> QED
    BY <1>1, <1>2, <1>3 DEF IInv

-----------------------------------------------------------------------------
\* The inductive invariant is one.

\* Nothing recorded, nobody running.
LEMMA InvInit == Init => IInv
  <1> SUFFICES ASSUME Init PROVE IInv
    OBVIOUS
  <1>1. TypeOK
    BY DEF Init, TypeOK
  <1>2. OneRunner /\ ClientInv
    BY DEF Init, OneRunner, ClientInv
  <1>3. TradeInv
    BY DEF Init, TradeInv, LogInv, HistoryInv, OrderInv
  <1> QED
    BY <1>1, <1>2, <1>3 DEF IInv

\* Every action of the pipeline preserves the invariant.
LEMMA InvNext == IInv /\ [Next]_vars => IInv'
  <1> SUFFICES ASSUME IInv, [Next]_vars PROVE IInv'
    OBVIOUS
  <1> USE DEF StatusOrder
  <1>1. ASSUME NEW p \in Clients, NEW k \in Keys, Submit(p, k) PROVE IInv'
    BY <1>1, SubmitStep
  <1>2. ASSUME NEW p \in Clients, NEW k \in Keys, SubmitDuplicate(p, k) PROVE IInv'
    BY <1>2, StutterStep DEF SubmitDuplicate
  <1>3. ASSUME NEW p \in Clients, PublishChild(p) PROVE IInv'
    BY <1>3, PublishStep
  <1>4. ASSUME NEW p \in Clients, CreateSettlement(p) PROVE IInv'
    BY <1>4, CreateStep
  <1>5. ASSUME NEW p \in Clients, Approve(p) PROVE IInv'
    <2>1. /\ pc[p] = <<"approve", "sign", "broadcast", "confirm">>[1]
          /\ update_status(p, StatusOrder[1], StatusOrder[1 + 1])
      BY <1>5 DEF Approve
    <2> QED
      BY <1>5, <2>1, UpdateStep DEF Approve
  <1>6. ASSUME NEW p \in Clients, Sign(p) PROVE IInv'
    <2>1. /\ pc[p] = <<"approve", "sign", "broadcast", "confirm">>[2]
          /\ update_status(p, StatusOrder[2], StatusOrder[2 + 1])
      BY <1>6 DEF Sign
    <2> QED
      BY <1>6, <2>1, UpdateStep DEF Sign
  <1>7. ASSUME NEW p \in Clients, Broadcast(p) PROVE IInv'
    <2>1. /\ pc[p] = <<"approve", "sign", "broadcast", "confirm">>[3]
          /\ update_status(p, StatusOrder[3], StatusOrder[3 + 1])
      BY <1>7 DEF Broadcast
    <2> QED
      BY <1>7, <2>1, UpdateStep DEF Broadcast
  <1>8. ASSUME NEW p \in Clients, Confirm(p) PROVE IInv'
    <2>1. /\ pc[p] = <<"approve", "sign", "broadcast", "confirm">>[4]
          /\ update_status(p, StatusOrder[4], StatusOrder[4 + 1])
      BY <1>8 DEF Confirm
    <2> QED
      BY <1>8, <2>1, UpdateStep DEF Confirm
  <1>9. ASSUME NEW p \in Clients, PostLedger(p) PROVE IInv'
    BY <1>9, LedgerStep
  <1>10. ASSUME NEW p \in Clients, Raise(p) PROVE IInv'
    BY <1>10, RaiseStep
  <1>11. ASSUME NEW p \in Clients, Crash(p) PROVE IInv'
    BY <1>11, CrashStep
  <1>12. CASE UNCHANGED vars
    BY <1>12, StutterStep
  <1> QED
    BY <1>1, <1>2, <1>3, <1>4, <1>5, <1>6, <1>7, <1>8, <1>9, <1>10, <1>11, <1>12
       DEF Next, Step

\* In every reachable state the tables of a trade are prefixes of its lifecycle
\* and each call tree is where its tables say.
THEOREM Invariance == Spec => []IInv
  BY InvInit, InvNext, PTL DEF Spec

\* Type correctness.
THEOREM TypeCorrect == Spec => []TypeOK
  BY Invariance, PTL DEF IInv

\* However many clients publish a trade's root event, one call tree runs it.
THEOREM RunsOnce == Spec => []OneRunner
  BY Invariance, PTL DEF IInv

\* No trade gets a second settlement instruction.
THEOREM SettledOnce == Spec => []OneSettlement
  <1>1. ASSUME IInv, NEW k \in Keys PROVE Len(settlements[k]) <= 1
    <2>1. \/ settlements[k] = <<>>
          \/ \E st : settlements[k] = <<st>>
      BY <1>1 DEF IInv, TradeInv, HistoryInv
    <2>2. CASE settlements[k] = <<>>
      BY <2>2
    <2>3. CASE \E st : settlements[k] = <<st>>
      BY <2>3
    <2> QED
      BY <2>1, <2>2, <2>3
  <1>2. IInv => OneSettlement
    BY <1>1 DEF OneSettlement
  <1> QED
    BY <1>2, Invariance, PTL

-----------------------------------------------------------------------------
\* Events and rows.

\* A trade's log is at most one settlement event behind its row, never ahead.
LEMMA RowsBeforeEvents == IInv => EventFollowsRow
  <1> SUFFICES ASSUME IInv, NEW k \in Keys, NEW i \in DOMAIN log[k],
                      log[k][i] \in SettlementEvents
               PROVE  \E s \in DOMAIN settlements[k] :
                          SETTLEMENT_STATE_ORDER[settlements[k][s]]
                              >= SETTLEMENT_STATE_ORDER[Announces[log[k][i]]]
    BY DEF EventFollowsRow
  <1>1. /\ LogInv(k) /\ HistoryInv(k) /\ OrderInv(k)
        /\ Len(log[k]) \in Nat /\ Len(history[k]) \in Nat
        /\ i \in 1 .. Len(log[k])
    BY DEF IInv, TypeOK, TradeInv
  <1>2. i \in 4 .. 8 /\ log[k][i] = Order[i]
    BY <1>1 DEF LogInv, Order, SettlementEvents
  <1>3. SETTLEMENT_STATE_ORDER[Announces[log[k][i]]] = i - 4
    BY <1>2 DEF Order, Announces, SETTLEMENT_STATE_ORDER
  <1>4. PICK m \in 1 .. 5 : Len(history[k]) = m /\ m >= i - 3
    <2>1. \/ Len(log[k]) <= Len(history[k]) + 3
          \/ Len(history[k]) = 5
      BY <1>1 DEF OrderInv
    <2>2. Len(history[k]) <= 5
      BY <1>1 DEF HistoryInv
    <2>3. PICK h \in Nat, n \in Nat : h = Len(history[k]) /\ n = Len(log[k])
      BY <1>1
    <2>4. i \in 4 .. 8 /\ i <= n /\ h <= 5 /\ (n <= h + 3 \/ h = 5)
      BY <1>1, <1>2, <2>1, <2>2, <2>3
    <2>5. h \in 1 .. 5 /\ h >= i - 3
      BY <2>4
    <2> QED
      BY <2>3, <2>5
  <1>5. settlements[k] = <<StatusOrder[m]>>
    BY <1>1, <1>4 DEF HistoryInv
  <1>6. 1 \in DOMAIN settlements[k] /\ settlements[k][1] = StatusOrder[m]
    BY <1>5
  <1>7. SETTLEMENT_STATE_ORDER[StatusOrder[m]] = m - 1
    BY DEF StatusOrder, SETTLEMENT_STATE_ORDER
  <1>8. m - 1 >= i - 4
    BY <1>2, <1>4
  <1> QED
    BY <1>3, <1>6, <1>7, <1>8

\* No consumer hears of a status that no committed row has reached.
THEOREM EventsFollowRows == Spec => []EventFollowsRow
  BY RowsBeforeEvents, Invariance, PTL

\* The n-th record continues the one before it.
LEMMA RecordContinues ==
    ASSUME NEW n \in 2 .. 5
    PROVE  /\ validate_settlement_state(Record(n).previous, Record(n).new)
           /\ Record(n).previous = Record(n - 1).new
  BY DEF validate_settlement_state, Record, StatusOrder, Statuses,
         SETTLEMENT_STATE_ORDER

\* The records of a trade are those of StatusOrder, in order.
LEMMA HistoryFromInv == IInv => HistoryIsTheLifecycle
  <1> SUFFICES ASSUME IInv, NEW k \in Keys
               PROVE  /\ \A i \in DOMAIN history[k] :
                             /\ history[k][i].settlement \in DOMAIN settlements[k]
                             /\ ContinuesHistory(k, i)
                             /\ \A j \in 1 .. i - 1 :
                                    history[k][j].settlement = history[k][i].settlement
                                        => history[k][j].new # history[k][i].new
                      /\ \A s \in DOMAIN settlements[k] :
                             \E i \in DOMAIN history[k] :
                                 /\ history[k][i].settlement = s
                                 /\ history[k][i].new = settlements[k][s]
                                 /\ \A j \in i + 1 .. Len(history[k]) :
                                        history[k][j].settlement # s
    BY DEF HistoryIsTheLifecycle
  <1>0. history[k] \in Seq(HistoryRows) /\ HistoryInv(k)
    BY DEF IInv, TypeOK, TradeInv
  <1>m. PICK m \in 0 .. 5 : m = Len(history[k])
    <2>1. PICK n \in Nat : n = Len(history[k])
      BY <1>0
    <2>2. n <= 5
      BY <1>0, <2>1 DEF HistoryInv
    <2>3. n \in 0 .. 5
      BY <2>2
    <2> QED
      BY <2>1, <2>3
  <1>1. /\ DOMAIN history[k] = 1 .. m
        /\ \A i \in 1 .. m : history[k][i] = Record(i)
        /\ settlements[k] = IF m = 0 THEN <<>> ELSE <<StatusOrder[m]>>
    BY <1>0, <1>m DEF HistoryInv
  <1>2. ASSUME NEW i \in 1 .. m
        PROVE  /\ history[k][i].settlement = 1
               /\ history[k][i].new = StatusOrder[i]
               /\ i \in 1 .. 5
    <2>1. history[k][i] = Record(i) /\ i \in 1 .. 5
      BY <1>1, <1>2
    <2> QED
      BY <2>1 DEF Record
  <1>3. ASSUME NEW i \in 1 .. m
        PROVE  /\ history[k][i].settlement \in DOMAIN settlements[k]
               /\ ContinuesHistory(k, i)
               /\ \A j \in 1 .. i - 1 : history[k][j].new # history[k][i].new
    <2>1. history[k][i].settlement \in DOMAIN settlements[k]
      BY <1>1, <1>2
    <2>2. ContinuesHistory(k, i)
      <3>1. CASE i = 1
        <4>1. history[k][1] = Record(1)
          BY <1>1, <3>1
        <4>2. Record(1).previous = "NULL" /\ Record(1).new = "PENDING"
          BY DEF Record, StatusOrder
        <4> QED
          BY <3>1, <4>1, <4>2 DEF ContinuesHistory
      <3>2. CASE i # 1
        <4>1. i \in 2 .. 5 /\ i - 1 \in 1 .. m
          BY <1>1, <3>2
        <4>2. /\ history[k][i] = Record(i)
              /\ history[k][i - 1] = Record(i - 1)
          BY <1>1, <4>1
        <4>3. /\ history[k][i - 1].settlement = history[k][i].settlement
              /\ history[k][i - 1].new = history[k][i].previous
              /\ validate_settlement_state(history[k][i].previous,
                                           history[k][i].new)
          BY <1>2, <4>1, <4>2, RecordContinues
        <4> QED
          BY <4>1, <4>3 DEF ContinuesHistory
      <3> QED
        BY <3>1, <3>2
    <2>3. \A j \in 1 .. i - 1 : history[k][j].new # history[k][i].new
      <3> SUFFICES ASSUME NEW j \in 1 .. i - 1
                   PROVE  history[k][j].new # history[k][i].new
        OBVIOUS
      <3>1. j \in 1 .. m /\ j \in 1 .. 5 /\ i \in 1 .. 5 /\ j # i
        BY <1>1
      <3>2. history[k][j].new = StatusOrder[j] /\ history[k][i].new = StatusOrder[i]
        BY <1>2, <3>1
      <3> QED
        BY <3>1, <3>2 DEF StatusOrder
    <2> QED
      BY <2>1, <2>2, <2>3
  <1>4. ASSUME NEW s \in DOMAIN settlements[k]
        PROVE  \E i \in 1 .. m : /\ history[k][i].settlement = s
                                 /\ history[k][i].new = settlements[k][s]
                                 /\ \A j \in i + 1 .. m :
                                        history[k][j].settlement # s
    <2>1. m \in 1 .. 5
      BY <1>1
    <2>2. settlements[k] = <<StatusOrder[m]>> /\ s = 1
      BY <1>1, <2>1
    <2>3. m \in 1 .. m /\ \A j \in m + 1 .. m : FALSE
      BY <2>1
    <2> QED
      BY <1>2, <2>2, <2>3
  <1> QED
    BY <1>1, <1>m, <1>3, <1>4

\* The audit history is the lifecycle up to the instruction's status.
THEOREM HistoryIsTrue == Spec => []HistoryIsTheLifecycle
  BY HistoryFromInv, Invariance, PTL

-----------------------------------------------------------------------------
\* The refinement of Lifecycle.

\* The table allows exactly the next event of the chain.
LEMMA OrderIsAllowed ==
    ASSUME NEW n \in 1 .. 8
    PROVE  /\ validate_transition(Order[n], Order[n + 1])
           /\ Order[n + 1] \in EventTypes
  BY DEF validate_transition, ALLOWED_TRANSITIONS, Order, EventTypes,
         SettlementEvents

\* The pipeline starts as Lifecycle does.
LEMMA LifecycleInit == Init => LC!Init
  BY DEF Init, LC!Init

\* A recorded event begins a trade's lifecycle or advances it.
LEMMA LifecycleNext == IInv /\ [Next]_vars => [LC!Next]_log
  <1> SUFFICES ASSUME IInv, [Next]_vars PROVE LC!Next \/ UNCHANGED log
    OBVIOUS
  <1>1. ASSUME NEW p \in Clients, NEW k \in Keys, Submit(p, k) PROVE LC!Next
    <2>1. log[k] = <<>> /\ log' = [log EXCEPT ![k] = Append(log[k], "TradeCreated")]
      BY <1>1 DEF Submit, IsDuplicate, persist_event
    <2>2. Append(log[k], "TradeCreated") = <<"TradeCreated">>
      BY <2>1
    <2> QED
      BY <2>1, <2>2 DEF LC!Next, LC!Begin
  <1>2. ASSUME NEW p \in Clients, PublishChild(p) PROVE LC!Next
    <2>1. pc[p] \in DOMAIN Publishes /\ pc[p] \in Points
      BY <1>2 DEF PublishChild, Points
    <2>2. PICK k \in Keys : k = trade[p] /\ PointInv(p) /\ LogInv(k)
      BY <2>1, Runner DEF TablesInv
    <2>3. PICK n \in 1 .. 8 : n = EventsAt[pc[p]] /\ Publishes[pc[p]] = Order[n + 1]
      BY <2>1, PointsListed DEF Publishes, EventsAt, Order
    <2>4. Len(log[k]) = n
      BY <2>1, <2>2, <2>3, PointsListed DEF PointInv
    <2>5. log[k][n] = Order[n] /\ log[k] # <<>>
      BY <2>2, <2>4 DEF LogInv
    <2>6. LC!validate_transition(log[k][Len(log[k])], Order[n + 1])
      BY <2>4, <2>5, OrderIsAllowed
         DEF LC!validate_transition, validate_transition,
             LC!ALLOWED_TRANSITIONS, ALLOWED_TRANSITIONS
    <2>7. log' = [log EXCEPT ![k] = Append(@, Order[n + 1])]
      BY <1>2, <2>2, <2>3 DEF PublishChild, persist_event
    <2>8. LC!Advance(k, Order[n + 1])
      BY <2>5, <2>6, <2>7 DEF LC!Advance
    <2>9. Order[n + 1] \in LC!EventTypes
      BY OrderIsAllowed DEF LC!EventTypes, EventTypes, LC!SettlementEvents,
         SettlementEvents
    <2> QED
      BY <2>8, <2>9 DEF LC!Next
  <1>3. ASSUME NEW p \in Clients,
               \/ CreateSettlement(p) \/ Approve(p) \/ Sign(p) \/ Broadcast(p)
               \/ Confirm(p) \/ PostLedger(p) \/ Raise(p) \/ Crash(p)
        PROVE  UNCHANGED log
    BY <1>3 DEF CreateSettlement, Approve, Sign, Broadcast, Confirm, PostLedger,
                Raise, Crash
  <1>4. ASSUME NEW p \in Clients, NEW k \in Keys, SubmitDuplicate(p, k)
        PROVE  UNCHANGED log
    BY <1>4 DEF SubmitDuplicate, vars
  <1>5. CASE UNCHANGED vars
    BY <1>5 DEF vars
  <1> QED
    BY <1>1, <1>2, <1>3, <1>4, <1>5 DEF Next, Step

\* The pipeline implements Lifecycle: a trade's events follow the transition
\* table, start once and never start again, whatever fails.
THEOREM Refinement == Spec => ImplementsLifecycle
  <1>1. Spec => []IInv
    BY Invariance
  <1> QED
    BY <1>1, LifecycleInit, LifecycleNext, PTL
       DEF Spec, ImplementsLifecycle, LC!Spec

-----------------------------------------------------------------------------
\* Action properties.

\* The four updates move a settlement to the status after its own.
LEMMA UpdateAdvances ==
    ASSUME IInv, NEW p \in Clients, NEW m \in 1 .. 4,
           pc[p] = <<"approve", "sign", "broadcast", "confirm">>[m],
           update_status(p, StatusOrder[m], StatusOrder[m + 1]),
           NEW j \in Keys
    PROVE  AdvancesOneStep(j)
  <1>1. pc[p] \in Points /\ pc[p] \notin DOMAIN Posts
    BY PointsListed
  <1>2. PICK k \in Keys : k = trade[p] /\ PointInv(p) /\ TablesInv(k)
    BY <1>1, Runner
  <1>3. StatusesAt[pc[p]] = m
    BY DEF StatusesAt
  <1>4. Len(history[k]) = m /\ settlement_id[p] = 1
    BY <1>1, <1>2, <1>3 DEF PointInv
  <1>5. settlements[k] = <<StatusOrder[m]>>
    BY <1>2, <1>4 DEF TablesInv, HistoryInv
  <1>6. settlements' = [settlements EXCEPT ![k][1] = StatusOrder[m + 1]]
    BY <1>2, <1>4 DEF update_status
  <1>7. CASE j = k
    <2>1. settlements'[k] = [settlements[k] EXCEPT ![1] = StatusOrder[m + 1]]
      BY <1>6 DEF IInv, TypeOK
    <2>2. settlements'[k] = <<StatusOrder[m + 1]>>
      BY <1>5, <2>1
    <2>3. validate_settlement_state(StatusOrder[m], StatusOrder[m + 1])
      BY DEF validate_settlement_state, StatusOrder, Statuses,
             SETTLEMENT_STATE_ORDER
    <2> QED
      BY <1>5, <1>7, <2>2, <2>3 DEF AdvancesOneStep
  <1>8. CASE j # k
    <2>1. settlements'[j] = settlements[j]
      BY <1>6, <1>8 DEF IInv, TypeOK
    <2> QED
      BY <2>1 DEF AdvancesOneStep
  <1> QED
    BY <1>7, <1>8

\* Every step leaves a settlement's status alone or advances it by one.
LEMMA StepAdvances == IInv /\ [Next]_vars => \A k \in Keys : AdvancesOneStep(k)
  <1> SUFFICES ASSUME IInv, [Next]_vars, NEW j \in Keys PROVE AdvancesOneStep(j)
    OBVIOUS
  <1>0. CASE UNCHANGED settlements
    BY <1>0 DEF AdvancesOneStep
  <1>1. ASSUME NEW p \in Clients, NEW k \in Keys,
               Submit(p, k) \/ SubmitDuplicate(p, k)
        PROVE  UNCHANGED settlements
    BY <1>1 DEF Submit, SubmitDuplicate, vars
  <1>2. ASSUME NEW p \in Clients,
               PublishChild(p) \/ PostLedger(p) \/ Raise(p) \/ Crash(p)
        PROVE  UNCHANGED settlements
    BY <1>2 DEF PublishChild, PostLedger, Raise, Crash
  <1>3. ASSUME NEW p \in Clients, CreateSettlement(p) PROVE AdvancesOneStep(j)
    <2>1. CASE j = trade[p]
      <3>1. settlements'[j] = Append(settlements[j], "PENDING")
        BY <1>3, <2>1 DEF CreateSettlement, IInv, TypeOK
      <3>2. settlements[j] \in Seq(Statuses)
        BY DEF IInv, TypeOK
      <3> QED
        BY <3>1, <3>2 DEF AdvancesOneStep
    <2>2. CASE j # trade[p]
      <3>1. settlements'[j] = settlements[j]
        BY <1>3, <2>2 DEF CreateSettlement, IInv, TypeOK
      <3> QED
        BY <3>1 DEF AdvancesOneStep
    <2> QED
      BY <2>1, <2>2
  <1>4. ASSUME NEW p \in Clients, Approve(p) PROVE AdvancesOneStep(j)
    <2>1. /\ pc[p] = <<"approve", "sign", "broadcast", "confirm">>[1]
          /\ update_status(p, StatusOrder[1], StatusOrder[1 + 1])
      BY <1>4 DEF Approve, StatusOrder
    <2> QED
      BY <2>1, UpdateAdvances
  <1>5. ASSUME NEW p \in Clients, Sign(p) PROVE AdvancesOneStep(j)
    <2>1. /\ pc[p] = <<"approve", "sign", "broadcast", "confirm">>[2]
          /\ update_status(p, StatusOrder[2], StatusOrder[2 + 1])
      BY <1>5 DEF Sign, StatusOrder
    <2> QED
      BY <2>1, UpdateAdvances
  <1>6. ASSUME NEW p \in Clients, Broadcast(p) PROVE AdvancesOneStep(j)
    <2>1. /\ pc[p] = <<"approve", "sign", "broadcast", "confirm">>[3]
          /\ update_status(p, StatusOrder[3], StatusOrder[3 + 1])
      BY <1>6 DEF Broadcast, StatusOrder
    <2> QED
      BY <2>1, UpdateAdvances
  <1>7. ASSUME NEW p \in Clients, Confirm(p) PROVE AdvancesOneStep(j)
    <2>1. /\ pc[p] = <<"approve", "sign", "broadcast", "confirm">>[4]
          /\ update_status(p, StatusOrder[4], StatusOrder[4 + 1])
      BY <1>7 DEF Confirm, StatusOrder
    <2> QED
      BY <2>1, UpdateAdvances
  <1>8. CASE UNCHANGED vars
    BY <1>0, <1>8 DEF vars
  <1> QED
    BY <1>0, <1>1, <1>2, <1>3, <1>4, <1>5, <1>6, <1>7, <1>8 DEF Next, Step

\* A settlement never skips or repeats a status, though one of its five
\* writers at most checks the one it replaces.
THEOREM AdvancesByOne == Spec => SettlementAdvancesOneStep
  <1>1. Spec => []IInv
    BY Invariance
  <1> QED
    BY <1>1, StepAdvances, PTL DEF Spec, SettlementAdvancesOneStep

\* A step of a running client touches only the trade it runs.
LEMMA OnlyOwnTrade ==
    ASSUME IInv, [Next]_vars, NEW k \in Keys, Abandoned(k)
    PROVE  LeftAlone(k)
  <1>1. ASSUME NEW p \in Clients, pc[p] \in Points PROVE k # trade[p]
    BY <1>1, PointsListed DEF Abandoned, Running
  <1>2. ASSUME NEW p \in Clients, NEW j \in Keys, Submit(p, j) PROVE LeftAlone(k)
    <2>1. j # k
      BY <1>2 DEF Submit, IsDuplicate, Abandoned
    <2> QED
      BY <1>2, <2>1 DEF Submit, persist_event, LeftAlone, IInv, TypeOK
  <1>3. ASSUME NEW p \in Clients, PublishChild(p) PROVE LeftAlone(k)
    <2>1. k # trade[p]
      BY <1>1, <1>3 DEF PublishChild, Points
    <2> QED
      BY <1>3, <2>1 DEF PublishChild, persist_event, LeftAlone, IInv, TypeOK
  <1>4. ASSUME NEW p \in Clients, CreateSettlement(p) PROVE LeftAlone(k)
    <2>1. k # trade[p]
      BY <1>1, <1>4, PointsListed DEF CreateSettlement
    <2> QED
      BY <1>4, <2>1
         DEF CreateSettlement, record_state_change, LeftAlone, IInv, TypeOK
  <1>5. ASSUME NEW p \in Clients, NEW from, NEW to, pc[p] \in Points,
               update_status(p, from, to), UNCHANGED <<log, journal>>
        PROVE  LeftAlone(k)
    <2>1. k # trade[p]
      BY <1>1, <1>5
    <2> QED
      BY <1>5, <2>1 DEF update_status, record_state_change, LeftAlone, IInv, TypeOK
  <1>6. ASSUME NEW p \in Clients,
               Approve(p) \/ Sign(p) \/ Broadcast(p) \/ Confirm(p)
        PROVE  LeftAlone(k)
    BY <1>5, <1>6, PointsListed DEF Approve, Sign, Broadcast, Confirm
  <1>7. ASSUME NEW p \in Clients, PostLedger(p) PROVE LeftAlone(k)
    <2>1. k # trade[p]
      BY <1>1, <1>7 DEF PostLedger, Points
    <2> QED
      BY <1>7, <2>1 DEF PostLedger, LeftAlone, IInv, TypeOK
  <1>8. ASSUME NEW p \in Clients, Raise(p) \/ Crash(p) PROVE LeftAlone(k)
    BY <1>8 DEF Raise, Crash, LeftAlone
  <1>9. ASSUME NEW p \in Clients, NEW j \in Keys, SubmitDuplicate(p, j)
        PROVE  LeftAlone(k)
    BY <1>9 DEF SubmitDuplicate, vars, LeftAlone
  <1>10. CASE UNCHANGED vars
    BY <1>10 DEF vars, LeftAlone
  <1> QED
    BY <1>2, <1>3, <1>4, <1>6, <1>7, <1>8, <1>9, <1>10 DEF Next, Step

\* Nothing resumes a trade whose call tree is gone: no retry, no other client.
THEOREM NeverResumed == Spec => AbandonedIsFinal
  <1>1. IInv /\ [Next]_vars => \A k \in Keys : Abandoned(k) => LeftAlone(k)
    BY OnlyOwnTrade
  <1>2. Spec => []IInv
    BY Invariance
  <1> QED
    BY <1>1, <1>2, PTL DEF Spec, AbandonedIsFinal
=============================================================================
