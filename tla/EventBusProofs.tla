--------------------------- MODULE EventBusProofs ---------------------------
(***************************************************************************)
(* EventBus implements TradePipeline, for every set of clients and trades  *)
(* and whatever faults are injected: the nested dispatch loops over the    *)
(* subscriptions of build_system() run the transactions in the order the   *)
(* tables Returns and Raises give, and resume where those say.             *)
(*                                                                         *)
(* An event is published by one handler at one transaction, so its frame's *)
(* event says what the whole stack below it is: a stack is known by its    *)
(* top frame, and each step is a case of a finite table.                   *)
(***************************************************************************)
EXTENDS EventBus, TLAPS

-----------------------------------------------------------------------------
\* The stacks a client can have.

Events == DOMAIN Subscribers

\* A frame is in its loop, at a transaction of a handler or after its last
\* one, or done with its loop.
Frames ==
    {f \in [event : Events, h : Nat, i : Nat] :
        \/ InLoop(f) /\ f.h # 0 /\ f.i \in 1 .. Len(Handler(f)) + 1
        \/ f.h = Len(Subscribers[f.event]) + 1 /\ f.i = 1}

Frame(e, h, i) == [event |-> e, h |-> h, i |-> i]

\* The frame that runs each transaction.
FrameAt ==
    [ingest          |-> Frame("TradeCreated", 1, 1),
     post_trade      |-> Frame("TradeCreated", 2, 1),
     net             |-> Frame("BasketRequested", 1, 1),
     create          |-> Frame("NettingExecuted", 1, 1),
     pub_pending     |-> Frame("NettingExecuted", 1, 2),
     approve         |-> Frame("NettingExecuted", 1, 3),
     pub_approved    |-> Frame("NettingExecuted", 1, 4),
     sign            |-> Frame("NettingExecuted", 1, 5),
     pub_signed      |-> Frame("NettingExecuted", 1, 6),
     broadcast       |-> Frame("NettingExecuted", 1, 7),
     pub_broadcasted |-> Frame("NettingExecuted", 1, 8),
     confirm         |-> Frame("NettingExecuted", 1, 9),
     pub_confirmed   |-> Frame("NettingExecuted", 1, 10),
     post_netting    |-> Frame("NettingExecuted", 2, 1),
     custody         |-> Frame("SettlementConfirmed", 1, 1),
     post_confirmed  |-> Frame("SettlementConfirmed", 2, 1)]

\* The transaction at which each event but the client's own is published.
Publisher ==
    [BasketRequested       |-> "ingest",
     NettingExecuted       |-> "net",
     SettlementPending     |-> "pub_pending",
     SettlementApproved    |-> "pub_approved",
     SettlementSigned      |-> "pub_signed",
     SettlementBroadcasted |-> "pub_broadcasted",
     SettlementConfirmed   |-> "pub_confirmed",
     CustodyUpdated        |-> "custody"]

\* The frames that wait below the frame of each event.
ToBasket == Append(<<>>, FrameAt["ingest"])
ToNetting == Append(ToBasket, FrameAt["net"])
ToConfirmed == Append(ToNetting, FrameAt["pub_confirmed"])

Under ==
    [TradeCreated          |-> <<>>,
     BasketRequested       |-> ToBasket,
     NettingExecuted       |-> ToNetting,
     SettlementPending     |-> Append(ToNetting, FrameAt["pub_pending"]),
     SettlementApproved    |-> Append(ToNetting, FrameAt["pub_approved"]),
     SettlementSigned      |-> Append(ToNetting, FrameAt["pub_signed"]),
     SettlementBroadcasted |-> Append(ToNetting, FrameAt["pub_broadcasted"]),
     SettlementConfirmed   |-> ToConfirmed,
     CustodyUpdated        |-> Append(ToConfirmed, FrameAt["custody"])]

Stack(f) == Append(Under[f.event], f)

Stacks == {<<>>} \cup {Stack(f) : f \in Frames}

\* What is left below the frame of each event.
Below ==
    [TradeCreated          |-> "idle",
     BasketRequested       |-> "post_trade",
     NettingExecuted       |-> "post_trade",
     SettlementPending     |-> "approve",
     SettlementApproved    |-> "sign",
     SettlementSigned      |-> "broadcast",
     SettlementBroadcasted |-> "confirm",
     SettlementConfirmed   |-> "post_netting",
     CustodyUpdated        |-> "post_confirmed"]

\* The transaction a stack is at, by its top frame alone.
PointAt(f) ==
    IF NextIn(f, f.i) # "idle" THEN NextIn(f, f.i) ELSE Below[f.event]

\* Every stack is one of these, and pc is where it is.
StackInv ==
    /\ stack \in [Clients -> Stacks]
    /\ pc \in [Clients -> P!Points \cup {"idle"}]
    /\ \A p \in Clients : pc[p] = PointOf(stack[p])

-----------------------------------------------------------------------------
\* The loops over the subscriptions, as tables.

LEMMA Loops ==
    /\ \A e \in Events : Len(Subscribers[e]) \in 0 .. 2
    /\ \A e \in Events :
           Len(Subscribers[e]) = 0 <=>
               e \in {"SettlementPending", "SettlementApproved", "SettlementSigned",
                      "SettlementBroadcasted", "CustodyUpdated"}
    /\ Len(Subscribers["TradeCreated"]) = 2
    /\ Len(Subscribers["BasketRequested"]) = 1
    /\ Len(Subscribers["NettingExecuted"]) = 2
    /\ Len(Subscribers["SettlementConfirmed"]) = 2
  BY DEF Events, Subscribers

\* A frame is rebuilt from its parts.
LEMMA FrameMoves ==
    ASSUME NEW f \in [event : Events, h : Nat, i : Nat]
    PROVE  /\ f = Frame(f.event, f.h, f.i)
           /\ NextHandler(f) = Frame(f.event, f.h + 1, 1)
           /\ Advanced(f) = Frame(f.event, f.h, f.i + 1)
  BY DEF NextHandler, Advanced, Frame

LEMMA FrameParts ==
    ASSUME NEW e \in Events, NEW h \in Nat, NEW i \in Nat
    PROVE  /\ Frame(e, h, i) \in [event : Events, h : Nat, i : Nat]
           /\ Frame(e, h, i).event = e
           /\ Frame(e, h, i).h = h
           /\ Frame(e, h, i).i = i
           /\ NextHandler(Frame(e, h, i)) = Frame(e, h + 1, 1)
           /\ Advanced(Frame(e, h, i)) = Frame(e, h, i + 1)
           /\ InLoop(Frame(e, h, i)) <=> h <= Len(Subscribers[e])
           /\ Handler(Frame(e, h, i)) = Body(Subscribers[e][h], e)
  <1>1. Frame(e, h, i) \in [event : Events, h : Nat, i : Nat]
    BY DEF Frame
  <1>2. /\ Frame(e, h, i).event = e
        /\ Frame(e, h, i).h = h
        /\ Frame(e, h, i).i = i
    BY DEF Frame
  <1> QED
    BY <1>1, <1>2, FrameMoves DEF InLoop, Handler

\* Where a frame goes next, in terms of its parts.
NextFrom(e, h, i) ==
    IF Len(Subscribers[e]) < h THEN "idle"
    ELSE IF i <= Len(Body(Subscribers[e][h], e)) THEN Body(Subscribers[e][h], e)[i]
    ELSE IF Len(Subscribers[e]) <= h THEN "idle"
    ELSE Body(Subscribers[e][h + 1], e)[1]

LEMMA NextByParts ==
    ASSUME NEW e \in Events, NEW h \in Nat, NEW i \in Nat, NEW j \in Nat
    PROVE  NextIn(Frame(e, h, i), j) = NextFrom(e, h, j)
  <1>1. Len(Subscribers[e]) \in Nat
    BY Loops
  <1>2. NextHandler(Frame(e, h, i)) = Frame(e, h + 1, 1)
    BY FrameParts
  <1>3. /\ InLoop(Frame(e, h, i)) <=> ~(Len(Subscribers[e]) < h)
        /\ Handler(Frame(e, h, i)) = Body(Subscribers[e][h], e)
    <2>1. /\ InLoop(Frame(e, h, i)) <=> h <= Len(Subscribers[e])
          /\ Handler(Frame(e, h, i)) = Body(Subscribers[e][h], e)
      BY FrameParts, Zenon
    <2> QED
      BY <1>1, <2>1
  <1>4. /\ ~InLoop(Frame(e, h + 1, 1)) <=> Len(Subscribers[e]) <= h
        /\ Handler(Frame(e, h + 1, 1)) = Body(Subscribers[e][h + 1], e)
    <2>1. h + 1 \in Nat /\ 1 \in Nat
      OBVIOUS
    <2>2. /\ InLoop(Frame(e, h + 1, 1)) <=> h + 1 <= Len(Subscribers[e])
          /\ Handler(Frame(e, h + 1, 1)) = Body(Subscribers[e][h + 1], e)
      BY <2>1, FrameParts, Zenon
    <2> QED
      BY <1>1, <2>2
  <1> QED
    BY <1>2, <1>3, <1>4 DEF NextIn, NextFrom

\* The transactions of each handler of each loop.
Settlement == Transactions["settlement"]

LEMMA Bodies ==
    /\ Body(Subscribers["TradeCreated"][1], "TradeCreated") = <<"ingest">>
    /\ Body(Subscribers["TradeCreated"][2], "TradeCreated") = <<"post_trade">>
    /\ Body(Subscribers["BasketRequested"][1], "BasketRequested") = <<"net">>
    /\ Body(Subscribers["NettingExecuted"][1], "NettingExecuted") = Settlement
    /\ Body(Subscribers["NettingExecuted"][2], "NettingExecuted") = <<"post_netting">>
    /\ Body(Subscribers["SettlementConfirmed"][1], "SettlementConfirmed") = <<"custody">>
    /\ Body(Subscribers["SettlementConfirmed"][2], "SettlementConfirmed") =
           <<"post_confirmed">>
  BY DEF Subscribers, Body, Transactions, Posting, Settlement

\* Where a frame of each loop goes next.
LEMMA NextTable ==
    ASSUME NEW j \in Nat \ {0}
    PROVE
    /\ NextFrom("TradeCreated", 1, j) = IF j = 1 THEN "ingest" ELSE "post_trade"
    /\ NextFrom("TradeCreated", 2, j) = IF j = 1 THEN "post_trade" ELSE "idle"
    /\ NextFrom("BasketRequested", 1, j) = IF j = 1 THEN "net" ELSE "idle"
    /\ NextFrom("NettingExecuted", 1, j) =
           IF j <= 10 THEN Settlement[j] ELSE "post_netting"
    /\ NextFrom("NettingExecuted", 2, j) = IF j = 1 THEN "post_netting" ELSE "idle"
    /\ NextFrom("SettlementConfirmed", 1, j) =
           IF j = 1 THEN "custody" ELSE "post_confirmed"
    /\ NextFrom("SettlementConfirmed", 2, j) =
           IF j = 1 THEN "post_confirmed" ELSE "idle"
  <1>1. NextFrom("TradeCreated", 1, j) = IF j = 1 THEN "ingest" ELSE "post_trade"
    BY Loops, Bodies DEF NextFrom
  <1>2. NextFrom("TradeCreated", 2, j) = IF j = 1 THEN "post_trade" ELSE "idle"
    BY Loops, Bodies DEF NextFrom
  <1>3. NextFrom("BasketRequested", 1, j) = IF j = 1 THEN "net" ELSE "idle"
    BY Loops, Bodies DEF NextFrom
  <1>4. NextFrom("NettingExecuted", 1, j) =
           IF j <= 10 THEN Settlement[j] ELSE "post_netting"
    <2>1. Len(Settlement) = 10
      BY DEF Settlement, Transactions
    <2>2. /\ Body(Subscribers["NettingExecuted"][1], "NettingExecuted") = Settlement
          /\ Body(Subscribers["NettingExecuted"][2], "NettingExecuted")[1] = "post_netting"
      BY Bodies
    <2>3. Len(Subscribers["NettingExecuted"]) = 2
      BY Loops
    <2>4. NextFrom("NettingExecuted", 1, j) =
             IF j <= Len(Body(Subscribers["NettingExecuted"][1], "NettingExecuted"))
             THEN Body(Subscribers["NettingExecuted"][1], "NettingExecuted")[j]
             ELSE Body(Subscribers["NettingExecuted"][2], "NettingExecuted")[1]
      BY <2>3 DEF NextFrom
    <2> QED
      BY <2>1, <2>2, <2>4, Zenon
  <1>5. NextFrom("NettingExecuted", 2, j) = IF j = 1 THEN "post_netting" ELSE "idle"
    BY Loops, Bodies DEF NextFrom
  <1>6. NextFrom("SettlementConfirmed", 1, j) =
           IF j = 1 THEN "custody" ELSE "post_confirmed"
    BY Loops, Bodies DEF NextFrom
  <1>7. NextFrom("SettlementConfirmed", 2, j) =
           IF j = 1 THEN "post_confirmed" ELSE "idle"
    BY Loops, Bodies DEF NextFrom
  <1> QED
    BY <1>1, <1>2, <1>3, <1>4, <1>5, <1>6, <1>7

LEMMA NextDone ==
    ASSUME NEW e \in Events, NEW j
    PROVE  NextFrom(e, Len(Subscribers[e]) + 1, j) = "idle"
  <1>1. Len(Subscribers[e]) \in Nat
    BY Loops
  <1> QED
    BY <1>1 DEF NextFrom

-----------------------------------------------------------------------------
\* The moves of a frame.

LEMMA FrameType ==
    ASSUME NEW f \in Frames
    PROVE  /\ f \in [event : Events, h : Nat, i : Nat]
           /\ f.event \in Events /\ f.h \in Nat \ {0} /\ f.i \in Nat \ {0}
           /\ f = Frame(f.event, f.h, f.i)
           /\ f.h \in 1 .. Len(Subscribers[f.event]) + 1
           /\ ~InLoop(f) => f.h = Len(Subscribers[f.event]) + 1 /\ f.i = 1
           /\ InLoop(f) => f.i \in 1 .. Len(Handler(f)) + 1
  <1>1. f \in [event : Events, h : Nat, i : Nat]
    BY DEF Frames
  <1>2. f.event \in Events /\ f.h \in Nat /\ f.i \in Nat
    BY <1>1
  <1>3. Len(Subscribers[f.event]) \in Nat
    BY <1>2, Loops
  <1>4. f = Frame(f.event, f.h, f.i)
    BY <1>1, FrameMoves
  <1>5. \/ InLoop(f) /\ f.h # 0 /\ f.i \in 1 .. Len(Handler(f)) + 1
        \/ f.h = Len(Subscribers[f.event]) + 1 /\ f.i = 1
    BY DEF Frames
  <1>6. InLoop(f) <=> f.h <= Len(Subscribers[f.event])
    BY DEF InLoop
  <1>7. f.h # 0 /\ f.i # 0
    BY <1>2, <1>3, <1>5
  <1>8. f.h \in 1 .. Len(Subscribers[f.event]) + 1
    BY <1>2, <1>3, <1>5, <1>6
  <1>9. ~InLoop(f) => f.h = Len(Subscribers[f.event]) + 1 /\ f.i = 1
    BY <1>5
  <1>10. InLoop(f) => f.i \in 1 .. Len(Handler(f)) + 1
    BY <1>2, <1>3, <1>5, <1>6
  <1> QED
    BY <1>1, <1>2, <1>4, <1>7, <1>8, <1>9, <1>10

LEMMA BodyType ==
    ASSUME NEW e \in Events, NEW h \in 1 .. Len(Subscribers[e])
    PROVE  Len(Body(Subscribers[e][h], e)) \in 1 .. 10
  <1>1. e \in {"TradeCreated", "BasketRequested", "NettingExecuted",
               "SettlementConfirmed"}
    BY Loops DEF Events, Subscribers
  <1>2. CASE e = "TradeCreated"
    BY <1>2, Loops, Bodies
  <1>3. CASE e = "BasketRequested"
    BY <1>3, Loops, Bodies
  <1>4. CASE e = "NettingExecuted"
    <2>1. Len(Settlement) = 10
      BY DEF Settlement, Transactions
    <2>2. h = 1 \/ h = 2
      BY <1>4, Loops
    <2> QED
      BY <1>4, <2>1, <2>2, Bodies
  <1>5. CASE e = "SettlementConfirmed"
    BY <1>5, Loops, Bodies
  <1> QED
    BY <1>1, <1>2, <1>3, <1>4, <1>5

\* The loop takes the next handler.
LEMMA NextHandlerMoves ==
    ASSUME NEW f \in Frames, InLoop(f)
    PROVE  /\ NextHandler(f) \in Frames
           /\ NextHandler(f) = Frame(f.event, f.h + 1, 1)
  <1>1. /\ f.event \in Events /\ f.h \in Nat
        /\ f.h <= Len(Subscribers[f.event])
        /\ Len(Subscribers[f.event]) \in Nat
    BY FrameType, Loops DEF InLoop
  <1> DEFINE e == f.event
             g == Frame(e, f.h + 1, 1)
  <1>2. NextHandler(f) = g
    BY FrameType, FrameMoves
  <1>3. f.h + 1 \in Nat /\ 1 \in Nat /\ e \in Events
    BY <1>1
  <1>4. /\ g \in [event : Events, h : Nat, i : Nat]
        /\ g.event = e /\ g.h = f.h + 1 /\ g.i = 1
        /\ InLoop(g) <=> f.h + 1 <= Len(Subscribers[e])
        /\ Handler(g) = Body(Subscribers[e][f.h + 1], e)
    <2>1. /\ g \in [event : Events, h : Nat, i : Nat]
          /\ g.event = e /\ g.h = f.h + 1 /\ g.i = 1
      BY <1>3 DEF Frame
    <2> QED
      BY <2>1 DEF InLoop, Handler
  <1> HIDE DEF e, g
  <1>5. CASE InLoop(g)
    <2>1. f.h + 1 \in 1 .. Len(Subscribers[e])
      BY <1>1, <1>4, <1>5 DEF e
    <2>2. Len(Handler(g)) \in 1 .. 10
      BY <1>1, <1>4, <2>1, BodyType DEF e
    <2>3. g.i \in 1 .. Len(Handler(g)) + 1 /\ g.h # 0
      BY <1>1, <1>4, <2>2
    <2> QED
      BY <1>2, <1>4, <1>5, <2>3 DEF Frames, g, e
  <1>6. CASE ~InLoop(g)
    <2>1. g.h = Len(Subscribers[g.event]) + 1
      BY <1>1, <1>4, <1>6 DEF e
    <2> QED
      BY <1>2, <1>4, <2>1 DEF Frames, g, e
  <1> QED
    BY <1>5, <1>6

\* The handler goes on.
LEMMA AdvancedMoves ==
    ASSUME NEW f \in Frames, InHandler(f)
    PROVE  /\ Advanced(f) \in Frames
           /\ Advanced(f) = Frame(f.event, f.h, f.i + 1)
  <1>1. /\ f.event \in Events /\ f.h \in Nat \ {0} /\ f.i \in Nat \ {0}
        /\ f.h <= Len(Subscribers[f.event])
        /\ Len(Subscribers[f.event]) \in Nat
    BY FrameType, Loops DEF InLoop, InHandler
  <1> DEFINE e == f.event
             g == Frame(e, f.h, f.i + 1)
  <1>2. Advanced(f) = g
    BY FrameType, FrameMoves
  <1>3. f.i + 1 \in Nat /\ f.h \in Nat /\ e \in Events
    BY <1>1
  <1>4. /\ g \in [event : Events, h : Nat, i : Nat]
        /\ g.event = e /\ g.h = f.h /\ g.i = f.i + 1
        /\ InLoop(g) <=> f.h <= Len(Subscribers[e])
        /\ Handler(g) = Body(Subscribers[e][f.h], e)
    <2>1. /\ g \in [event : Events, h : Nat, i : Nat]
          /\ g.event = e /\ g.h = f.h /\ g.i = f.i + 1
      BY <1>3 DEF Frame
    <2> QED
      BY <2>1 DEF InLoop, Handler
  <1>5. Handler(f) = Body(Subscribers[e][f.h], e)
    BY DEF Handler
  <1> HIDE DEF e, g
  <1>6. f.i <= Len(Handler(f))
    BY DEF InHandler
  <1>7. Len(Handler(g)) \in 1 .. 10
    BY <1>1, <1>4, BodyType DEF e
  <1>8. g.i \in 1 .. Len(Handler(g)) + 1 /\ g.h # 0
    BY <1>1, <1>4, <1>5, <1>6, <1>7
  <1> QED
    BY <1>1, <1>2, <1>4, <1>8 DEF Frames, g, e

\* publish() enters the loop of its event.
LEMMA PublishingMoves ==
    ASSUME NEW e \in Events
    PROVE  Publishing(e) \in Frames /\ Publishing(e) = Frame(e, 1, 1)
  <1>1. Len(Subscribers[e]) \in Nat
    BY Loops
  <1>2. Publishing(e) = Frame(e, 1, 1)
    BY DEF Publishing, Frame
  <1> DEFINE g == Frame(e, 1, 1)
  <1>3. /\ g \in [event : Events, h : Nat, i : Nat]
        /\ g.event = e /\ g.h = 1 /\ g.i = 1
        /\ InLoop(g) <=> 1 <= Len(Subscribers[e])
        /\ Handler(g) = Body(Subscribers[e][1], e)
    BY FrameParts
  <1> HIDE DEF g
  <1>4. CASE InLoop(g)
    <2>1. Len(Handler(g)) \in 1 .. 10
      BY <1>1, <1>3, <1>4, BodyType
    <2> QED
      BY <1>2, <1>3, <1>4, <2>1 DEF Frames, g
  <1>5. CASE ~InLoop(g)
    BY <1>1, <1>2, <1>3, <1>5 DEF Frames, g
  <1> QED
    BY <1>4, <1>5

-----------------------------------------------------------------------------
\* The transaction each stack is at, and the one each move takes it to.

\* PointAt in terms of a frame's parts.
PointFrom(e, h, i) ==
    IF NextFrom(e, h, i) # "idle" THEN NextFrom(e, h, i) ELSE Below[e]

LEMMA PointByParts ==
    ASSUME NEW e \in Events, NEW h \in Nat, NEW i \in Nat
    PROVE  PointAt(Frame(e, h, i)) = PointFrom(e, h, i)
  <1>1. Frame(e, h, i).event = e /\ Frame(e, h, i).i = i
    BY FrameParts
  <1>2. NextIn(Frame(e, h, i), i) = NextFrom(e, h, i)
    BY NextByParts
  <1> QED
    BY <1>1, <1>2 DEF PointAt, PointFrom

LEMMA SettlementTable ==
    /\ \A j \in 1 .. 10 : Settlement[j] # "idle"
    /\ Settlement[1] = "create"
    /\ Settlement[2] = "pub_pending"
    /\ Settlement[3] = "approve"
    /\ Settlement[4] = "pub_approved"
    /\ Settlement[5] = "sign"
    /\ Settlement[6] = "pub_signed"
    /\ Settlement[7] = "broadcast"
    /\ Settlement[8] = "pub_broadcasted"
    /\ Settlement[9] = "confirm"
    /\ Settlement[10] = "pub_confirmed"
  BY DEF Settlement, Transactions

LEMMA PointTable ==
    ASSUME NEW j \in Nat \ {0}
    PROVE
    /\ PointFrom("TradeCreated", 1, j) = IF j = 1 THEN "ingest" ELSE "post_trade"
    /\ PointFrom("TradeCreated", 2, j) = IF j = 1 THEN "post_trade" ELSE "idle"
    /\ PointFrom("BasketRequested", 1, j) = IF j = 1 THEN "net" ELSE "post_trade"
    /\ PointFrom("NettingExecuted", 1, j) =
           IF j <= 10 THEN Settlement[j] ELSE "post_netting"
    /\ PointFrom("NettingExecuted", 2, j) =
           IF j = 1 THEN "post_netting" ELSE "post_trade"
    /\ PointFrom("SettlementConfirmed", 1, j) =
           IF j = 1 THEN "custody" ELSE "post_confirmed"
    /\ PointFrom("SettlementConfirmed", 2, j) =
           IF j = 1 THEN "post_confirmed" ELSE "post_netting"
  <1>1. j <= 10 => j \in 1 .. 10
    OBVIOUS
  <1>2. PointFrom("NettingExecuted", 1, j) =
           IF j <= 10 THEN Settlement[j] ELSE "post_netting"
    BY <1>1, NextTable, SettlementTable DEF PointFrom
  <1> QED
    BY <1>2, NextTable DEF PointFrom, Below

\* A loop that is done leaves what is below its frame.
LEMMA PointDone ==
    ASSUME NEW e \in Events, NEW j
    PROVE  PointFrom(e, Len(Subscribers[e]) + 1, j) = Below[e]
  BY NextDone DEF PointFrom

LEMMA DoneTable ==
    ASSUME NEW j
    PROVE  /\ PointFrom("TradeCreated", 3, j) = "idle"
           /\ PointFrom("BasketRequested", 2, j) = "post_trade"
           /\ PointFrom("NettingExecuted", 3, j) = "post_trade"
           /\ PointFrom("SettlementConfirmed", 3, j) = "post_netting"
           /\ PointFrom("SettlementPending", 1, j) = "approve"
           /\ PointFrom("SettlementApproved", 1, j) = "sign"
           /\ PointFrom("SettlementSigned", 1, j) = "broadcast"
           /\ PointFrom("SettlementBroadcasted", 1, j) = "confirm"
           /\ PointFrom("CustodyUpdated", 1, j) = "post_confirmed"
  <1>1. ASSUME NEW e \in Events, NEW n, Len(Subscribers[e]) + 1 = n
        PROVE  PointFrom(e, n, j) = Below[e]
    BY <1>1, PointDone
  <1>2. \A e \in Events :
            e \in {"SettlementPending", "SettlementApproved", "SettlementSigned",
                   "SettlementBroadcasted", "CustodyUpdated"}
            => PointFrom(e, 1, j) = Below[e]
    <2> TAKE e \in Events
    <2> HAVE e \in {"SettlementPending", "SettlementApproved", "SettlementSigned",
                    "SettlementBroadcasted", "CustodyUpdated"}
    <2>1. Len(Subscribers[e]) + 1 = 1
      BY Loops
    <2> QED
      BY <1>1, <2>1, Zenon
  <1>3. PointFrom("BasketRequested", 2, j) = Below["BasketRequested"]
    <2>1. Len(Subscribers["BasketRequested"]) + 1 = 2 /\ "BasketRequested" \in Events
      BY Loops DEF Events, Subscribers
    <2> QED
      BY <1>1, <2>1, Zenon
  <1>4. /\ PointFrom("TradeCreated", 3, j) = Below["TradeCreated"]
        /\ PointFrom("NettingExecuted", 3, j) = Below["NettingExecuted"]
        /\ PointFrom("SettlementConfirmed", 3, j) = Below["SettlementConfirmed"]
    <2>1. /\ Len(Subscribers["TradeCreated"]) + 1 = 3
          /\ Len(Subscribers["NettingExecuted"]) + 1 = 3
          /\ Len(Subscribers["SettlementConfirmed"]) + 1 = 3
          /\ {"TradeCreated", "NettingExecuted", "SettlementConfirmed"} \subseteq Events
      BY Loops DEF Events, Subscribers
    <2>2. /\ "TradeCreated" \in Events /\ "NettingExecuted" \in Events
          /\ "SettlementConfirmed" \in Events
      BY <2>1
    <2> QED
      BY <1>1, <2>1, <2>2, Zenon
  <1>5. /\ "SettlementPending" \in Events /\ "SettlementApproved" \in Events
        /\ "SettlementSigned" \in Events /\ "SettlementBroadcasted" \in Events
        /\ "CustodyUpdated" \in Events
    BY DEF Events, Subscribers
  <1> QED
    BY <1>2, <1>3, <1>4, <1>5 DEF Below

LEMMA SettlementFrames ==
    ASSUME NEW j \in 1 .. 10
    PROVE  /\ Settlement[j] \in P!Points
           /\ FrameAt[Settlement[j]] = Frame("NettingExecuted", 1, j)
  <1>1. \/ j = 1 \/ j = 2 \/ j = 3 \/ j = 4 \/ j = 5
        \/ j = 6 \/ j = 7 \/ j = 8 \/ j = 9 \/ j = 10
    OBVIOUS
  <1>2. Settlement[j] \in P!Points
    BY <1>1, SettlementTable, Zenon DEF P!Points, P!Publishes, P!Writes
  <1>3. FrameAt[Settlement[j]] = Frame("NettingExecuted", 1, j)
    BY <1>1, SettlementTable DEF FrameAt
  <1> QED
    BY <1>2, <1>3

\* Each frame in a handler is that of the transaction it runs.
LEMMA RunningAt ==
    ASSUME NEW f \in Frames, InHandler(f)
    PROVE  /\ Handler(f)[f.i] \in P!Points
           /\ f = FrameAt[Handler(f)[f.i]]
  <1> DEFINE e == f.event
  <1>1. /\ f = Frame(e, f.h, f.i)
        /\ e \in Events
        /\ f.h \in 1 .. Len(Subscribers[e])
        /\ Handler(f) = Body(Subscribers[e][f.h], e)
        /\ f.i \in 1 .. Len(Handler(f))
    BY FrameType, Loops DEF InHandler, InLoop, Handler
  <1> HIDE DEF e
  <1>2. e \in {"TradeCreated", "BasketRequested", "NettingExecuted",
               "SettlementConfirmed"}
    BY <1>1, Loops DEF Events, Subscribers
  <1>3. CASE e = "TradeCreated"
    BY <1>1, <1>3, Loops, Bodies DEF FrameAt, P!Points, P!Publishes, P!Posts
  <1>4. CASE e = "BasketRequested"
    BY <1>1, <1>4, Loops, Bodies DEF FrameAt, P!Points, P!Publishes
  <1>5. CASE e = "NettingExecuted" /\ f.h = 1
    <2>1. Handler(f) = Settlement
      BY <1>1, <1>5, Bodies
    <2>2. f.i \in 1 .. 10
      BY <1>1, <2>1 DEF Settlement, Transactions
    <2> QED
      BY <1>1, <1>5, <2>1, <2>2, SettlementFrames
  <1>6. CASE e = "NettingExecuted" /\ f.h # 1
    BY <1>1, <1>6, Loops, Bodies DEF FrameAt, P!Points, P!Posts
  <1>7. CASE e = "SettlementConfirmed"
    BY <1>1, <1>7, Loops, Bodies DEF FrameAt, P!Points, P!Publishes, P!Posts
  <1> QED
    BY <1>2, <1>3, <1>4, <1>5, <1>6, <1>7

LEMMA PointNames ==
    P!Points = {"ingest", "post_trade", "net", "create", "pub_pending", "approve",
                "pub_approved", "sign", "pub_signed", "broadcast",
                "pub_broadcasted", "confirm", "pub_confirmed", "post_netting",
                "custody", "post_confirmed"}
  BY DEF P!Points, P!Publishes, P!Writes, P!Posts

\* The parts of the frame that runs each transaction.
LEMMA FrameTable ==
    ASSUME NEW pt \in P!Points
    PROVE  \/ pt = "ingest" /\ FrameAt[pt] = Frame("TradeCreated", 1, 1)
           \/ pt = "post_trade" /\ FrameAt[pt] = Frame("TradeCreated", 2, 1)
           \/ pt = "net" /\ FrameAt[pt] = Frame("BasketRequested", 1, 1)
           \/ \E j \in 1 .. 10 :
                  pt = Settlement[j] /\ FrameAt[pt] = Frame("NettingExecuted", 1, j)
           \/ pt = "post_netting" /\ FrameAt[pt] = Frame("NettingExecuted", 2, 1)
           \/ pt = "custody" /\ FrameAt[pt] = Frame("SettlementConfirmed", 1, 1)
           \/ pt = "post_confirmed" /\ FrameAt[pt] = Frame("SettlementConfirmed", 2, 1)
  <1>1. CASE pt \in {"ingest", "post_trade", "net", "post_netting", "custody",
                     "post_confirmed"}
    BY <1>1 DEF FrameAt
  <1>2. CASE pt \notin {"ingest", "post_trade", "net", "post_netting", "custody",
                        "post_confirmed"}
    <2>1. \E j \in 1 .. 10 :
              pt = Settlement[j] /\ FrameAt[pt] = Frame("NettingExecuted", 1, j)
      BY <1>2, PointNames, SettlementTable DEF FrameAt
    <2> QED
      BY <2>1
  <1> QED
    BY <1>1, <1>2

LEMMA FrameRuns ==
    ASSUME NEW e \in Events, NEW h \in Nat \ {0}, NEW i \in Nat \ {0},
           h <= Len(Subscribers[e]), i <= Len(Body(Subscribers[e][h], e))
    PROVE  Frame(e, h, i) \in Frames /\ InHandler(Frame(e, h, i))
  <1>1. h \in 1 .. Len(Subscribers[e])
    BY Loops
  <1>2. Len(Body(Subscribers[e][h], e)) \in 1 .. 10
    BY <1>1, BodyType
  <1> DEFINE g == Frame(e, h, i)
  <1>3. /\ g \in [event : Events, h : Nat, i : Nat]
        /\ g.event = e /\ g.h = h /\ g.i = i
    BY DEF Frame
  <1>4. InLoop(g) /\ Handler(g) = Body(Subscribers[e][h], e)
    BY <1>3 DEF InLoop, Handler
  <1> HIDE DEF g
  <1>5. i \in 1 .. Len(Handler(g)) + 1 /\ h # 0
    BY <1>2, <1>4
  <1> QED
    BY <1>3, <1>4, <1>5 DEF Frames, InHandler, g

LEMMA FrameAtRuns ==
    ASSUME NEW pt \in P!Points
    PROVE  FrameAt[pt] \in Frames /\ InHandler(FrameAt[pt])
  <1>1. /\ "TradeCreated" \in Events /\ "BasketRequested" \in Events
        /\ "NettingExecuted" \in Events /\ "SettlementConfirmed" \in Events
    BY DEF Events, Subscribers
  <1>2. Len(Settlement) = 10
    BY DEF Settlement, Transactions
  <1>3. CASE \E j \in 1 .. 10 :
                 pt = Settlement[j] /\ FrameAt[pt] = Frame("NettingExecuted", 1, j)
    <2>1. PICK j \in 1 .. 10 : FrameAt[pt] = Frame("NettingExecuted", 1, j)
      BY <1>3
    <2>2. /\ j <= Len(Body(Subscribers["NettingExecuted"][1], "NettingExecuted"))
          /\ 1 <= Len(Subscribers["NettingExecuted"])
          /\ j \in Nat \ {0} /\ 1 \in Nat \ {0}
      <3>1. Body(Subscribers["NettingExecuted"][1], "NettingExecuted") = Settlement
        BY Bodies
      <3>2. Len(Subscribers["NettingExecuted"]) = 2
        BY Loops
      <3>3. j \in Nat \ {0} /\ j <= 10
        OBVIOUS
      <3>4. j <= Len(Body(Subscribers["NettingExecuted"][1], "NettingExecuted"))
        BY <1>2, <3>1, <3>3, Zenon
      <3> QED
        BY <3>2, <3>3, <3>4
    <2>3. Frame("NettingExecuted", 1, j) \in Frames
          /\ InHandler(Frame("NettingExecuted", 1, j))
      BY <1>1, <2>2, FrameRuns, Zenon
    <2> QED
      BY <2>1, <2>3
  <1>4. ASSUME NEW e \in Events, NEW h \in {1, 2},
               h <= Len(Subscribers[e]), Len(Body(Subscribers[e][h], e)) = 1
        PROVE  Frame(e, h, 1) \in Frames /\ InHandler(Frame(e, h, 1))
    <2>1. /\ 1 <= Len(Body(Subscribers[e][h], e))
          /\ h \in Nat \ {0} /\ 1 \in Nat \ {0}
      BY <1>4
    <2> QED
      BY <1>4, <2>1, FrameRuns, Zenon
  <1> QED
    BY <1>1, <1>3, <1>4, Loops, Bodies, FrameTable

\* An exception takes a stack where the table says.
LEMMA RaisesTable ==
    ASSUME NEW pt \in P!Points
    PROVE  PointFrom(FrameAt[pt].event, FrameAt[pt].h + 1, 1) = P!Raises[pt]
  <1>1. CASE \E j \in 1 .. 10 :
                 pt = Settlement[j] /\ FrameAt[pt] = Frame("NettingExecuted", 1, j)
    <2>1. PointFrom("NettingExecuted", 2, 1) = "post_netting"
      BY PointTable
    <2>2. \A j \in 1 .. 10 : P!Raises[Settlement[j]] = "post_netting"
      BY SettlementTable DEF P!Raises
    <2> QED
      BY <1>1, <2>1, <2>2 DEF Frame
  <1>2. CASE pt = "ingest" /\ FrameAt[pt] = Frame("TradeCreated", 1, 1)
    BY <1>2, PointTable DEF Frame, P!Raises
  <1>3. CASE pt = "post_trade" /\ FrameAt[pt] = Frame("TradeCreated", 2, 1)
    BY <1>3, DoneTable DEF Frame, P!Raises
  <1>4. CASE pt = "net" /\ FrameAt[pt] = Frame("BasketRequested", 1, 1)
    BY <1>4, DoneTable DEF Frame, P!Raises
  <1>5. CASE pt = "post_netting" /\ FrameAt[pt] = Frame("NettingExecuted", 2, 1)
    BY <1>5, DoneTable DEF Frame, P!Raises
  <1>6. CASE pt = "custody" /\ FrameAt[pt] = Frame("SettlementConfirmed", 1, 1)
    BY <1>6, PointTable DEF Frame, P!Raises
  <1>7. CASE pt = "post_confirmed" /\ FrameAt[pt] = Frame("SettlementConfirmed", 2, 1)
    BY <1>7, DoneTable DEF Frame, P!Raises
  <1> QED
    BY <1>1, <1>2, <1>3, <1>4, <1>5, <1>6, <1>7, FrameTable

\* A transaction that publishes nothing returns where the table says.
LEMMA ReturnsTable ==
    ASSUME NEW pt \in P!Points, pt \notin DOMAIN P!Publishes
    PROVE  PointFrom(FrameAt[pt].event, FrameAt[pt].h, FrameAt[pt].i + 1) = P!Returns[pt]
  <1>1. pt \in {"create", "approve", "sign", "broadcast", "confirm",
                "post_confirmed", "post_netting", "post_trade"}
    BY PointNames DEF P!Publishes
  <1>2. CASE pt \in {"create", "approve", "sign", "broadcast", "confirm"}
    <2>1. /\ PointFrom("NettingExecuted", 1, 2) = "pub_pending"
          /\ PointFrom("NettingExecuted", 1, 4) = "pub_approved"
          /\ PointFrom("NettingExecuted", 1, 6) = "pub_signed"
          /\ PointFrom("NettingExecuted", 1, 8) = "pub_broadcasted"
          /\ PointFrom("NettingExecuted", 1, 10) = "pub_confirmed"
      BY PointTable, SettlementTable
    <2> QED
      BY <1>2, <2>1 DEF FrameAt, Frame, P!Returns
  <1>3. CASE pt \in {"post_confirmed", "post_netting", "post_trade"}
    <2>1. /\ PointFrom("SettlementConfirmed", 2, 2) = "post_netting"
          /\ PointFrom("NettingExecuted", 2, 2) = "post_trade"
          /\ PointFrom("TradeCreated", 2, 2) = "idle"
      BY PointTable
    <2> QED
      BY <1>3, <2>1 DEF FrameAt, Frame, P!Returns
  <1> QED
    BY <1>1, <1>2, <1>3

\* One that publishes goes on in the loop of the event it publishes, or from
\* itself if no handler is subscribed to that.
LEMMA PublishesTable ==
    ASSUME NEW pt \in DOMAIN P!Publishes
    PROVE  /\ P!Publishes[pt] \in Events
           /\ Under[P!Publishes[pt]] = Append(Under[FrameAt[pt].event], FrameAt[pt])
           /\ PointFrom(P!Publishes[pt], 1, 1) = P!Returns[pt]
  <1>1. P!Publishes[pt] \in Events
    BY DEF Events, Subscribers, P!Publishes
  <1>2. Under[P!Publishes[pt]] = Append(Under[FrameAt[pt].event], FrameAt[pt])
    <2>1. /\ Under[P!Publishes["ingest"]] = Append(Under["TradeCreated"], FrameAt["ingest"])
          /\ Under[P!Publishes["net"]] = Append(Under["BasketRequested"], FrameAt["net"])
          /\ Under[P!Publishes["custody"]] =
                 Append(Under["SettlementConfirmed"], FrameAt["custody"])
      BY DEF Under, ToBasket, ToNetting, P!Publishes
    <2>2. /\ FrameAt["ingest"].event = "TradeCreated"
          /\ FrameAt["net"].event = "BasketRequested"
          /\ FrameAt["custody"].event = "SettlementConfirmed"
          /\ FrameAt["pub_pending"].event = "NettingExecuted"
          /\ FrameAt["pub_approved"].event = "NettingExecuted"
          /\ FrameAt["pub_signed"].event = "NettingExecuted"
          /\ FrameAt["pub_broadcasted"].event = "NettingExecuted"
          /\ FrameAt["pub_confirmed"].event = "NettingExecuted"
      BY DEF FrameAt, Frame
    <2>3. /\ Under[P!Publishes["pub_pending"]] =
                 Append(Under["NettingExecuted"], FrameAt["pub_pending"])
          /\ Under[P!Publishes["pub_approved"]] =
                 Append(Under["NettingExecuted"], FrameAt["pub_approved"])
          /\ Under[P!Publishes["pub_signed"]] =
                 Append(Under["NettingExecuted"], FrameAt["pub_signed"])
          /\ Under[P!Publishes["pub_broadcasted"]] =
                 Append(Under["NettingExecuted"], FrameAt["pub_broadcasted"])
          /\ Under[P!Publishes["pub_confirmed"]] =
                 Append(Under["NettingExecuted"], FrameAt["pub_confirmed"])
      BY DEF Under, ToConfirmed, P!Publishes
    <2>4. pt \in {"ingest", "net", "custody", "pub_pending", "pub_approved",
                  "pub_signed", "pub_broadcasted", "pub_confirmed"}
      BY DEF P!Publishes
    <2> QED
      BY <2>1, <2>2, <2>3, <2>4
  <1>3. PointFrom(P!Publishes[pt], 1, 1) = P!Returns[pt]
    <2>1. /\ PointFrom("BasketRequested", 1, 1) = "net"
          /\ PointFrom("NettingExecuted", 1, 1) = "create"
          /\ PointFrom("SettlementConfirmed", 1, 1) = "custody"
      BY PointTable, SettlementTable
    <2> QED
      BY <2>1, DoneTable DEF P!Publishes, P!Returns
  <1> QED
    BY <1>1, <1>2, <1>3

\* What is below the frame of an event: the client's own stands alone, any
\* other above the frame that published it, which goes on from there.
LEMMA BelowTable ==
    ASSUME NEW e \in Events
    PROVE  \/ e = "TradeCreated" /\ Under[e] = <<>> /\ Below[e] = "idle"
           \/ \E g \in Frames :
                  /\ InHandler(g)
                  /\ Under[e] = Append(Under[g.event], g)
                  /\ PointFrom(g.event, g.h, g.i + 1) = Below[e]
                  /\ \/ NextFrom(g.event, g.h, g.i + 1) # "idle"
                     \/ e = "NettingExecuted"
  <1>1. CASE e = "TradeCreated"
    BY <1>1 DEF Under, Below
  <1>2. CASE e # "TradeCreated"
    <2> DEFINE pt == Publisher[e]
               g == FrameAt[pt]
    <2>1. e \in DOMAIN Publisher
      BY <1>2 DEF Events, Subscribers, Publisher
    <2>2. pt \in DOMAIN P!Publishes /\ P!Publishes[pt] = e
      BY <2>1 DEF Publisher, P!Publishes
    <2>3. Under[e] = Append(Under[g.event], g)
      BY <2>2, PublishesTable
    <2>4. g \in Frames /\ InHandler(g)
      BY <2>2, FrameAtRuns DEF P!Points
    <2>5. PointFrom(g.event, g.h, g.i + 1) = Below[e]
      <3>1. /\ PointFrom("TradeCreated", 1, 2) = "post_trade"
            /\ PointFrom("BasketRequested", 1, 2) = "post_trade"
            /\ PointFrom("SettlementConfirmed", 1, 2) = "post_confirmed"
            /\ PointFrom("NettingExecuted", 1, 3) = "approve"
            /\ PointFrom("NettingExecuted", 1, 5) = "sign"
            /\ PointFrom("NettingExecuted", 1, 7) = "broadcast"
            /\ PointFrom("NettingExecuted", 1, 9) = "confirm"
            /\ PointFrom("NettingExecuted", 1, 11) = "post_netting"
        BY PointTable, SettlementTable
      <3>2. e \in {"BasketRequested", "NettingExecuted", "SettlementPending",
                   "SettlementApproved", "SettlementSigned",
                   "SettlementBroadcasted", "SettlementConfirmed", "CustodyUpdated"}
        BY <2>1 DEF Publisher
      <3> QED
        BY <3>1, <3>2 DEF Publisher, FrameAt, Frame, Below
    <2>6. NextFrom(g.event, g.h, g.i + 1) # "idle" \/ e = "NettingExecuted"
      <3>1. Below[e] # Below[g.event] \/ e = "NettingExecuted"
        BY <2>1 DEF Below, Publisher, FrameAt, Frame
      <3> QED
        BY <2>5, <3>1 DEF PointFrom
    <2> QED
      BY <2>3, <2>4, <2>5, <2>6
  <1> QED
    BY <1>1, <1>2

-----------------------------------------------------------------------------
\* Stacks.

LEMMA Topped ==
    ASSUME NEW S, NEW u \in Seq(S), NEW f \in S
    PROVE  /\ Append(u, f) \in Seq(S)
           /\ Append(u, f) # <<>>
           /\ Len(Append(u, f)) = Len(u) + 1
           /\ Last(Append(u, f)) = f
           /\ Front(Append(u, f)) = u
           /\ \A g : SetTop(Append(u, f), g) = Append(u, g)
  <1>1. /\ Append(u, f) \in Seq(S)
        /\ Len(Append(u, f)) = Len(u) + 1
        /\ Append(u, f) # <<>>
    <2>1. Append(u, f) \in Seq(S) /\ Len(u) \in Nat
      OBVIOUS
    <2>2. Len(Append(u, f)) = Len(u) + 1
      OBVIOUS
    <2>3. Len(<<>>) = 0
      OBVIOUS
    <2> QED
      BY <2>1, <2>2, <2>3
  <1>2. Last(Append(u, f)) = f
    BY DEF Last
  <1>3. Front(Append(u, f)) = u
    BY DEF Front
  <1> QED
    BY <1>1, <1>2, <1>3 DEF SetTop

LEMMA UnderType ==
    ASSUME NEW e \in Events
    PROVE  Under[e] \in Seq(Frames)
  <1>1. \A pt \in P!Points : FrameAt[pt] \in Frames
    BY FrameAtRuns
  <1>2. ToBasket \in Seq(Frames)
    BY <1>1, PointNames DEF ToBasket
  <1>3. ToNetting \in Seq(Frames)
    BY <1>1, <1>2, PointNames DEF ToNetting
  <1>4. ToConfirmed \in Seq(Frames)
    BY <1>1, <1>3, PointNames DEF ToConfirmed
  <1>5. \A u \in Seq(Frames) : \A pt \in P!Points :
            Append(u, FrameAt[pt]) \in Seq(Frames)
    BY <1>1
  <1>6. /\ <<>> \in Seq(Frames)
        /\ Append(ToNetting, FrameAt["pub_pending"]) \in Seq(Frames)
        /\ Append(ToNetting, FrameAt["pub_approved"]) \in Seq(Frames)
        /\ Append(ToNetting, FrameAt["pub_signed"]) \in Seq(Frames)
        /\ Append(ToNetting, FrameAt["pub_broadcasted"]) \in Seq(Frames)
        /\ Append(ToConfirmed, FrameAt["custody"]) \in Seq(Frames)
    BY <1>3, <1>4, <1>5, PointNames
  <1>7. Events = {"TradeCreated", "BasketRequested", "NettingExecuted",
                  "SettlementPending", "SettlementApproved", "SettlementSigned",
                  "SettlementBroadcasted", "SettlementConfirmed", "CustodyUpdated"}
    BY DEF Events, Subscribers
  <1>8. /\ Under["TradeCreated"] = <<>>
        /\ Under["BasketRequested"] = ToBasket
        /\ Under["NettingExecuted"] = ToNetting
        /\ Under["SettlementPending"] = Append(ToNetting, FrameAt["pub_pending"])
        /\ Under["SettlementApproved"] = Append(ToNetting, FrameAt["pub_approved"])
    BY DEF Under
  <1>9. /\ Under["SettlementSigned"] = Append(ToNetting, FrameAt["pub_signed"])
        /\ Under["SettlementBroadcasted"] =
               Append(ToNetting, FrameAt["pub_broadcasted"])
        /\ Under["SettlementConfirmed"] = ToConfirmed
        /\ Under["CustodyUpdated"] = Append(ToConfirmed, FrameAt["custody"])
    BY DEF Under
  <1> QED
    BY <1>2, <1>3, <1>4, <1>6, <1>7, <1>8, <1>9, Zenon

\* PointOf finds the topmost frame with anything left.
LEMMA PointOfBusy ==
    ASSUME NEW S, NEW st \in Seq(S), NEW n \in 1 .. Len(st),
           Left(st, n) # "idle",
           \A m \in 1 .. Len(st) : m > n => Left(st, m) = "idle"
    PROVE  PointOf(st) = Left(st, n)
  <1> DEFINE busy == {m \in DOMAIN st : Left(st, m) # "idle"}
  <1>1. DOMAIN st = 1 .. Len(st) /\ Len(st) \in Nat
    OBVIOUS
  <1>2. n \in busy /\ \A m \in busy : n >= m
    BY <1>1
  <1>3. \A m \in busy : m \in Nat
    BY <1>1
  <1> HIDE DEF busy
  <1>4. Max(busy) = n
    <2>1. Max(busy) \in busy /\ \A y \in busy : Max(busy) >= y
      BY <1>2, Zenon DEF Max
    <2>2. Max(busy) \in Nat /\ n \in Nat /\ n >= Max(busy) /\ Max(busy) >= n
      BY <1>2, <1>3, <2>1, Zenon
    <2> QED
      BY <2>2
  <1> QED
    BY <1>2, <1>4 DEF PointOf, busy

LEMMA PointOfIdle ==
    ASSUME NEW S, NEW st \in Seq(S), \A n \in 1 .. Len(st) : Left(st, n) = "idle"
    PROVE  PointOf(st) = "idle"
  BY DEF PointOf

\* A stack is at the transaction its top frame says.
LEMMA PointOfStack ==
    ASSUME NEW f \in Frames
    PROVE  PointOf(Stack(f)) = PointAt(f)
  <1> DEFINE e == f.event
             st == Stack(f)
  <1>1. e \in Events
    BY FrameType
  <1>2. Under[e] \in Seq(Frames)
    BY <1>1, UnderType
  <1>3. /\ st \in Seq(Frames)
        /\ Len(st) = Len(Under[e]) + 1
        /\ st[Len(st)] = f
        /\ \A n \in 1 .. Len(Under[e]) : st[n] = Under[e][n]
        /\ Len(Under[e]) \in Nat
    BY <1>2 DEF Stack
  <1>4. Left(st, Len(st)) = NextIn(f, f.i)
    BY <1>3 DEF Left
  <1> HIDE DEF e, st
  <1>5. CASE NextIn(f, f.i) # "idle"
    <2>1. Len(st) \in 1 .. Len(st)
      BY <1>3
    <2>2. PointOf(st) = Left(st, Len(st))
      BY <1>3, <1>4, <1>5, <2>1, PointOfBusy
    <2> QED
      BY <1>4, <1>5, <2>2 DEF PointAt, st
  <1>6. CASE NextIn(f, f.i) = "idle"
    <2>1. PointAt(f) = Below[e]
      BY <1>6 DEF PointAt, e
    <2>2. CASE e = "TradeCreated" /\ Under[e] = <<>> /\ Below[e] = "idle"
      <3>1. \A n \in 1 .. Len(st) : Left(st, n) = "idle"
        BY <1>3, <1>4, <1>6, <2>2
      <3> QED
        BY <1>3, <2>1, <2>2, <3>1, PointOfIdle DEF st
    <2>3. ASSUME NEW g \in Frames,
                 Under[e] = Append(Under[g.event], g),
                 PointFrom(g.event, g.h, g.i + 1) = Below[e],
                 NextFrom(g.event, g.h, g.i + 1) # "idle"
          PROVE  PointOf(st) = Below[e]
      <3>1. /\ g.event \in Events /\ g.h \in Nat /\ g.i \in Nat
            /\ g = Frame(g.event, g.h, g.i)
        BY FrameType
      <3>2. Under[g.event] \in Seq(Frames)
        BY <3>1, UnderType
      <3>3. Len(Under[e]) = Len(Under[g.event]) + 1 /\ Under[e][Len(Under[e])] = g
        BY <2>3, <3>2
      <3>4. /\ Len(Under[e]) \in 1 .. Len(st) /\ Len(Under[e]) # Len(st)
            /\ st[Len(Under[e])] = g
            /\ \A m \in 1 .. Len(st) : m > Len(Under[e]) => m = Len(st)
        BY <1>3, <3>2, <3>3
      <3>5. Left(st, Len(Under[e])) = NextIn(g, g.i + 1)
        BY <3>4 DEF Left
      <3>6. g.i + 1 \in Nat
        BY <3>1
      <3>7. NextIn(g, g.i + 1) = NextFrom(g.event, g.h, g.i + 1)
        BY <3>1, <3>6, NextByParts
      <3>8. Left(st, Len(Under[e])) = Below[e] /\ Below[e] # "idle"
        BY <2>3, <3>5, <3>7 DEF PointFrom
      <3> QED
        BY <1>3, <1>4, <1>6, <3>4, <3>8, PointOfBusy
    <2>4. CASE e = "NettingExecuted"
      <3>1. Under[e] = Append(Append(<<>>, FrameAt["ingest"]), FrameAt["net"])
        BY <2>4 DEF Under, ToNetting, ToBasket
      <3>2. Len(st) = 3 /\ st[1] = FrameAt["ingest"] /\ st[2] = FrameAt["net"]
        BY <1>3, <3>1
      <3>3. /\ FrameAt["ingest"] = Frame("TradeCreated", 1, 1)
            /\ FrameAt["net"] = Frame("BasketRequested", 1, 1)
            /\ FrameAt["ingest"].i = 1 /\ FrameAt["net"].i = 1
        BY DEF FrameAt, Frame
      <3>4. /\ Left(st, 1) = NextIn(FrameAt["ingest"], 2)
            /\ Left(st, 2) = NextIn(FrameAt["net"], 2)
        BY <3>2, <3>3 DEF Left
      <3>5. /\ "TradeCreated" \in Events /\ "BasketRequested" \in Events
        BY DEF Events, Subscribers
      <3>6. /\ Left(st, 1) = NextFrom("TradeCreated", 1, 2)
            /\ Left(st, 2) = NextFrom("BasketRequested", 1, 2)
        BY <3>3, <3>4, <3>5, NextByParts
      <3>7. Left(st, 1) = "post_trade" /\ Left(st, 2) = "idle"
        BY <3>6, NextTable
      <3>8. \A m \in 1 .. Len(st) : m > 1 => Left(st, m) = "idle"
        BY <1>4, <1>6, <3>2, <3>7
      <3>9. PointOf(st) = "post_trade"
        <4>1. 1 \in 1 .. Len(st) /\ Left(st, 1) # "idle"
          BY <3>2, <3>7
        <4> QED
          BY <1>3, <3>7, <3>8, <4>1, PointOfBusy
      <3>10. Below[e] = "post_trade"
        BY <2>4 DEF Below
      <3> QED
        BY <2>1, <3>9, <3>10 DEF st
    <2> QED
      BY <1>1, <2>1, <2>2, <2>3, <2>4, BelowTable DEF st
  <1> QED
    BY <1>5, <1>6

\* The top frame of a stack, and putting another of the same event there.
LEMMA StackTop ==
    ASSUME NEW f \in Frames
    PROVE  /\ Stack(f) \in Stacks
           /\ Stack(f) # <<>>
           /\ Last(Stack(f)) = f
           /\ Front(Stack(f)) = Under[f.event]
           /\ Len(Stack(f)) = Len(Under[f.event]) + 1
           /\ \A g : g.event = f.event => SetTop(Stack(f), g) = Stack(g)
  <1>1. Under[f.event] \in Seq(Frames)
    BY FrameType, UnderType
  <1>2. Stack(f) \in Stacks
    BY DEF Stacks
  <1>3. /\ Stack(f) # <<>>
        /\ Last(Stack(f)) = f
        /\ Front(Stack(f)) = Under[f.event]
        /\ Len(Stack(f)) = Len(Under[f.event]) + 1
    BY <1>1, Topped DEF Stack
  <1>4. \A g : SetTop(Stack(f), g) = Append(Under[f.event], g)
    BY <1>1, Topped DEF Stack
  <1> QED
    BY <1>2, <1>3, <1>4 DEF Stack

LEMMA EmptyPoint == <<>> \in Stacks /\ PointOf(<<>>) = "idle"
  <1>1. <<>> \in Stacks
    BY DEF Stacks
  <1>2. <<>> \in Seq(Frames) /\ \A n \in 1 .. Len(<<>>) : Left(<<>>, n) = "idle"
    OBVIOUS
  <1> QED
    BY <1>1, <1>2, PointOfIdle

\* Another frame of the loop of the same event takes the top.
LEMMA TopMoves ==
    ASSUME NEW f \in Frames, NEW g \in Frames,
           NEW h \in Nat, NEW i \in Nat, g = Frame(f.event, h, i)
    PROVE  /\ SetTop(Stack(f), g) \in Stacks
           /\ PointOf(SetTop(Stack(f), g)) = PointFrom(f.event, h, i)
  <1>1. f.event \in Events
    BY FrameType
  <1>2. g.event = f.event
    BY DEF Frame
  <1>3. SetTop(Stack(f), g) = Stack(g)
    BY <1>2, StackTop
  <1>4. PointOf(Stack(g)) = PointFrom(f.event, h, i)
    BY <1>1, PointOfStack, PointByParts
  <1> QED
    BY <1>3, <1>4, StackTop

\* A stack whose top frame is in a handler is at the transaction that frame
\* is at, and its moves are those of the tables.
LEMMA RunningMoves ==
    ASSUME NEW f \in Frames, InHandler(f), NEW pt, pt = Handler(f)[f.i]
    PROVE  /\ pt \in P!Points
           /\ PointOf(Stack(f)) = pt
           /\ Catch(Stack(f)) \in Stacks
           /\ PointOf(Catch(Stack(f))) = P!Raises[pt]
           /\ pt \notin DOMAIN P!Publishes =>
                  /\ SetTop(Stack(f), Advanced(f)) \in Stacks
                  /\ PointOf(SetTop(Stack(f), Advanced(f))) = P!Returns[pt]
           /\ pt \in DOMAIN P!Publishes =>
                  /\ Append(Stack(f), Publishing(P!Publishes[pt])) \in Stacks
                  /\ PointOf(Append(Stack(f), Publishing(P!Publishes[pt])))
                         = P!Returns[pt]
  <1>1. pt \in P!Points /\ f = FrameAt[pt]
    BY RunningAt
  <1>2. /\ f.event \in Events /\ f.h \in Nat /\ f.i \in Nat
        /\ f.h + 1 \in Nat /\ f.i + 1 \in Nat
    BY FrameType
  <1>3. PointOf(Stack(f)) = pt
    <2>1. NextIn(f, f.i) = pt
      BY DEF NextIn, InHandler
    <2>2. pt # "idle"
      BY <1>1, PointNames
    <2> QED
      BY <2>1, <2>2, PointOfStack DEF PointAt
  <1>4. Catch(Stack(f)) = SetTop(Stack(f), NextHandler(f))
    BY StackTop DEF Catch
  <1>5. NextHandler(f) \in Frames /\ NextHandler(f) = Frame(f.event, f.h + 1, 1)
    BY NextHandlerMoves DEF InHandler
  <1>6. /\ SetTop(Stack(f), NextHandler(f)) \in Stacks
        /\ PointOf(SetTop(Stack(f), NextHandler(f))) = PointFrom(f.event, f.h + 1, 1)
    BY <1>2, <1>5, TopMoves
  <1>7. PointFrom(f.event, f.h + 1, 1) = P!Raises[pt]
    BY <1>1, RaisesTable
  <1>8. ASSUME pt \notin DOMAIN P!Publishes
        PROVE  /\ SetTop(Stack(f), Advanced(f)) \in Stacks
               /\ PointOf(SetTop(Stack(f), Advanced(f))) = P!Returns[pt]
    <2>1. Advanced(f) \in Frames /\ Advanced(f) = Frame(f.event, f.h, f.i + 1)
      BY AdvancedMoves
    <2>2. PointFrom(f.event, f.h, f.i + 1) = P!Returns[pt]
      BY <1>1, <1>8, ReturnsTable
    <2> QED
      BY <1>2, <2>1, <2>2, TopMoves
  <1>9. ASSUME pt \in DOMAIN P!Publishes
        PROVE  /\ Append(Stack(f), Publishing(P!Publishes[pt])) \in Stacks
               /\ PointOf(Append(Stack(f), Publishing(P!Publishes[pt])))
                      = P!Returns[pt]
    <2> DEFINE e == P!Publishes[pt]
    <2>1. /\ e \in Events
          /\ Under[e] = Append(Under[f.event], f)
          /\ PointFrom(e, 1, 1) = P!Returns[pt]
      BY <1>1, <1>9, PublishesTable
    <2> HIDE DEF e
    <2>2. Publishing(e) \in Frames /\ Publishing(e) = Frame(e, 1, 1)
      BY <2>1, PublishingMoves
    <2>3. Publishing(e).event = e
      BY DEF Publishing
    <2>4. Append(Stack(f), Publishing(e)) = Stack(Publishing(e))
      BY <2>1, <2>3 DEF Stack
    <2>5. PointOf(Stack(Publishing(e))) = PointFrom(e, 1, 1)
      BY <2>1, <2>2, PointOfStack, PointByParts
    <2> QED
      BY <2>1, <2>2, <2>4, <2>5, StackTop DEF e
  <1> QED
    BY <1>1, <1>3, <1>4, <1>6, <1>7, <1>8, <1>9

\* A handler that returns leaves the stack at the same transaction.
LEMMA ReturningMoves ==
    ASSUME NEW f \in Frames, InLoop(f), ~InHandler(f)
    PROVE  /\ SetTop(Stack(f), NextHandler(f)) \in Stacks
           /\ PointOf(SetTop(Stack(f), NextHandler(f))) = PointOf(Stack(f))
  <1> DEFINE g == NextHandler(f)
  <1>1. g \in Frames /\ g.event = f.event /\ g.i = 1
    BY NextHandlerMoves DEF NextHandler
  <1>2. SetTop(Stack(f), g) = Stack(g)
    BY <1>1, StackTop
  <1>3. f.i \in Nat /\ f.i \in 1 .. Len(Handler(f)) + 1
    BY FrameType
  <1>4. f.i > Len(Handler(f))
    BY <1>3 DEF InHandler
  <1>5. NextIn(f, f.i) = IF ~InLoop(g) THEN "idle" ELSE Handler(g)[1]
    BY <1>3, <1>4 DEF NextIn, InHandler
  <1>6. NextIn(g, 1) = IF ~InLoop(g) THEN "idle" ELSE Handler(g)[1]
    <2>1. InLoop(g) => 1 <= Len(Handler(g))
      <3> SUFFICES ASSUME InLoop(g) PROVE 1 <= Len(Handler(g))
        OBVIOUS
      <3> HIDE DEF g
      <3>1. g.event \in Events /\ g.h \in Nat \ {0} /\ Len(Subscribers[g.event]) \in Nat
        BY <1>1, FrameType, Loops
      <3>2. g.h \in 1 .. Len(Subscribers[g.event])
        BY <3>1 DEF InLoop
      <3>3. Len(Body(Subscribers[g.event][g.h], g.event)) \in 1 .. 10
        BY <3>1, <3>2, BodyType
      <3>4. Len(Handler(g)) \in 1 .. 10
        BY <3>3, Zenon DEF Handler
      <3>5. \A n \in 1 .. 10 : 1 <= n
        OBVIOUS
      <3> QED
        BY <3>4, <3>5, Zenon
    <2> QED
      BY <2>1 DEF NextIn
  <1>7. PointAt(g) = PointAt(f)
    BY <1>1, <1>5, <1>6 DEF PointAt
  <1> QED
    BY <1>1, <1>2, <1>7, PointOfStack, StackTop

\* So does a publish() that returns.
LEMMA PoppedMoves ==
    ASSUME NEW f \in Frames, ~InLoop(f)
    PROVE  /\ Popped(Stack(f)) \in Stacks
           /\ PointOf(Popped(Stack(f))) = PointOf(Stack(f))
  <1>1. f.event \in Events
    BY FrameType
  <1>2. PointOf(Stack(f)) = Below[f.event]
    BY PointOfStack DEF PointAt, NextIn
  <1>3. CASE f.event = "TradeCreated" /\ Under[f.event] = <<>>
             /\ Below[f.event] = "idle"
    <2>1. Len(Stack(f)) = 1
      <3>1. Len(<<>>) = 0
        OBVIOUS
      <3>2. Len(Stack(f)) = Len(Under[f.event]) + 1
        BY StackTop
      <3>3. Len(Under[f.event]) = 0
        BY <1>3, <3>1, Zenon
      <3> QED
        BY <3>2, <3>3
    <2> QED
      BY <1>2, <1>3, <2>1, EmptyPoint DEF Popped
  <1>4. ASSUME NEW g \in Frames, InHandler(g),
               Under[f.event] = Append(Under[g.event], g),
               PointFrom(g.event, g.h, g.i + 1) = Below[f.event]
        PROVE  /\ Popped(Stack(f)) \in Stacks
               /\ PointOf(Popped(Stack(f))) = PointOf(Stack(f))
    <2>1. Front(Stack(f)) = Stack(g) /\ Len(Stack(f)) = Len(Stack(g)) + 1
      BY <1>4, StackTop DEF Stack
    <2>2. Under[g.event] \in Seq(Frames)
      BY FrameType, UnderType
    <2>3. Len(Stack(f)) # 1
      BY <2>1, <2>2, StackTop
    <2>4. Popped(Stack(f)) = SetTop(Stack(g), Advanced(g))
      BY <2>1, <2>3, StackTop DEF Popped
    <2>5. /\ Advanced(g) \in Frames
          /\ Advanced(g) = Frame(g.event, g.h, g.i + 1)
          /\ g.h \in Nat /\ g.i + 1 \in Nat
      BY <1>4, AdvancedMoves, FrameType
    <2>6. /\ SetTop(Stack(g), Advanced(g)) \in Stacks
          /\ PointOf(SetTop(Stack(g), Advanced(g))) = PointFrom(g.event, g.h, g.i + 1)
      BY <2>5, TopMoves
    <2> QED
      BY <1>2, <1>4, <2>4, <2>6
  <1> QED
    BY <1>1, <1>3, <1>4, BelowTable

-----------------------------------------------------------------------------
\* The steps.

\* What a client's next transaction, if it has one, says of its stack.
LEMMA AtPoint ==
    ASSUME StackInv, NEW p \in Clients, stack[p] # <<>>
    PROVE  \E f \in Frames :
               /\ stack[p] = Stack(f)
               /\ Top(p) = f
  <1>1. stack[p] \in Stacks
    BY DEF StackInv
  <1>2. PICK f \in Frames : stack[p] = Stack(f)
    BY <1>1 DEF Stacks
  <1> QED
    BY <1>2, StackTop DEF Top

\* A step that leaves a client with one of the stacks keeps the invariant.
LEMMA RestackKeeps ==
    ASSUME StackInv, NEW p \in Clients, NEW st \in Stacks,
           PointOf(st) \in P!Points \cup {"idle"},
           Restack(p, st)
    PROVE  /\ StackInv'
           /\ pc' = [pc EXCEPT ![p] = PointOf(st)]
  <1>1. /\ stack' = [stack EXCEPT ![p] = st]
        /\ pc' = [pc EXCEPT ![p] = PointOf(st)]
    BY DEF Restack
  <1>2. stack \in [Clients -> Stacks] /\ pc \in [Clients -> P!Points \cup {"idle"}]
    BY DEF StackInv
  <1>3. stack' \in [Clients -> Stacks] /\ pc' \in [Clients -> P!Points \cup {"idle"}]
    BY <1>1, <1>2
  <1>4. ASSUME NEW q \in Clients PROVE pc'[q] = PointOf(stack'[q])
    BY <1>1, <1>2 DEF StackInv
  <1> QED
    BY <1>1, <1>3, <1>4 DEF StackInv

\* What a transaction at pt does to the control state, as TradePipeline has it.
LEMMA RunningStep ==
    ASSUME StackInv, NEW p \in Clients, NEW pt, At(p, pt)
    PROVE  /\ pc[p] = pt /\ pt \in P!Points
           /\ Restack(p, Catch(stack[p])) =>
                  /\ StackInv'
                  /\ pc' = [pc EXCEPT ![p] = P!Raises[pt]]
           /\ pt \notin DOMAIN P!Publishes
              /\ Done(p, SetTop(stack[p], Advanced(Top(p)))) =>
                  StackInv' /\ P!Leave(p)
           /\ pt \in DOMAIN P!Publishes
              /\ Done(p, Append(stack[p], Publishing(P!Publishes[pt]))) =>
                  StackInv' /\ P!Leave(p)
  <1>1. PICK f \in Frames : stack[p] = Stack(f) /\ Top(p) = f
    BY AtPoint DEF At
  <1>2. InHandler(f) /\ pt = Handler(f)[f.i]
    BY <1>1 DEF At
  <1>3. pc[p] = pt /\ pt \in P!Points
    BY <1>1, <1>2, RunningMoves DEF StackInv
  <1>4. P!Raises[pt] \in P!Points \cup {"idle"} /\ P!Returns[pt] \in P!Points \cup {"idle"}
    BY <1>3, PointNames DEF P!Raises, P!Returns
  <1>5. Catch(Stack(f)) \in Stacks /\ PointOf(Catch(Stack(f))) = P!Raises[pt]
    BY <1>2, RunningMoves
  <1>6. ASSUME Restack(p, Catch(stack[p]))
        PROVE  StackInv' /\ pc' = [pc EXCEPT ![p] = P!Raises[pt]]
    BY <1>1, <1>4, <1>5, <1>6, RestackKeeps
  <1>7. ASSUME NEW after \in Stacks, PointOf(after) = P!Returns[pt], Done(p, after)
        PROVE  StackInv' /\ P!Leave(p)
    <2>1. CASE Restack(p, after)
      <3>1. StackInv' /\ pc' = [pc EXCEPT ![p] = P!Returns[pt]]
        BY <1>4, <1>7, <2>1, RestackKeeps
      <3> QED
        BY <1>3, <1>7, <3>1 DEF Done, P!Leave, P!Resume
    <2>2. CASE "indoubt" \in Faults /\ Restack(p, Catch(stack[p]))
      BY <1>3, <1>6, <1>7, <2>2 DEF Done, P!Leave, P!Resume
    <2> QED
      BY <1>7, <2>1, <2>2 DEF Done
  <1>8. ASSUME pt \notin DOMAIN P!Publishes, Done(p, SetTop(stack[p], Advanced(Top(p))))
        PROVE  StackInv' /\ P!Leave(p)
    BY <1>1, <1>2, <1>7, <1>8, RunningMoves
  <1>9. ASSUME pt \in DOMAIN P!Publishes,
               Done(p, Append(stack[p], Publishing(P!Publishes[pt])))
        PROVE  StackInv' /\ P!Leave(p)
    BY <1>1, <1>2, <1>7, <1>9, RunningMoves
  <1> QED
    BY <1>3, <1>6, <1>8, <1>9

LEMMA StackInit == Init => StackInv /\ P!Init
  <1> SUFFICES ASSUME Init PROVE StackInv /\ P!Init
    OBVIOUS
  <1>1. StackInv
    BY EmptyPoint DEF Init, StackInv
  <1>2. P!Init
    BY DEF Init, P!Init
  <1> QED
    BY <1>1, <1>2

\* Each step of the dispatch is a step of TradePipeline or none at all.
LEMMA StepRefines ==
    ASSUME StackInv, NEW p \in Clients, Step(p)
    PROVE  StackInv' /\ (P!Step(p) \/ UNCHANGED P!vars)
  <1>1. CASE PublishChild(p)
    <2>1. PICK pt \in DOMAIN P!Publishes :
              /\ At(p, pt)
              /\ ~(pt = "net" /\ trade[p] \notin HasQty)
              /\ P!persist_event(trade[p], P!Publishes[pt])
              /\ Done(p, Append(stack[p], Publishing(P!Publishes[pt])))
              /\ UNCHANGED <<settlements, history, journal, settlement_id>>
      BY <1>1 DEF PublishChild
    <2>2. pc[p] = pt /\ StackInv' /\ P!Leave(p)
      BY <2>1, RunningStep
    <2>3. P!PublishChild(p)
      BY <2>1, <2>2 DEF P!PublishChild, P!MissingQty
    <2> QED
      BY <2>2, <2>3 DEF P!Step
  <1>2. CASE CreateSettlement(p)
    <2>1. "create" \notin DOMAIN P!Publishes
      BY DEF P!Publishes
    <2>2. pc[p] = "create" /\ StackInv' /\ P!Leave(p)
      BY <1>2, <2>1, RunningStep DEF CreateSettlement
    <2>3. P!CreateSettlement(p)
      BY <1>2, <2>2 DEF CreateSettlement, P!CreateSettlement
    <2> QED
      BY <2>2, <2>3 DEF P!Step
  <1>3. CASE UpdateSettlement(p)
    <2>1. /\ "approve" \notin DOMAIN P!Publishes /\ "sign" \notin DOMAIN P!Publishes
          /\ "broadcast" \notin DOMAIN P!Publishes
          /\ "confirm" \notin DOMAIN P!Publishes
      BY DEF P!Publishes
    <2>2. /\ Done(p, SetTop(stack[p], Advanced(Top(p))))
          /\ UNCHANGED <<log, journal, settlement_id>>
      BY <1>3 DEF UpdateSettlement
    <2>3. ASSUME At(p, "approve"),
                 settlements[trade[p]][settlement_id[p]] = "PENDING",
                 P!update_status(p, "PENDING", "APPROVED")
          PROVE  StackInv' /\ P!Approve(p)
      <3>1. pc[p] = "approve" /\ StackInv' /\ P!Leave(p)
        BY <2>1, <2>2, <2>3, RunningStep
      <3>2. P!validate_settlement_state("PENDING", "APPROVED")
        BY DEF P!validate_settlement_state, P!SETTLEMENT_STATE_ORDER, P!Statuses
      <3> QED
        BY <2>2, <2>3, <3>1, <3>2 DEF P!Approve, P!NotInExpectedState
    <2>4. ASSUME At(p, "sign"), P!update_status(p, "APPROVED", "SIGNED")
          PROVE  StackInv' /\ P!Sign(p)
      <3>1. pc[p] = "sign" /\ StackInv' /\ P!Leave(p)
        BY <2>1, <2>2, <2>4, RunningStep
      <3> QED
        BY <2>2, <2>4, <3>1 DEF P!Sign
    <2>5. ASSUME At(p, "broadcast"), P!update_status(p, "SIGNED", "BROADCASTED")
          PROVE  StackInv' /\ P!Broadcast(p)
      <3>1. pc[p] = "broadcast" /\ StackInv' /\ P!Leave(p)
        BY <2>1, <2>2, <2>5, RunningStep
      <3> QED
        BY <2>2, <2>5, <3>1 DEF P!Broadcast
    <2>6. ASSUME At(p, "confirm"), P!update_status(p, "BROADCASTED", "CONFIRMED")
          PROVE  StackInv' /\ P!Confirm(p)
      <3>1. pc[p] = "confirm" /\ StackInv' /\ P!Leave(p)
        BY <2>1, <2>2, <2>6, RunningStep
      <3> QED
        BY <2>2, <2>6, <3>1 DEF P!Confirm
    <2> QED
      BY <1>3, <2>3, <2>4, <2>5, <2>6 DEF UpdateSettlement, P!Step
  <1>4. CASE PostLedger(p)
    <2>1. PICK pt \in DOMAIN P!Posts :
              /\ At(p, pt)
              /\ journal' = [journal EXCEPT ![trade[p]] =
                     @ \o P!legs(P!get_accounts(trade[p], P!Posts[pt]))]
              /\ Done(p, SetTop(stack[p], Advanced(Top(p))))
              /\ UNCHANGED <<log, settlements, history, settlement_id>>
      BY <1>4 DEF PostLedger
    <2>2. pt \notin DOMAIN P!Publishes
      BY <2>1 DEF P!Publishes, P!Posts
    <2>3. pc[p] = pt /\ StackInv' /\ P!Leave(p)
      BY <2>1, <2>2, RunningStep
    <2>4. P!PostLedger(p)
      BY <2>1, <2>3 DEF P!PostLedger
    <2> QED
      BY <2>3, <2>4 DEF P!Step
  <1>5. CASE Raise(p)
    <2>1. At(p, Handler(Top(p))[Top(p).i])
      BY <1>5 DEF Raise, At
    <2>2. PICK pt : pt = Handler(Top(p))[Top(p).i]
      OBVIOUS
    <2>3. /\ pc[p] = pt /\ pt \in P!Points /\ StackInv'
          /\ pc' = [pc EXCEPT ![p] = P!Raises[pt]]
      BY <1>5, <2>1, <2>2, RunningStep DEF Raise
    <2>4. P!Raise(p)
      BY <1>5, <2>3 DEF Raise, P!Raise
    <2> QED
      BY <2>3, <2>4 DEF P!Step
  <1>6. ASSUME NEW st \in Stacks, PointOf(st) = PointOf(stack[p]), Restack(p, st),
               UNCHANGED <<log, settlements, history, journal, trade, settlement_id>>
        PROVE  StackInv' /\ UNCHANGED P!vars
    <2>1. PointOf(st) = pc[p] /\ pc[p] \in P!Points \cup {"idle"}
      BY <1>6 DEF StackInv
    <2>2. StackInv' /\ pc' = [pc EXCEPT ![p] = pc[p]]
      BY <1>6, <2>1, RestackKeeps
    <2>3. pc' = pc
      BY <2>2 DEF StackInv
    <2> QED
      BY <1>6, <2>2, <2>3 DEF P!vars
  <1>7. CASE HandlerReturns(p)
    <2>1. PICK f \in Frames : stack[p] = Stack(f) /\ Top(p) = f
      BY <1>7, AtPoint DEF HandlerReturns
    <2> QED
      BY <1>6, <1>7, <2>1, ReturningMoves DEF HandlerReturns
  <1>8. CASE PublishReturns(p)
    <2>1. PICK f \in Frames : stack[p] = Stack(f) /\ Top(p) = f
      BY <1>8, AtPoint DEF PublishReturns
    <2> QED
      BY <1>6, <1>8, <2>1, PoppedMoves DEF PublishReturns
  <1> QED
    BY <1>1, <1>2, <1>3, <1>4, <1>5, <1>7, <1>8 DEF Step

LEMMA NextRefines ==
    ASSUME StackInv, [Next]_vars
    PROVE  StackInv' /\ [P!Next]_P!vars
  <1>1. ASSUME NEW p \in Clients, NEW k \in Keys, publish(p, k)
        PROVE  StackInv' /\ P!Submit(p, k)
    <2>1. stack[p] = <<>> /\ pc[p] = "idle"
      BY <1>1, EmptyPoint DEF publish, StackInv
    <2>2. CASE Restack(p, <<Publishing("TradeCreated")>>)
               /\ trade' = [trade EXCEPT ![p] = k]
      <3>1. "TradeCreated" \in Events
        BY DEF Events, Subscribers
      <3>2. Publishing("TradeCreated") \in Frames
            /\ Publishing("TradeCreated") = Frame("TradeCreated", 1, 1)
        BY <3>1, PublishingMoves
      <3>3. Stack(Publishing("TradeCreated")) = <<Publishing("TradeCreated")>>
        <4>1. Under["TradeCreated"] = <<>> /\ Publishing("TradeCreated").event = "TradeCreated"
          BY DEF Under, Publishing
        <4>2. \A f : Append(<<>>, f) = <<f>>
          OBVIOUS
        <4> QED
          BY <4>1, <4>2, Zenon DEF Stack
      <3>4. PointOf(Stack(Publishing("TradeCreated"))) = "ingest"
        BY <3>1, <3>2, PointOfStack, PointByParts, PointTable
      <3>5. StackInv' /\ pc' = [pc EXCEPT ![p] = "ingest"]
        BY <2>2, <3>2, <3>3, <3>4, StackTop, PointNames, RestackKeeps
      <3> QED
        BY <1>1, <2>1, <2>2, <3>5 DEF publish, P!Submit
    <2>3. CASE "indoubt" \in Faults /\ UNCHANGED <<stack, pc, trade>>
      <3>1. StackInv'
        BY <2>3 DEF StackInv
      <3> QED
        BY <1>1, <2>1, <2>3, <3>1 DEF publish, P!Submit
    <2> QED
      BY <1>1, <2>2, <2>3 DEF publish
  <1>2. ASSUME NEW p \in Clients, Crash(p)
        PROVE  StackInv' /\ (P!Crash(p) \/ UNCHANGED P!vars)
    <2>1. StackInv' /\ pc' = [pc EXCEPT ![p] = "idle"]
      BY <1>2, EmptyPoint, RestackKeeps DEF Crash
    <2>2. CASE pc[p] = "idle"
      <3>1. pc' = pc
        BY <2>1, <2>2 DEF StackInv
      <3> QED
        BY <1>2, <2>1, <3>1 DEF Crash, P!vars
    <2>3. CASE pc[p] # "idle"
      BY <1>2, <2>1, <2>3 DEF Crash, P!Crash
    <2> QED
      BY <2>2, <2>3
  <1>3. CASE UNCHANGED vars
    BY <1>3 DEF vars, P!vars, StackInv
  <1>4. ASSUME NEW p \in Clients, NEW k \in Keys, publish(p, k)
        PROVE  StackInv' /\ P!Next
    BY <1>1, <1>4 DEF P!Next
  <1>5. ASSUME NEW p \in Clients, Step(p)
        PROVE  StackInv' /\ [P!Next]_P!vars
    BY <1>5, StepRefines DEF P!Next
  <1>6. ASSUME NEW p \in Clients, Crash(p)
        PROVE  StackInv' /\ [P!Next]_P!vars
    BY <1>2, <1>6 DEF P!Next
  <1> QED
    BY <1>3, <1>4, <1>5, <1>6 DEF Next

\* Every stack is one the subscriptions can build, and pc says where it is.
THEOREM StacksAreNested == Spec => []StackInv
  <1>1. Init => StackInv
    BY StackInit
  <1>2. StackInv /\ [Next]_vars => StackInv'
    BY NextRefines
  <1> QED
    BY <1>1, <1>2, PTL DEF Spec

\* The dispatch loops of core/event_bus.py over the subscriptions of
\* core/bootstrap.py run the pipeline as TradePipeline has it, every exception,
\* lost answer and crash included.
THEOREM BusRefinesPipeline == Spec => ImplementsPipeline
  <1>1. Init => P!Init
    BY StackInit
  <1>2. StackInv /\ [Next]_vars => [P!Next]_P!vars
    BY NextRefines
  <1> QED
    BY <1>1, <1>2, StacksAreNested, PTL DEF Spec, ImplementsPipeline, P!Spec
=============================================================================
