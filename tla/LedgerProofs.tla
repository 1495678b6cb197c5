---------------------------- MODULE LedgerProofs ----------------------------
(***************************************************************************)
(* Theorems about the journal TradePipeline writes: double entry, and one  *)
(* posting for each event.  They rest on the invariant of                  *)
(* TradePipelineProofs: where a call tree is says what it has yet to post. *)
(***************************************************************************)
EXTENDS TradePipelineProofs

-----------------------------------------------------------------------------
\* The inductive invariant.

\* The postings a call tree at pt may still make.
Ahead(pt) ==
    IF pt = "post_trade" THEN {"post_trade"}
    ELSE IF pt = "post_netting" THEN {"post_netting", "post_trade"}
    ELSE DOMAIN Posts

NotPosted(k, e) ==
    \A i \in DOMAIN journal[k] : journal[k][i].account \notin AccountsOf(k, e)

\* What a running call tree has yet to post is not in the journal.
Unposted ==
    \A p \in Clients : pc[p] # "idle" =>
        \A pt \in Ahead(pc[p]) : NotPosted(trade[p], Posts[pt])

JInv == DoubleEntry /\ PostedOnce /\ Unposted

\* What DoubleEntry says of one trade's rows: row i, in rows of that domain.
Paired(rows, i) ==
    IF i % 2 = 1 THEN /\ i + 1 \in DOMAIN rows
                      /\ rows[i].column = "debit"
                      /\ rows[i + 1].column = "credit"
                      /\ rows[i + 1].amount = rows[i].amount
                 ELSE rows[i].column = "credit"

Balanced(rows) == Len(rows) % 2 = 0 /\ \A i \in DOMAIN rows : Paired(rows, i)

\* What PostedOnce says of one trade's rows.
Distinct(rows) ==
    \A i, j \in DOMAIN rows : rows[i].account = rows[j].account => i = j

Justified(rows, k) ==
    \A i \in DOMAIN rows : \E e \in PostedEvents :
        rows[i].account \in AccountsOf(k, e) /\ Logged(k, e)

\* The two properties, a trade at a time.
LEMMA RowByRow ==
    /\ DoubleEntry <=> \A k \in Keys : Balanced(journal[k])
    /\ PostedOnce <=> \A k \in Keys : Distinct(journal[k]) /\ Justified(journal[k], k)
  <1>1. DoubleEntry <=> \A k \in Keys : Balanced(journal[k])
    BY Zenon DEF DoubleEntry, Balanced, Paired
  <1>2. PostedOnce <=> \A k \in Keys : Distinct(journal[k]) /\ Justified(journal[k], k)
    BY Zenon DEF PostedOnce, Distinct, Justified
  <1> QED
    BY <1>1, <1>2

\* The same of the next state.
LEMMA RowByRowNext ==
    /\ DoubleEntry' <=> \A k \in Keys : Balanced(journal'[k])
    /\ UNCHANGED log =>
         (PostedOnce' <=> \A k \in Keys : Distinct(journal'[k]) /\ Justified(journal'[k], k))
  <1>1. DoubleEntry' <=> \A k \in Keys : Balanced(journal'[k])
    BY Zenon DEF DoubleEntry, Balanced, Paired
  <1>2. ASSUME UNCHANGED log
        PROVE  PostedOnce' <=> \A k \in Keys :
                                   Distinct(journal'[k]) /\ Justified(journal'[k], k)
    <2>1. \A k, e : Logged(k, e)' <=> Logged(k, e)
      BY <1>2 DEF Logged
    <2> QED
      BY <2>1, Zenon DEF PostedOnce, Distinct, Justified
  <1> QED
    BY <1>1, <1>2

-----------------------------------------------------------------------------
\* The accounts of each posting.

\* The two legs: equal amounts, one debit, one credit, on different accounts.
LEMMA LegsShape ==
    ASSUME NEW k \in Keys, NEW e \in PostedEvents
    PROVE  \E a, c \in JournalRows :
               /\ legs(get_accounts(k, e)) = <<a, c>>
               /\ a.column = "debit" /\ c.column = "credit"
               /\ c.amount = a.amount
               /\ a.account # c.account
               /\ AccountsOf(k, e) = {a.account, c.account}
  <1> DEFINE m == get_accounts(k, e)
             a == journal_entry(m.debit_account, "debit", m.amount)
             c == journal_entry(m.credit_account, "credit", m.amount)
  <1>1. e \in {"SettlementConfirmed", "NettingExecuted", "TradeCreated"}
    BY DEF PostedEvents, Posts
  <1>2. PICK pt \in DOMAIN Posts : e = Posts[pt]
    BY DEF PostedEvents
  <1>3. legs(m) = <<a, c>>
    BY DEF legs
  <1>4. legs(m) \in Seq(JournalRows)
    BY <1>2, LegsType
  <1>5. a \in JournalRows /\ c \in JournalRows
    BY <1>3, <1>4
  <1>6. a.column = "debit" /\ c.column = "credit" /\ c.amount = a.amount
    BY DEF journal_entry
  <1>7. m.debit_account # m.credit_account
    BY <1>1 DEF get_accounts
  <1>8. a.account # c.account
    BY <1>7 DEF journal_entry
  <1>9. AccountsOf(k, e) = {a.account, c.account}
    BY <1>3 DEF AccountsOf
  <1> QED
    BY <1>3, <1>5, <1>6, <1>8, <1>9

\* No two events are posted to a common account.
LEMMA AccountsDisjoint ==
    ASSUME NEW k \in Keys, NEW e \in PostedEvents, NEW f \in PostedEvents, e # f
    PROVE  AccountsOf(k, e) \cap AccountsOf(k, f) = {}
  <1> DEFINE A(x) == {get_accounts(k, x).debit_account,
                      get_accounts(k, x).credit_account}
  <1>1. \A x : AccountsOf(k, x) = A(x)
    BY DEF AccountsOf, legs, journal_entry
  <1>2. /\ e \in {"SettlementConfirmed", "NettingExecuted", "TradeCreated"}
        /\ f \in {"SettlementConfirmed", "NettingExecuted", "TradeCreated"}
    BY DEF PostedEvents, Posts
  <1>3. A(e) \cap A(f) = {}
    BY <1>2 DEF get_accounts
  <1> QED
    BY <1>1, <1>3

\* A posting makes each of the postings ahead of it at most once.
LEMMA AheadShrinks ==
    /\ \A pt \in DOMAIN Posts : \A to \in {Returns[pt], Raises[pt]} :
           /\ pt \in Ahead(pt)
           /\ to # "idle" => Ahead(to) \subseteq Ahead(pt) \ {pt}
    /\ \A pt \in Points \ DOMAIN Posts : Ahead(pt) = DOMAIN Posts
    /\ \A pt : Ahead(pt) \subseteq DOMAIN Posts
    /\ \A pt \in Points : \A to \in {Returns[pt], Raises[pt]} :
           to # "idle" => Ahead(to) \subseteq Ahead(pt)
  BY PointsListed DEF Ahead, Posts, Publishes, Writes, Points, Returns, Raises

\* Each posting is of an event of its own.
LEMMA PostsDiffer ==
    /\ \A pt, qt \in DOMAIN Posts : pt # qt => Posts[pt] # Posts[qt]
    /\ \A pt \in DOMAIN Posts : Posts[pt] \in PostedEvents
  BY DEF Posts, PostedEvents

-----------------------------------------------------------------------------
\* The steps.

\* A client that runs has recorded the event of each point of the ledger.
LEMMA PostedIsLogged ==
    ASSUME IInv, NEW p \in Clients, pc[p] \in DOMAIN Posts
    PROVE  trade[p] \in Keys /\ Logged(trade[p], Posts[pc[p]])
  <1>1. PICK k \in Keys : /\ k = trade[p]
                          /\ Len(log[k]) >= EventsAt[pc[p]]
                          /\ LogInv(k)
    <2>1. PointInv(p)
      BY PointsListed DEF IInv, ClientInv
    <2> QED
      BY <2>1 DEF PointInv, IInv, TradeInv
  <1>2. PICK n \in Nat : n = Len(log[k]) /\ DOMAIN log[k] = 1 .. n
    BY DEF IInv, TypeOK
  <1>3. /\ EventsAt[pc[p]] \in 1 .. n
        /\ Order[EventsAt[pc[p]]] = Posts[pc[p]]
    BY <1>1, <1>2, PointsListed DEF EventsAt, Order, Posts
  <1> QED
    BY <1>1, <1>2, <1>3 DEF LogInv, Logged

\* Events are never removed.
LEMMA LoggedStays ==
    ASSUME IInv, [Next]_vars, NEW k \in Keys, NEW e, Logged(k, e)
    PROVE  Logged(k, e)'
  <1>1. ASSUME NEW j \in Keys, NEW f, persist_event(j, f) PROVE Logged(k, e)'
    <2>1. \/ log'[k] = log[k]
          \/ log'[k] = Append(log[k], f)
      BY <1>1 DEF persist_event, IInv, TypeOK
    <2>2. log[k] \in Seq(EventTypes)
      BY DEF IInv, TypeOK
    <2>3. PICK i \in DOMAIN log[k] : log[k][i] = e
      BY DEF Logged
    <2>4. i \in DOMAIN log'[k] /\ log'[k][i] = e
      BY <2>1, <2>2, <2>3
    <2> QED
      BY <2>4 DEF Logged
  <1>2. CASE UNCHANGED log
    BY <1>2 DEF Logged
  <1>3. ASSUME NEW p \in Clients, PublishChild(p) PROVE Logged(k, e)'
    <2>1. PICK j \in Keys : j = trade[p]
      BY <1>3, Runner DEF PublishChild, Points
    <2> QED
      BY <1>1, <1>3, <2>1 DEF PublishChild
  <1>4. ASSUME NEW p \in Clients, NEW j \in Keys, Submit(p, j) PROVE Logged(k, e)'
    BY <1>1, <1>4 DEF Submit
  <1> QED
    BY <1>2, <1>3, <1>4
       DEF Next, Step, SubmitDuplicate, CreateSettlement, Approve, Sign, Broadcast,
           Confirm, PostLedger, Raise, Crash, vars

\* What is posted stays posted once, if the journal does not change.
LEMMA KeepsPosted ==
    ASSUME IInv, [Next]_vars, DoubleEntry, PostedOnce, UNCHANGED journal
    PROVE  DoubleEntry' /\ PostedOnce'
  <1>1. DoubleEntry'
    BY DEF DoubleEntry
  <1>2. PostedOnce'
    <2> SUFFICES ASSUME NEW k \in Keys
                 PROVE  /\ \A i, j \in DOMAIN journal'[k] :
                               journal'[k][i].account = journal'[k][j].account
                                   => i = j
                        /\ \A i \in DOMAIN journal'[k] : \E e \in PostedEvents :
                               /\ journal'[k][i].account \in AccountsOf(k, e)
                               /\ Logged(k, e)'
      BY DEF PostedOnce
    <2>1. \A e : Logged(k, e) => Logged(k, e)'
      BY LoggedStays
    <2> QED
      BY <2>1 DEF PostedOnce
  <1> QED
    BY <1>1, <1>2

\* A step of a call tree that does not post leaves as much ahead, or less.
LEMMA KeepsUnposted ==
    ASSUME IInv, Unposted, UNCHANGED <<journal, trade>>,
           NEW p \in Clients, pc[p] \in Points,
           NEW to \in {Returns[pc[p]], Raises[pc[p]], "idle"},
           pc' = [pc EXCEPT ![p] = to]
    PROVE  Unposted'
  <1> SUFFICES ASSUME NEW q \in Clients, pc'[q] # "idle", NEW pt \in Ahead(pc'[q])
               PROVE  NotPosted(trade[q], Posts[pt])
    BY DEF Unposted, NotPosted
  <1>1. pc[q] # "idle" /\ pt \in Ahead(pc[q])
    <2>1. CASE q = p
      BY <2>1, AheadShrinks, PointsListed DEF IInv, TypeOK
    <2>2. CASE q # p
      BY <2>2 DEF IInv, TypeOK
    <2> QED
      BY <2>1, <2>2
  <1> QED
    BY <1>1 DEF Unposted

\* A new call tree runs a trade nothing was posted for: none of its events was
\* recorded.
LEMMA SubmitKeeps ==
    ASSUME IInv, JInv, NEW p \in Clients, NEW k \in Keys, Submit(p, k)
    PROVE  JInv'
  <1>1. [Next]_vars
    BY DEF Next
  <1>2. DoubleEntry' /\ PostedOnce'
    BY <1>1, KeepsPosted DEF JInv, Submit
  <1>3. journal' = journal /\ DOMAIN journal[k] = {}
    <2>1. \A e : ~Logged(k, e)
      BY DEF Submit, IsDuplicate, Logged, IInv, TypeOK
    <2> QED
      BY <2>1 DEF Submit, JInv, PostedOnce
  <1>4. Unposted'
    <2> SUFFICES ASSUME NEW q \in Clients, pc'[q] # "idle", NEW pt \in Ahead(pc'[q])
                 PROVE  NotPosted(trade[q], Posts[pt])'
      BY DEF Unposted
    <2>1. CASE q = p /\ trade'[p] = k
      BY <1>3, <2>1 DEF NotPosted
    <2>2. CASE pc'[q] = pc[q] /\ trade'[q] = trade[q]
      BY <1>3, <2>2 DEF JInv, Unposted, NotPosted
    <2> QED
      BY <2>1, <2>2 DEF Submit, IInv, TypeOK
  <1> QED
    BY <1>2, <1>4 DEF JInv

\* What a trade's rows are after two more, row by row.
Extended(rows, a, c, after) ==
    \E n \in Nat :
        /\ Len(rows) = n /\ DOMAIN rows = 1 .. n
        /\ Len(after) = n + 2 /\ DOMAIN after = 1 .. n + 2
        /\ \A i \in 1 .. n : after[i] = rows[i]
        /\ after[n + 1] = a /\ after[n + 2] = c
        /\ \A i \in 1 .. n + 2 : i \in 1 .. n \/ i = n + 1 \/ i = n + 2

\* A posting appends two rows.
LEMMA PairAppended ==
    \A rows \in Seq(JournalRows), a, c \in JournalRows :
        Extended(rows, a, c, rows \o <<a, c>>)
  <1> SUFFICES ASSUME NEW rows \in Seq(JournalRows), NEW a \in JournalRows,
                      NEW c \in JournalRows
               PROVE  Extended(rows, a, c, rows \o <<a, c>>)
    OBVIOUS
  <1> DEFINE n == Len(rows)
             after == rows \o <<a, c>>
  <1>1. /\ n \in Nat /\ DOMAIN rows = 1 .. n
        /\ Len(after) = n + 2 /\ DOMAIN after = 1 .. n + 2
        /\ \A i \in 1 .. n : after[i] = rows[i]
        /\ after[n + 1] = a /\ after[n + 2] = c
    OBVIOUS
  <1>2. \A i \in 1 .. n + 2 : i \in 1 .. n \/ i = n + 1 \/ i = n + 2
    BY <1>1
  <1>3. n = Len(rows) /\ after = rows \o <<a, c>>
    OBVIOUS
  <1> HIDE DEF n, after
  <1> QED
    BY <1>1, <1>2, <1>3 DEF Extended

\* A debit and the credit of its amount keep a trade's rows balanced.
LEMMA PairBalances ==
    ASSUME NEW rows \in Seq(JournalRows), NEW a \in JournalRows,
           NEW c \in JournalRows, NEW after, after = rows \o <<a, c>>,
           a.column = "debit", c.column = "credit", c.amount = a.amount,
           Balanced(rows)
    PROVE  Balanced(after)
  <1>0. Extended(rows, a, c, after)
    BY PairAppended
  <1>1. PICK n \in Nat :
            /\ Len(rows) = n /\ DOMAIN rows = 1 .. n
            /\ Len(after) = n + 2 /\ DOMAIN after = 1 .. n + 2
            /\ \A i \in 1 .. n : after[i] = rows[i]
            /\ after[n + 1] = a /\ after[n + 2] = c
            /\ \A i \in 1 .. n + 2 : i \in 1 .. n \/ i = n + 1 \/ i = n + 2
    BY <1>0, Zenon DEF Extended
  <1>2. n % 2 = 0
    BY <1>1 DEF Balanced
  <1>3. /\ (n + 1) % 2 = 1 /\ (n + 2) % 2 = 0
        /\ n + 1 + 1 = n + 2 /\ n + 2 \in 1 .. n + 2
    <2>1. (n + 1) % 2 = 1
      BY <1>2, n \in Nat
    <2>2. (n + 2) % 2 = 0
      BY <1>2, n \in Nat
    <2>3. n + 1 + 1 = n + 2 /\ n + 2 \in 1 .. n + 2
      OBVIOUS
    <2> QED
      BY <2>1, <2>2, <2>3
  <1>4. ASSUME NEW i \in 1 .. n PROVE Paired(after, i)
    <2>1. Paired(rows, i) /\ after[i] = rows[i]
      BY <1>1 DEF Balanced
    <2>2. CASE i % 2 = 1
      <3>1. /\ i + 1 \in 1 .. n /\ rows[i].column = "debit"
            /\ rows[i + 1].column = "credit" /\ rows[i + 1].amount = rows[i].amount
        BY <1>1, <2>1, <2>2, Zenon DEF Paired
      <3>2. after[i + 1] = rows[i + 1] /\ i + 1 \in DOMAIN after
        BY <1>1, <3>1
      <3> QED
        BY <2>1, <2>2, <3>1, <3>2, Zenon DEF Paired
    <2>3. CASE i % 2 # 1
      BY <2>1, <2>3, Zenon DEF Paired
    <2> QED
      BY <2>2, <2>3
  <1>5. Paired(after, n + 1)
    BY <1>1, <1>3 DEF Paired
  <1>6. Paired(after, n + 2)
    BY <1>1, <1>3 DEF Paired
  <1> QED
    BY <1>1, <1>3, <1>4, <1>5, <1>6 DEF Balanced

\* Legs on two accounts that had no row keep the accounts distinct.
LEMMA PairDiffers ==
    ASSUME NEW rows \in Seq(JournalRows), NEW a \in JournalRows,
           NEW c \in JournalRows, NEW after, after = rows \o <<a, c>>,
           a.account # c.account,
           \A i \in DOMAIN rows : rows[i].account \notin {a.account, c.account},
           Distinct(rows)
    PROVE  Distinct(after)
  <1>0. Extended(rows, a, c, after)
    BY PairAppended
  <1>1. PICK n \in Nat :
            /\ Len(rows) = n /\ DOMAIN rows = 1 .. n
            /\ Len(after) = n + 2 /\ DOMAIN after = 1 .. n + 2
            /\ \A i \in 1 .. n : after[i] = rows[i]
            /\ after[n + 1] = a /\ after[n + 2] = c
            /\ \A i \in 1 .. n + 2 : i \in 1 .. n \/ i = n + 1 \/ i = n + 2
    BY <1>0, Zenon DEF Extended
  <1> SUFFICES ASSUME NEW x \in 1 .. n + 2, NEW y \in 1 .. n + 2,
                      after[x].account = after[y].account
               PROVE  x = y
    BY <1>1 DEF Distinct
  <1>2. \A i \in 1 .. n : after[i].account \notin {a.account, c.account}
    BY <1>1
  <1>3. CASE x \in 1 .. n /\ y \in 1 .. n
    BY <1>1, <1>3 DEF Distinct
  <1>4. CASE x \in {n + 1, n + 2} /\ y \in {n + 1, n + 2}
    BY <1>1, <1>4
  <1>5. CASE x \in 1 .. n /\ y \in {n + 1, n + 2}
    BY <1>1, <1>2, <1>5
  <1>6. CASE y \in 1 .. n /\ x \in {n + 1, n + 2}
    BY <1>1, <1>2, <1>6
  <1> QED
    BY <1>1, <1>3, <1>4, <1>5, <1>6

\* A posting adds a balanced pair on accounts that have none yet.
LEMMA PostingKeeps ==
    ASSUME IInv, JInv, NEW p \in Clients, PostLedger(p)
    PROVE  JInv'
  <1>1. pc[p] \in DOMAIN Posts /\ pc[p] # "idle" /\ pc[p] \in Points
    BY PointsListed DEF PostLedger
  <1>2. PICK k \in Keys, e \in PostedEvents, pt \in DOMAIN Posts :
            /\ k = trade[p] /\ pt = pc[p] /\ e = Posts[pt] /\ Logged(k, e)
    BY <1>1, PostedIsLogged, PostsDiffer
  <1>3. PICK a \in JournalRows, c \in JournalRows :
            /\ legs(get_accounts(k, e)) = <<a, c>>
            /\ a.column = "debit" /\ c.column = "credit"
            /\ c.amount = a.amount
            /\ a.account # c.account
            /\ AccountsOf(k, e) = {a.account, c.account}
    BY LegsShape
  <1>4. /\ journal'[k] = journal[k] \o <<a, c>>
        /\ \A j \in Keys \ {k} : journal'[j] = journal[j]
        /\ UNCHANGED <<log, trade>>
    BY <1>2, <1>3 DEF PostLedger, Leave, IInv, TypeOK
  <1>5. journal[k] \in Seq(JournalRows)
    BY DEF IInv, TypeOK
  <1>5a. Extended(journal[k], a, c, journal'[k])
    BY <1>4, <1>5, PairAppended
  <1>5b. PICK n \in Nat :
            /\ Len(journal[k]) = n /\ DOMAIN journal[k] = 1 .. n
            /\ Len(journal'[k]) = n + 2 /\ DOMAIN journal'[k] = 1 .. n + 2
            /\ \A i \in 1 .. n : journal'[k][i] = journal[k][i]
            /\ journal'[k][n + 1] = a /\ journal'[k][n + 2] = c
            /\ \A i \in 1 .. n + 2 : i \in 1 .. n \/ i = n + 1 \/ i = n + 2
    BY <1>5a, Zenon DEF Extended
  <1>6. NotPosted(k, e)
    BY <1>1, <1>2, AheadShrinks DEF JInv, Unposted
  <1>7. DoubleEntry'
    <2>1. Balanced(journal'[k])
      BY <1>3, <1>4, <1>5, PairBalances, RowByRow DEF JInv
    <2>2. \A j \in Keys : Balanced(journal'[j])
      BY <1>4, <2>1, RowByRow DEF JInv
    <2> QED
      BY <2>2, RowByRowNext
  <1>8. PostedOnce'
    <2>1. Distinct(journal[k]) /\ Justified(journal[k], k)
      BY RowByRow DEF JInv
    <2>2. Distinct(journal'[k])
      BY <1>3, <1>4, <1>5, <1>6, <2>1, PairDiffers DEF NotPosted
    <2>3. Justified(journal'[k], k)
      BY <1>2, <1>3, <1>5b, <2>1 DEF Justified
    <2>4. \A j \in Keys : Distinct(journal'[j]) /\ Justified(journal'[j], j)
      BY <1>4, <2>2, <2>3, RowByRow DEF JInv
    <2> QED
      BY <1>4, <2>4, RowByRowNext
  <1>9. Unposted'
    <2> SUFFICES ASSUME NEW q \in Clients, pc'[q] # "idle", NEW qt \in Ahead(pc'[q])
                 PROVE  NotPosted(trade[q], Posts[qt])'
      BY DEF Unposted
    <2>1. PICK to \in {Returns[pt], Raises[pt]} : pc' = [pc EXCEPT ![p] = to]
      BY <1>1, <1>2, Leaves DEF PostLedger
    <2>2. CASE q = p
      <3>1. pc'[q] = to /\ to # "idle"
        BY <2>1, <2>2 DEF IInv, TypeOK
      <3>2. qt \in Ahead(pt) /\ qt # pt /\ qt \in DOMAIN Posts
        BY <3>1, AheadShrinks
      <3>3. NotPosted(k, Posts[qt])
        BY <1>1, <1>2, <3>2 DEF JInv, Unposted
      <3>4. AccountsOf(k, Posts[qt]) \cap {a.account, c.account} = {}
        BY <1>2, <1>3, <3>2, PostsDiffer, AccountsDisjoint
      <3>6. \A x \in 1 .. n + 2 :
                journal'[k][x].account \notin AccountsOf(k, Posts[qt])
        BY <1>5b, <3>3, <3>4 DEF NotPosted
      <3>7. trade'[q] = k
        BY <1>2, <1>4, <2>2
      <3> QED
        BY <1>5b, <3>6, <3>7 DEF NotPosted
    <2>3. CASE q # p
      <3>1. pc'[q] = pc[q] /\ trade'[q] = trade[q]
        BY <1>4, <2>1, <2>3 DEF IInv, TypeOK
      <3>2. trade[q] # k /\ trade[q] \in Keys
        <4>1. trade[q] # k
          BY <1>1, <1>2, <2>3, <3>1 DEF IInv, OneRunner
        <4>2. PointInv(q)
          BY <3>1 DEF IInv, ClientInv
        <4> QED
          BY <4>1, <4>2 DEF PointInv
      <3>3. NotPosted(trade[q], Posts[qt])
        BY <3>1 DEF JInv, Unposted
      <3> QED
        BY <1>4, <3>1, <3>2, <3>3 DEF NotPosted
    <2> QED
      BY <2>2, <2>3
  <1> QED
    BY <1>7, <1>8, <1>9 DEF JInv

\* The other steps leave the journal alone.
LEMMA OthersKeep ==
    ASSUME IInv, JInv, [Next]_vars, NEW p \in Clients, Step(p) \/ Crash(p),
           ~PostLedger(p)
    PROVE  JInv'
  <1>1. UNCHANGED <<journal, trade>>
    BY DEF Step, Crash, PublishChild, CreateSettlement, Approve, Sign, Broadcast,
           Confirm, Raise, Leave
  <1>2. pc[p] \in Points
    BY PointsListed
       DEF Step, Crash, PublishChild, CreateSettlement, Approve, Sign, Broadcast,
           Confirm, Raise, IInv, TypeOK
  <1>3. PICK to \in {Returns[pc[p]], Raises[pc[p]], "idle"} :
            pc' = [pc EXCEPT ![p] = to]
    BY <1>2, Leaves
       DEF Step, Crash, PublishChild, CreateSettlement, Approve, Sign, Broadcast,
           Confirm, Raise
  <1> QED
    BY <1>1, <1>2, <1>3, KeepsPosted, KeepsUnposted DEF JInv

\* Every action keeps what the journal is.
LEMMA LedgerNext == IInv /\ JInv /\ [Next]_vars => JInv'
  <1> SUFFICES ASSUME IInv, JInv, [Next]_vars PROVE JInv'
    OBVIOUS
  <1>1. ASSUME NEW p \in Clients, NEW k \in Keys, Submit(p, k) PROVE JInv'
    BY <1>1, SubmitKeeps
  <1>2. ASSUME NEW p \in Clients, PostLedger(p) PROVE JInv'
    BY <1>2, PostingKeeps
  <1>3. ASSUME NEW p \in Clients, Step(p) \/ Crash(p), ~PostLedger(p) PROVE JInv'
    BY <1>3, OthersKeep
  <1>4. CASE UNCHANGED vars
    BY <1>4 DEF vars, JInv, DoubleEntry, PostedOnce, Unposted, NotPosted, Logged
  <1> QED
    BY <1>1, <1>2, <1>3, <1>4 DEF Next, Step, SubmitDuplicate

\* An empty journal.
LEMMA LedgerInit == Init => JInv
  <1> SUFFICES ASSUME Init PROVE JInv
    OBVIOUS
  <1>1. ASSUME NEW k \in Keys
        PROVE  Balanced(journal[k]) /\ Distinct(journal[k]) /\ Justified(journal[k], k)
    <2>1. Len(journal[k]) % 2 = 0 /\ DOMAIN journal[k] = {}
      <3>1. journal[k] = <<>>
        BY DEF Init
      <3>2. Len(journal[k]) = 0 /\ DOMAIN journal[k] = {} /\ 0 % 2 = 0
        BY <3>1
      <3> QED
        BY <3>2
    <2> QED
      BY <2>1 DEF Balanced, Distinct, Justified
  <1>2. DoubleEntry /\ PostedOnce
    BY <1>1, RowByRow
  <1>3. Unposted
    BY DEF Init, Unposted
  <1> QED
    BY <1>2, <1>3 DEF JInv

\* In every reachable state each trade's journal is balanced pairs, one pair for
\* an event, and none for what its call tree has yet to post.
THEOREM LedgerInvariance == Spec => []JInv
  <1>1. Spec => []IInv
    BY Invariance
  <1> QED
    BY <1>1, LedgerInit, LedgerNext, PTL DEF Spec

\* Debits and credits of a trade sum alike in every committed state.
THEOREM LedgerBalances == Spec => []DoubleEntry
  BY LedgerInvariance, PTL DEF JInv

\* No event is posted twice, and none that was not recorded.
THEOREM NothingPostedTwice == Spec => []PostedOnce
  BY LedgerInvariance, PTL DEF JInv
=============================================================================
