---------------------------- MODULE PlatformProofs ----------------------------
(***************************************************************************)
(* Theorems about Platform: what the operator's jobs read while the        *)
(* pipeline writes.  A job keeps sums; the invariant says of which rows.   *)
(* Rows are only ever added, so a sum stays the sum of the rows it was     *)
(* taken of, and whole postings balance.                                   *)
(***************************************************************************)
EXTENDS Platform, LedgerProofs, SumLemmas

-----------------------------------------------------------------------------
\* The inductive invariant.

\* What a statement sees of the journal, whenever it ran: some of the rows that
\* are in it now, whose debits and credits sum alike.
Snapshots ==
    {refs \in SUBSET JournalRefs :
        SumFunctionOnSet(debit, refs) = SumFunctionOnSet(credit, refs)}

UsedIn(refs) == {Row(ref).account : ref \in refs}
RowsIn(refs, a) == {ref \in refs : Row(ref).account = a}

\* The two statements of a job that GROUP BY account, over the rows of refs.
GroupedSums(refs) == [a \in UsedIn(refs) |-> Sums(RowsIn(refs, a))]
GroupedBalances(refs) ==
    [a \in UsedIn(refs) |-> SumFunctionOnSet(balance, RowsIn(refs, a))]

\* The events of one type.
EventRefs(e) == {ref \in LogRefs : log[ref[1]][ref[2]] = e}

\* The tables are finite, and the journal itself is a snapshot.
TablesFinite ==
    /\ IsFiniteSet(JournalRefs)
    /\ IsFiniteSet(LogRefs)
    /\ IsFiniteSet(SettlementRefs)
    /\ JournalRefs \in Snapshots

\* A verdict for each account of some.
Verdicts == UNION {[used -> {"MATCH", "MISMATCH"}] : used \in SUBSET Accounts}

\* What a reconciliation run holds is of two snapshots, the first within the
\* second.
ReconInv ==
    /\ recon \in {"idle", "view", "compare", "totals"}
    /\ \E first \in Snapshots : \E second \in Snapshots :
           /\ replayed = GroupedSums(first)
           /\ actual = GroupedBalances(second)
           /\ recon \in {"compare", "totals"} => first \subseteq second
    /\ reconciliation_results \in Seq(Verdicts)
    /\ report \in [status : {"NONE", "PASS", "FAIL"}, global_imbalance : {0}]

\* Every account has no more rows than some event that posts to it.
AccountsWithinEvents ==
    \A a \in DOMAIN accounts : \E e \in PostedEvents :
        /\ \E k \in Keys : a \in AccountsOf(k, e)
        /\ accounts[a].entries <= Counts(event_counts, e)

\* Every settlement event counted has an instruction that reached its status.
EventsWithinSettlements ==
    \A e \in DOMAIN Announces :
        Counts(event_counts, e) <=
            SumFunction([s \in AtOrPast(Announces[e]) |-> Counts(settlement_states, s)])

\* What rebuild_state holds, statement by statement.
RebuildInv ==
    /\ rebuild \in {"idle", "events", "settlements", "totals", "rebuilt"}
    /\ \E refs \in Snapshots :
           /\ accounts = GroupedSums(refs)
           /\ rebuild = "rebuilt" => Cardinality(refs) <= invariants.entries
    /\ rebuild \in {"settlements", "totals", "rebuilt"} => AccountsWithinEvents
    /\ rebuild = "settlements" =>
           \A e \in DOMAIN Announces : Counts(event_counts, e) <= Cardinality(EventRefs(e))
    /\ rebuild \in {"totals", "rebuilt"} => EventsWithinSettlements
    /\ event_counts \in [DOMAIN event_counts -> Nat]
    /\ DOMAIN event_counts \subseteq EventTypes
    /\ settlement_states \in [DOMAIN settlement_states -> Nat]
    /\ DOMAIN settlement_states \subseteq Statuses
    /\ invariants \in [debits : Int, credits : Int, entries : Nat]
    /\ invariants.debits = invariants.credits

ReplayInv ==
    /\ replaying \in {"idle", "running", "raised", "returned"}
    /\ count \in Nat

PInv ==
    /\ IInv
    /\ JInv
    /\ TablesFinite
    /\ ReconInv
    /\ RebuildInv
    /\ ReplayInv
    /\ jobs \in 0 .. MaxJobs

-----------------------------------------------------------------------------
\* Rows by their references.

LEMMA RefsListed ==
    /\ \A ref : ref \in JournalRefs <=>
           \E k \in Keys : \E i \in DOMAIN journal[k] : ref = <<k, i>>
    /\ \A ref : ref \in LogRefs <=>
           \E k \in Keys : \E i \in DOMAIN log[k] : ref = <<k, i>>
    /\ \A ref : ref \in SettlementRefs <=>
           \E k \in Keys : \E i \in DOMAIN settlements[k] : ref = <<k, i>>
  <1>1. \A ref : ref \in JournalRefs <=>
            \E k \in Keys : \E i \in DOMAIN journal[k] : ref = <<k, i>>
    BY DEF JournalRefs
  <1>2. \A ref : ref \in LogRefs <=>
            \E k \in Keys : \E i \in DOMAIN log[k] : ref = <<k, i>>
    BY DEF LogRefs
  <1>3. \A ref : ref \in SettlementRefs <=>
            \E k \in Keys : \E i \in DOMAIN settlements[k] : ref = <<k, i>>
    BY DEF SettlementRefs
  <1> QED
    BY <1>1, <1>2, <1>3

\* The same of the next state.
LEMMA RefsListedNext ==
    /\ \A ref : ref \in JournalRefs' <=>
           \E k \in Keys : \E i \in DOMAIN journal'[k] : ref = <<k, i>>
    /\ \A ref : ref \in LogRefs' <=>
           \E k \in Keys : \E i \in DOMAIN log'[k] : ref = <<k, i>>
    /\ \A ref : ref \in SettlementRefs' <=>
           \E k \in Keys : \E i \in DOMAIN settlements'[k] : ref = <<k, i>>
  <1>1. \A ref : ref \in JournalRefs' <=>
            \E k \in Keys : \E i \in DOMAIN journal'[k] : ref = <<k, i>>
    BY DEF JournalRefs
  <1>2. \A ref : ref \in LogRefs' <=>
            \E k \in Keys : \E i \in DOMAIN log'[k] : ref = <<k, i>>
    BY DEF LogRefs
  <1>3. \A ref : ref \in SettlementRefs' <=>
            \E k \in Keys : \E i \in DOMAIN settlements'[k] : ref = <<k, i>>
    BY DEF SettlementRefs
  <1> QED
    BY <1>1, <1>2, <1>3

\* A row has the journal's type; a debit, a credit and a balance are amounts.
LEMMA RowType ==
    ASSUME TypeOK, IsFiniteSet(JournalRefs)
    PROVE  /\ \A ref \in JournalRefs : Row(ref) \in JournalRows
           /\ \A refs \in SUBSET JournalRefs :
                  /\ Amounts(debit, refs)
                  /\ Amounts(credit, refs)
                  /\ Amounts(balance, refs)
  <1>1. ASSUME NEW ref \in JournalRefs PROVE Row(ref) \in JournalRows
    <2>1. PICK k \in Keys : \E i \in DOMAIN journal[k] : ref = <<k, i>>
      BY RefsListed
    <2>2. PICK i \in DOMAIN journal[k] : ref = <<k, i>>
      BY <2>1
    <2>3. journal[k] \in Seq(JournalRows)
      BY DEF TypeOK
    <2> QED
      BY <2>2, <2>3 DEF Row
  <1>2. ASSUME NEW ref \in JournalRefs
        PROVE  debit[ref] \in Int /\ credit[ref] \in Int /\ balance[ref] \in Int
    <2>1. Row(ref).amount \in Int
      BY <1>1 DEF JournalRows
    <2>2. debit[ref] \in Int /\ credit[ref] \in Int
      BY <2>1 DEF debit, credit
    <2> QED
      BY <2>2 DEF balance
  <1> QED
    BY <1>1, <1>2, FS_Subset DEF Amounts

-----------------------------------------------------------------------------
\* How the pipeline's tables grow.

\* A debit a and a credit c of its amount, appended to the rows of trade k.
Posting(k, a, c) ==
    /\ a.column = "debit" /\ c.column = "credit"
    /\ c.amount = a.amount
    /\ Extended(journal[k], a, c, journal'[k])
    /\ \A j \in Keys \ {k} : journal'[j] = journal[j]

LEMMA JournalStep ==
    ASSUME IInv, [Next]_vars
    PROVE  \/ UNCHANGED journal
           \/ \E k \in Keys : \E a, c \in JournalRows : Posting(k, a, c)
  <1>1. ASSUME NEW p \in Clients, PostLedger(p)
        PROVE  \E k \in Keys : \E a, c \in JournalRows : Posting(k, a, c)
    <2>1. PICK k \in Keys, e \in PostedEvents : k = trade[p] /\ e = Posts[pc[p]]
      BY <1>1, PostedIsLogged, PostsDiffer DEF PostLedger
    <2>2. PICK a \in JournalRows, c \in JournalRows :
              /\ legs(get_accounts(k, e)) = <<a, c>>
              /\ a.column = "debit" /\ c.column = "credit"
              /\ c.amount = a.amount
      BY LegsShape
    <2>3. /\ journal'[k] = journal[k] \o <<a, c>>
          /\ \A j \in Keys \ {k} : journal'[j] = journal[j]
      BY <1>1, <2>1, <2>2 DEF PostLedger, IInv, TypeOK
    <2>4. journal[k] \in Seq(JournalRows)
      BY DEF IInv, TypeOK
    <2>5. Extended(journal[k], a, c, journal'[k])
      BY <2>3, <2>4, PairAppended
    <2> QED
      BY <2>2, <2>3, <2>5 DEF Posting
  <1>2. CASE \A p \in Clients : ~PostLedger(p)
    BY <1>2
       DEF Next, Step, Submit, SubmitDuplicate, PublishChild, CreateSettlement,
           Approve, Sign, Broadcast, Confirm, Raise, Crash, vars
  <1> QED
    BY <1>1, <1>2

\* At most one event is recorded, at the end of its trade's log.
LEMMA LogStep ==
    ASSUME IInv, [Next]_vars
    PROVE  \/ UNCHANGED log
           \/ \E k \in Keys : \E e \in EventTypes :
                  log' = [log EXCEPT ![k] = Append(@, e)]
  <1>1. ASSUME NEW p \in Clients, PublishChild(p)
        PROVE  \E k \in Keys : \E e \in EventTypes : persist_event(k, e)
    <2>1. trade[p] \in Keys
      BY <1>1, Runner DEF PublishChild, Points
    <2> QED
      BY <1>1, <2>1, PublishesType DEF PublishChild
  <1>2. ASSUME NEW p \in Clients, NEW k \in Keys, Submit(p, k)
        PROVE  \E e \in EventTypes : persist_event(k, e)
    BY <1>2 DEF Submit, EventTypes
  <1>3. CASE \A p \in Clients : /\ ~PublishChild(p)
                                /\ \A k \in Keys : ~Submit(p, k)
    BY <1>3
       DEF Next, Step, SubmitDuplicate, CreateSettlement, Approve, Sign, Broadcast,
           Confirm, PostLedger, Raise, Crash, vars
  <1> QED
    BY <1>1, <1>2, <1>3 DEF persist_event

\* A trade's instructions gain a row at most.
LEMMA SettlementStep ==
    ASSUME IInv, [Next]_vars
    PROVE  \/ \A k \in Keys : DOMAIN settlements'[k] = DOMAIN settlements[k]
           \/ \E k \in Keys : settlements' = [settlements EXCEPT ![k] = Append(@, "PENDING")]
  <1>1. ASSUME NEW p \in Clients, CreateSettlement(p)
        PROVE  \E k \in Keys : settlements' = [settlements EXCEPT ![k] = Append(@, "PENDING")]
    <2>1. trade[p] \in Keys
      BY <1>1, Runner, PointsListed DEF CreateSettlement
    <2> QED
      BY <1>1, <2>1 DEF CreateSettlement
  <1>2. ASSUME NEW p \in Clients, NEW from, NEW to, update_status(p, from, to),
               NEW k \in Keys
        PROVE  DOMAIN settlements'[k] = DOMAIN settlements[k]
    BY <1>2 DEF update_status, IInv, TypeOK
  <1>3. CASE UNCHANGED settlements
    BY <1>3
  <1> QED
    BY <1>1, <1>2, <1>3
       DEF Next, Step, Submit, SubmitDuplicate, PublishChild, Approve, Sign,
           Broadcast, Confirm, PostLedger, Raise, Crash, vars

\* The rows n + 1 and n + 2 of trade k are added, a debit and its credit.
RowsAdded(k, a, c, n) ==
    /\ a.column = "debit" /\ c.column = "credit"
    /\ c.amount = a.amount
    /\ JournalRefs' = (JournalRefs \cup {<<k, n + 1>>}) \cup {<<k, n + 2>>}
    /\ <<k, n + 1>> \notin JournalRefs
    /\ <<k, n + 2>> \notin JournalRefs
    /\ Row(<<k, n + 1>>)' = a /\ Row(<<k, n + 2>>)' = c
    /\ \A ref \in JournalRefs : Row(ref)' = Row(ref)

\* What a step adds to the journal.
LEMMA JournalGrows ==
    ASSUME IInv, [Next]_vars
    PROVE  \/ UNCHANGED journal
           \/ \E k \in Keys : \E a, c \in JournalRows : \E n \in Nat :
                  RowsAdded(k, a, c, n)
  <1>1. ASSUME NEW k \in Keys, NEW a \in JournalRows, NEW c \in JournalRows,
               Posting(k, a, c)
        PROVE  \E n \in Nat : RowsAdded(k, a, c, n)
    <2>1. PICK n \in Nat :
              /\ DOMAIN journal[k] = 1 .. n
              /\ DOMAIN journal'[k] = 1 .. n + 2
              /\ \A i \in 1 .. n : journal'[k][i] = journal[k][i]
              /\ journal'[k][n + 1] = a /\ journal'[k][n + 2] = c
              /\ \A i \in 1 .. n + 2 : i \in 1 .. n \/ i = n + 1 \/ i = n + 2
      BY <1>1, Zenon DEF Posting, Extended
    <2>2. <<k, n + 1>> \notin JournalRefs /\ <<k, n + 2>> \notin JournalRefs
      BY <2>1, RefsListed
    <2>3. Row(<<k, n + 1>>)' = a /\ Row(<<k, n + 2>>)' = c
      BY <2>1 DEF Row
    <2>4. ASSUME NEW ref \in JournalRefs PROVE Row(ref)' = Row(ref) /\ ref \in JournalRefs'
      <3>1. PICK j \in Keys : \E i \in DOMAIN journal[j] : ref = <<j, i>>
        BY RefsListed
      <3>2. PICK i \in DOMAIN journal[j] : ref = <<j, i>>
        BY <3>1
      <3>3. i \in DOMAIN journal'[j] /\ journal'[j][i] = journal[j][i]
        BY <1>1, <2>1, <3>2 DEF Posting
      <3> QED
        BY <3>2, <3>3, RefsListedNext DEF Row
    <2>5. <<k, n + 1>> \in JournalRefs' /\ <<k, n + 2>> \in JournalRefs'
      <3>1. n + 1 \in DOMAIN journal'[k] /\ n + 2 \in DOMAIN journal'[k]
        BY <2>1
      <3> QED
        BY <3>1, RefsListedNext
    <2>6. ASSUME NEW ref \in JournalRefs'
          PROVE  ref \in (JournalRefs \cup {<<k, n + 1>>}) \cup {<<k, n + 2>>}
      <3>1. PICK j \in Keys : \E i \in DOMAIN journal'[j] : ref = <<j, i>>
        BY RefsListedNext
      <3>2. PICK i \in DOMAIN journal'[j] : ref = <<j, i>>
        BY <3>1
      <3>3. CASE j = k
        BY <2>1, <3>2, <3>3, RefsListed
      <3>4. CASE j # k
        <4>1. i \in DOMAIN journal[j]
          BY <1>1, <3>2, <3>4 DEF Posting
        <4> QED
          BY <3>2, <4>1, RefsListed
      <3> QED
        BY <3>3, <3>4
    <2>7. JournalRefs' = (JournalRefs \cup {<<k, n + 1>>}) \cup {<<k, n + 2>>}
      BY <2>4, <2>5, <2>6
    <2>8. a.column = "debit" /\ c.column = "credit" /\ c.amount = a.amount
      BY <1>1 DEF Posting
    <2> QED
      BY <2>2, <2>3, <2>4, <2>7, <2>8 DEF RowsAdded
  <1> QED
    BY <1>1, JournalStep

-----------------------------------------------------------------------------
\* What was read stays what it is.

\* No row goes, and none changes.
LEMMA RowsStay ==
    ASSUME IInv, [Next]_vars, NEW ref \in JournalRefs
    PROVE  ref \in JournalRefs' /\ Row(ref)' = Row(ref)
  <1>1. CASE UNCHANGED journal
    BY <1>1 DEF JournalRefs, Row
  <1>2. ASSUME NEW k \in Keys, NEW a \in JournalRows, NEW c \in JournalRows,
               NEW n \in Nat, RowsAdded(k, a, c, n)
        PROVE  ref \in JournalRefs' /\ Row(ref)' = Row(ref)
    BY <1>2 DEF RowsAdded
  <1> QED
    BY <1>1, <1>2, JournalGrows

\* Nor do its amounts.
LEMMA AmountsStay ==
    ASSUME IInv, [Next]_vars, NEW ref \in JournalRefs
    PROVE  /\ debit'[ref] = debit[ref]
           /\ credit'[ref] = credit[ref]
           /\ balance'[ref] = balance[ref]
  <1>1. ref \in JournalRefs' /\ Row(ref)' = Row(ref)
    BY RowsStay
  <1>2. debit'[ref] = debit[ref] /\ credit'[ref] = credit[ref]
    BY <1>1 DEF debit, credit
  <1>3. balance[ref] = debit[ref] - credit[ref] /\ balance'[ref] = debit'[ref] - credit'[ref]
    BY <1>1 DEF balance
  <1> QED
    BY <1>2, <1>3

\* So the sums over rows that are there are the same ever after.
LEMMA SumsStay ==
    ASSUME IInv, [Next]_vars, IsFiniteSet(JournalRefs), NEW refs \in SUBSET JournalRefs
    PROVE  /\ SumFunctionOnSet(debit', refs) = SumFunctionOnSet(debit, refs)
           /\ SumFunctionOnSet(credit', refs) = SumFunctionOnSet(credit, refs)
           /\ SumFunctionOnSet(balance', refs) = SumFunctionOnSet(balance, refs)
  <1>1. Amounts(debit, refs) /\ Amounts(credit, refs) /\ Amounts(balance, refs)
    BY RowType DEF IInv
  <1>2. \A ref \in refs : /\ debit'[ref] = debit[ref]
                          /\ credit'[ref] = credit[ref]
                          /\ balance'[ref] = balance[ref]
    BY AmountsStay
  <1> HIDE DEF debit, credit, balance
  <1> QED
    BY <1>1, <1>2, SumSame

LEMMA SnapshotsStay ==
    ASSUME IInv, [Next]_vars, IsFiniteSet(JournalRefs), NEW refs \in Snapshots
    PROVE  /\ refs \in Snapshots'
           /\ GroupedSums(refs)' = GroupedSums(refs)
           /\ GroupedBalances(refs)' = GroupedBalances(refs)
  <1>1. refs \in SUBSET JournalRefs
    BY DEF Snapshots
  <1>2. refs \in SUBSET JournalRefs' /\ \A ref \in refs : Row(ref)' = Row(ref)
    BY <1>1, RowsStay
  <1>3. refs \in Snapshots'
    BY <1>1, <1>2, SumsStay DEF Snapshots
  <1>4. /\ UsedIn(refs)' = UsedIn(refs)
        /\ \A a : RowsIn(refs, a)' = RowsIn(refs, a)
    BY <1>2 DEF UsedIn, RowsIn
  <1>5. \A a : RowsIn(refs, a) \in SUBSET JournalRefs
    BY <1>1 DEF RowsIn
  <1>6. \A a : /\ Sums(RowsIn(refs, a))' = Sums(RowsIn(refs, a))
               /\ SumFunctionOnSet(balance, RowsIn(refs, a))'
                      = SumFunctionOnSet(balance, RowsIn(refs, a))
    BY <1>4, <1>5, SumsStay DEF Sums
  <1> QED
    BY <1>3, <1>4, <1>6 DEF GroupedSums, GroupedBalances

\* The rows of one trade's log and instructions are numbered from 1.
LEMMA TablesStayFinite ==
    ASSUME IInv, TablesFinite, [Next]_vars
    PROVE  /\ IsFiniteSet(LogRefs') /\ LogRefs \subseteq LogRefs'
           /\ \A ref \in LogRefs : log'[ref[1]][ref[2]] = log[ref[1]][ref[2]]
           /\ IsFiniteSet(SettlementRefs')
  <1>1. /\ IsFiniteSet(LogRefs') /\ LogRefs \subseteq LogRefs'
        /\ \A ref \in LogRefs : log'[ref[1]][ref[2]] = log[ref[1]][ref[2]]
    <2>1. CASE UNCHANGED log
      BY <2>1 DEF LogRefs, TablesFinite
    <2>2. ASSUME NEW k \in Keys, NEW e \in EventTypes,
                 log' = [log EXCEPT ![k] = Append(@, e)]
          PROVE  /\ IsFiniteSet(LogRefs') /\ LogRefs \subseteq LogRefs'
                 /\ \A ref \in LogRefs : log'[ref[1]][ref[2]] = log[ref[1]][ref[2]]
      <3> DEFINE new == <<k, Len(log[k]) + 1>>
      <3>1. log \in [Keys -> Seq(EventTypes)]
        BY DEF IInv, TypeOK
      <3>2. /\ log'[k] = Append(log[k], e)
            /\ \A j \in Keys \ {k} : log'[j] = log[j]
        BY <2>2, <3>1
      <3>3. DOMAIN log'[k] = DOMAIN log[k] \cup {Len(log[k]) + 1}
        BY <3>1, <3>2
      <3>4. ASSUME NEW ref PROVE ref \in LogRefs' <=> ref \in LogRefs \cup {new}
        <4>1. ref \in LogRefs' <=> \E j \in Keys : \E i \in DOMAIN log'[j] : ref = <<j, i>>
          BY RefsListedNext
        <4>2. ref \in LogRefs <=> \E j \in Keys : \E i \in DOMAIN log[j] : ref = <<j, i>>
          BY RefsListed
        <4> QED
          BY <3>2, <3>3, <4>1, <4>2
      <3>5. LogRefs' = LogRefs \cup {new}
        BY <3>4
      <3>6. ASSUME NEW ref \in LogRefs PROVE log'[ref[1]][ref[2]] = log[ref[1]][ref[2]]
        <4>1. PICK j \in Keys : \E i \in DOMAIN log[j] : ref = <<j, i>>
          BY RefsListed
        <4>2. PICK i \in DOMAIN log[j] : ref = <<j, i>>
          BY <4>1
        <4>3. log'[j][i] = log[j][i]
          <5>1. CASE j # k
            BY <3>2, <5>1
          <5>2. CASE j = k
            <6>1. log[k] \in Seq(EventTypes) /\ i \in DOMAIN log[k]
              BY <3>1, <4>2, <5>2
            <6>2. Append(log[k], e)[i] = log[k][i]
              BY <6>1
            <6> QED
              BY <3>2, <5>2, <6>2
          <5> QED
            BY <5>1, <5>2
        <4> QED
          BY <4>2, <4>3
      <3> QED
        BY <3>5, <3>6, FS_AddElement DEF TablesFinite
    <2> QED
      BY <2>1, <2>2, LogStep
  <1>2. IsFiniteSet(SettlementRefs')
    <2>1. CASE \A k \in Keys : DOMAIN settlements'[k] = DOMAIN settlements[k]
      BY <2>1 DEF SettlementRefs, TablesFinite
    <2>2. ASSUME NEW k \in Keys,
                 settlements' = [settlements EXCEPT ![k] = Append(@, "PENDING")]
          PROVE  IsFiniteSet(SettlementRefs')
      <3> DEFINE new == <<k, Len(settlements[k]) + 1>>
      <3>1. settlements \in [Keys -> Seq(Statuses)]
        BY DEF IInv, TypeOK
      <3>2. /\ DOMAIN settlements'[k] = DOMAIN settlements[k] \cup {Len(settlements[k]) + 1}
            /\ \A j \in Keys \ {k} : settlements'[j] = settlements[j]
        BY <2>2, <3>1
      <3>3. ASSUME NEW ref PROVE ref \in SettlementRefs' <=> ref \in SettlementRefs \cup {new}
        <4>1. ref \in SettlementRefs' <=>
                  \E j \in Keys : \E i \in DOMAIN settlements'[j] : ref = <<j, i>>
          BY RefsListedNext
        <4>2. ref \in SettlementRefs <=>
                  \E j \in Keys : \E i \in DOMAIN settlements[j] : ref = <<j, i>>
          BY RefsListed
        <4> QED
          BY <3>2, <4>1, <4>2
      <3>4. SettlementRefs' = SettlementRefs \cup {new}
        BY <3>3
      <3> QED
        BY <3>4, FS_AddElement DEF TablesFinite
    <2> QED
      BY <2>1, <2>2, SettlementStep
  <1> QED
    BY <1>1, <1>2

\* A posting adds as much to the debits as to the credits.
LEMMA JournalBalances ==
    ASSUME IInv, IInv', TablesFinite, [Next]_vars
    PROVE  IsFiniteSet(JournalRefs') /\ JournalRefs' \in Snapshots'
  <1>1. CASE UNCHANGED journal
    BY <1>1 DEF TablesFinite, Snapshots, JournalRefs, debit, credit, Row
  <1>2. ASSUME NEW k \in Keys, NEW a \in JournalRows, NEW c \in JournalRows,
               NEW n \in Nat, RowsAdded(k, a, c, n)
        PROVE  IsFiniteSet(JournalRefs') /\ JournalRefs' \in Snapshots'
    <2> DEFINE x == <<k, n + 1>>
               y == <<k, n + 2>>
               J == JournalRefs
               sum(f, refs) == SumFunctionOnSet(f, refs)
    <2>1. /\ JournalRefs' = (J \cup {x}) \cup {y}
          /\ x \notin J /\ y \notin J \cup {x}
      BY <1>2 DEF RowsAdded
    <2>2. IsFiniteSet(JournalRefs')
      BY <2>1, FS_AddElement DEF TablesFinite
    <2>3. /\ debit'[x] = a.amount /\ credit'[x] = 0
          /\ debit'[y] = 0 /\ credit'[y] = a.amount
      BY <1>2, <2>1 DEF RowsAdded, debit, credit
    <2>4. Amounts(debit', JournalRefs') /\ Amounts(credit', JournalRefs')
      <3>1. \A ref \in JournalRefs' : debit'[ref] \in Int /\ credit'[ref] \in Int
        <4>1. ASSUME NEW ref \in J PROVE debit'[ref] \in Int /\ credit'[ref] \in Int
          <5>1. Amounts(debit, J) /\ Amounts(credit, J)
            BY RowType DEF IInv, TablesFinite
          <5> QED
            BY <4>1, <5>1, AmountsStay DEF Amounts
        <4>2. a.amount \in Int
          BY DEF JournalRows
        <4> QED
          BY <2>1, <2>3, <4>1, <4>2
      <3> QED
        BY <2>2, <3>1 DEF Amounts
    <2> HIDE DEF x, y
    <2>5. /\ J \in SUBSET JournalRefs' /\ J \cup {x} \in SUBSET JournalRefs'
          /\ x \in JournalRefs' \ J /\ y \in JournalRefs' \ (J \cup {x})
      BY <2>1
    <2>6. \A f : Amounts(f, JournalRefs') =>
              /\ sum(f, JournalRefs') = f[y] + (f[x] + sum(f, J))
              /\ sum(f, J) \in Int
      <3> SUFFICES ASSUME NEW f, Amounts(f, JournalRefs')
                   PROVE  /\ sum(f, JournalRefs') = f[y] + (f[x] + sum(f, J))
                          /\ sum(f, J) \in Int
        OBVIOUS
      <3>1. sum(f, J \cup {x}) = f[x] + sum(f, J)
        BY <2>5, SumAdds
      <3>2. sum(f, (J \cup {x}) \cup {y}) = f[y] + sum(f, J \cup {x})
        BY <2>5, SumAdds
      <3>3. sum(f, J) \in Int
        BY <2>5, SumType
      <3> QED
        BY <2>1, <3>1, <3>2, <3>3
    <2>7. sum(debit', J) = sum(credit', J)
      <3>1. sum(debit, J) = sum(credit, J)
        BY DEF TablesFinite, Snapshots
      <3> QED
        BY <3>1, SumsStay DEF TablesFinite
    <2>8. sum(debit', JournalRefs') = sum(credit', JournalRefs')
      <3>1. a.amount \in Int
        BY DEF JournalRows
      <3>2. /\ sum(debit', JournalRefs') = 0 + (a.amount + sum(debit', J))
            /\ sum(credit', JournalRefs') = a.amount + (0 + sum(credit', J))
            /\ sum(debit', J) \in Int
        BY <2>3, <2>4, <2>6
      <3> HIDE DEF sum
      <3> QED
        BY <2>7, <3>1, <3>2
    <2> QED
      BY <2>2, <2>8 DEF Snapshots
  <1> QED
    BY <1>1, <1>2, JournalGrows

-----------------------------------------------------------------------------
\* What GROUP BY makes of a snapshot.

LEMMA UsedFinite ==
    ASSUME NEW refs, IsFiniteSet(refs)
    PROVE  IsFiniteSet(UsedIn(refs))
  <1> DEFINE key == [ref \in refs |-> Row(ref).account]
  <1>1. key \in [refs -> UsedIn(refs)]
    BY DEF UsedIn
  <1>2. \A a \in UsedIn(refs) : \E ref \in refs : key[ref] = a
    BY DEF UsedIn
  <1> HIDE DEF key
  <1>3. key \in Surjection(refs, UsedIn(refs))
    BY <1>1, <1>2 DEF Surjection
  <1> QED
    BY <1>3, FS_Surjection

\* Group by group, the balance is what the debits and the credits leave.
LEMMA GroupsAgree ==
    ASSUME TypeOK, IsFiniteSet(JournalRefs), NEW refs \in SUBSET JournalRefs
    PROVE  /\ SumFunctionOnSet(balance, refs) =
                  SumFunctionOnSet(debit, refs) - SumFunctionOnSet(credit, refs)
           /\ DOMAIN GroupedSums(refs) = UsedIn(refs)
           /\ DOMAIN GroupedBalances(refs) = UsedIn(refs)
           /\ \A a \in UsedIn(refs) :
                  GroupedSums(refs)[a].debits - GroupedSums(refs)[a].credits
                      = GroupedBalances(refs)[a]
  <1>1. ASSUME NEW some \in SUBSET JournalRefs
        PROVE  SumFunctionOnSet(balance, some) =
                   SumFunctionOnSet(debit, some) - SumFunctionOnSet(credit, some)
    <2>1. Amounts(debit, some) /\ Amounts(credit, some)
      BY RowType
    <2>2. \A ref \in some : balance[ref] = debit[ref] - credit[ref]
      BY DEF balance
    <2> QED
      BY <2>1, <2>2, SumSubtracts
  <1>2. \A a : RowsIn(refs, a) \in SUBSET JournalRefs
    BY DEF RowsIn
  <1> QED
    BY <1>1, <1>2 DEF GroupedSums, GroupedBalances, Sums

\* The types of a group.
LEMMA GroupTypes ==
    ASSUME TypeOK, IsFiniteSet(JournalRefs), NEW refs \in SUBSET JournalRefs
    PROVE  /\ UsedIn(refs) \subseteq Accounts
           /\ \A a \in UsedIn(refs) :
                  /\ GroupedSums(refs)[a] \in [debits : Int, credits : Int, entries : Nat \ {0}]
                  /\ GroupedSums(refs)[a].entries = Cardinality(RowsIn(refs, a))
           /\ GroupedBalances(refs) \in [UsedIn(refs) -> Int]
  <1>1. UsedIn(refs) \subseteq Accounts
    BY RowType DEF UsedIn, JournalRows
  <1>2. ASSUME NEW a \in UsedIn(refs)
        PROVE  /\ GroupedSums(refs)[a] \in [debits : Int, credits : Int, entries : Nat \ {0}]
               /\ GroupedSums(refs)[a].entries = Cardinality(RowsIn(refs, a))
               /\ SumFunctionOnSet(balance, RowsIn(refs, a)) \in Int
    <2>1. RowsIn(refs, a) \in SUBSET JournalRefs /\ RowsIn(refs, a) # {}
      BY DEF RowsIn, UsedIn
    <2>2. /\ Amounts(debit, RowsIn(refs, a))
          /\ Amounts(credit, RowsIn(refs, a))
          /\ Amounts(balance, RowsIn(refs, a))
      BY <2>1, RowType
    <2>3. /\ SumFunctionOnSet(debit, RowsIn(refs, a)) \in Int
          /\ SumFunctionOnSet(credit, RowsIn(refs, a)) \in Int
          /\ SumFunctionOnSet(balance, RowsIn(refs, a)) \in Int
      BY <2>2, SumType
    <2>4. Cardinality(RowsIn(refs, a)) \in Nat \ {0}
      BY <2>1, FS_Subset, FS_CardinalityType, FS_EmptySet
    <2> QED
      BY <2>3, <2>4 DEF GroupedSums, Sums
  <1>3. GroupedBalances(refs) \in [UsedIn(refs) -> Int]
    BY <1>2 DEF GroupedBalances
  <1> QED
    BY <1>1, <1>2, <1>3

\* Over all accounts a snapshot balances, whichever way it is summed, and no row
\* of it is left out.
LEMMA GroupsSumUp ==
    ASSUME TypeOK, IsFiniteSet(JournalRefs), NEW refs \in Snapshots
    PROVE  /\ SumFunction(GroupedBalances(refs)) = 0
           /\ SumFunction([a \in UsedIn(refs) |->
                  GroupedSums(refs)[a].debits - GroupedSums(refs)[a].credits]) = 0
           /\ SumFunction([a \in UsedIn(refs) |-> GroupedSums(refs)[a].entries])
                  = Cardinality(refs)
  <1> DEFINE key == [ref \in refs |-> Row(ref).account]
             A == UsedIn(refs)
             one == [ref \in refs |-> 1]
  <1>1. refs \in SUBSET JournalRefs /\ IsFiniteSet(refs) /\ IsFiniteSet(A)
    BY FS_Subset, UsedFinite DEF Snapshots
  <1>2. \A ref \in refs : key[ref] \in A
    BY DEF UsedIn
  <1>3. \A a : {ref \in refs : key[ref] = a} = RowsIn(refs, a)
    BY DEF RowsIn
  <1>4. SumFunction(GroupedBalances(refs)) = 0
    <2>1. GroupedBalances(refs)
              = [a \in A |-> SumFunctionOnSet(balance, {ref \in refs : key[ref] = a})]
      BY <1>3 DEF GroupedBalances
    <2>2. Amounts(balance, refs)
      BY <1>1, RowType
    <2> HIDE DEF key, A
    <2>3. SumFunctionOnSet(GroupedBalances(refs), A) = SumFunctionOnSet(balance, refs)
      BY <1>1, <1>2, <2>1, <2>2, SumByGroup
    <2>4. SumFunctionOnSet(balance, refs) = 0
      <3>1. /\ SumFunctionOnSet(balance, refs) =
                   SumFunctionOnSet(debit, refs) - SumFunctionOnSet(credit, refs)
            /\ SumFunctionOnSet(debit, refs) \in Int
            /\ SumFunctionOnSet(debit, refs) = SumFunctionOnSet(credit, refs)
        BY <1>1, GroupsAgree, RowType, SumType DEF Snapshots
      <3> QED
        BY <3>1
    <2> QED
      BY <1>1, <2>3, <2>4, GroupsAgree DEF SumFunction, A
  <1>5. [a \in A |-> GroupedSums(refs)[a].debits - GroupedSums(refs)[a].credits]
            = GroupedBalances(refs)
    <2>1. GroupedBalances(refs) = [a \in A |-> GroupedBalances(refs)[a]]
      BY DEF GroupedBalances
    <2> QED
      BY <1>1, <2>1, GroupsAgree
  <1>6. SumFunction([a \in A |-> GroupedSums(refs)[a].entries]) = Cardinality(refs)
    <2> DEFINE entries == [a \in A |-> GroupedSums(refs)[a].entries]
    <2>1. \A a \in A : entries[a] = SumFunctionOnSet(one, {ref \in refs : key[ref] = a})
      <3> SUFFICES ASSUME NEW a \in A
                   PROVE  Cardinality(RowsIn(refs, a)) = SumFunctionOnSet(one, RowsIn(refs, a))
        BY <1>1, <1>3, GroupTypes
      <3>1. IsFiniteSet(RowsIn(refs, a)) /\ \A ref \in RowsIn(refs, a) : one[ref] = 1
        BY <1>1, FS_Subset DEF RowsIn
      <3> HIDE DEF one
      <3> QED
        BY <3>1, SumCounts
    <2>2. entries = [a \in A |-> SumFunctionOnSet(one, {ref \in refs : key[ref] = a})]
      BY <2>1
    <2>3. Amounts(one, refs) /\ \A ref \in refs : one[ref] = 1
      BY <1>1 DEF Amounts
    <2>4. DOMAIN entries = A
      OBVIOUS
    <2> HIDE DEF key, A, one, entries
    <2>5. SumFunctionOnSet(entries, A) = SumFunctionOnSet(one, refs)
      BY <1>1, <1>2, <2>2, <2>3, SumByGroup
    <2>6. SumFunctionOnSet(one, refs) = Cardinality(refs)
      BY <1>1, <2>3, SumCounts
    <2>7. SumFunction(entries) = Cardinality(refs)
      BY <2>4, <2>5, <2>6 DEF SumFunction
    <2> QED
      BY <2>7 DEF entries
  <1> QED
    BY <1>4, <1>5, <1>6

-----------------------------------------------------------------------------
\* What the pipeline guarantees of its tables, in one state.

\* A GROUP BY without its zeros.
LEMMA CountOf ==
    ASSUME NEW value, IsFiniteSet(DOMAIN value), NEW v
    PROVE  Counts(CountBy(value), v) = Cardinality({ref \in DOMAIN value : value[ref] = v})
  <1>1. CASE v \in Range(value)
    BY <1>1 DEF Counts, CountBy
  <1>2. CASE v \notin Range(value)
    <2>1. {ref \in DOMAIN value : value[ref] = v} = {}
      BY <1>2 DEF Range
    <2> QED
      BY <1>2, <2>1, FS_EmptySet DEF Counts, CountBy
  <1> QED
    BY <1>1, <1>2

\* The accounts of an event do not depend on the trade.
LEMMA AccountsFixed ==
    ASSUME NEW j \in Keys, NEW k \in Keys, NEW e \in PostedEvents
    PROVE  AccountsOf(j, e) = AccountsOf(k, e)
  <1> DEFINE A(x) == {get_accounts(x, e).debit_account, get_accounts(x, e).credit_account}
  <1>1. \A x : AccountsOf(x, e) = A(x)
    BY DEF AccountsOf, legs, journal_entry
  <1>2. e \in {"SettlementConfirmed", "NettingExecuted", "TradeCreated"}
    BY DEF PostedEvents, Posts
  <1>3. A(j) = A(k)
    BY <1>2 DEF get_accounts
  <1> QED
    BY <1>1, <1>3

\* Each row of an account is of another trade, which recorded the one event that
\* is posted there: no more rows than events.
LEMMA RowsWithinEvents ==
    ASSUME IInv, JInv, TablesFinite, NEW a \in AccountsUsed
    PROVE  \E e \in PostedEvents :
               /\ \E k \in Keys : a \in AccountsOf(k, e)
               /\ Cardinality(RowsOf(a)) <= Cardinality(EventRefs(e))
  <1>1. ASSUME NEW ref \in RowsOf(a)
        PROVE  \E k \in Keys : \E i \in DOMAIN journal[k] :
                   ref = <<k, i>> /\ journal[k][i].account = a
    BY RefsListed DEF RowsOf, Row
  <1>2. PICK k0 \in Keys, e \in PostedEvents : a \in AccountsOf(k0, e)
    <2>1. PICK ref \in RowsOf(a) : TRUE
      BY DEF AccountsUsed, RowsOf
    <2>2. PICK k \in Keys : \E i \in DOMAIN journal[k] :
                   ref = <<k, i>> /\ journal[k][i].account = a
      BY <1>1
    <2> QED
      BY <2>2 DEF JInv, PostedOnce
  <1>3. ASSUME NEW k \in Keys, NEW i \in DOMAIN journal[k], journal[k][i].account = a
        PROVE  Logged(k, e)
    <2>1. PICK f \in PostedEvents : a \in AccountsOf(k, f) /\ Logged(k, f)
      BY <1>3 DEF JInv, PostedOnce
    <2>2. a \in AccountsOf(k0, f)
      BY <2>1, AccountsFixed
    <2>3. f = e
      BY <1>2, <2>2, AccountsDisjoint
    <2> QED
      BY <2>1, <2>3
  <1> DEFINE place(k) == CHOOSE i \in DOMAIN log[k] : log[k][i] = e
             event == [ref \in RowsOf(a) |-> <<ref[1], place(ref[1])>>]
  <1>4. event \in [RowsOf(a) -> EventRefs(e)]
    <2> SUFFICES ASSUME NEW ref \in RowsOf(a)
                 PROVE  <<ref[1], place(ref[1])>> \in EventRefs(e)
      OBVIOUS
    <2>1. PICK k \in Keys : \E i \in DOMAIN journal[k] :
                   ref = <<k, i>> /\ journal[k][i].account = a
      BY <1>1
    <2>2. Logged(k, e) /\ ref[1] = k
      BY <1>3, <2>1
    <2>3. place(k) \in DOMAIN log[k] /\ log[k][place(k)] = e
      BY <2>2 DEF Logged
    <2> HIDE DEF place
    <2>4. <<k, place(k)>> \in LogRefs
      BY <2>3, RefsListed
    <2> QED
      BY <2>2, <2>3, <2>4 DEF EventRefs
  <1>5. \A r, s \in RowsOf(a) : event[r] = event[s] => r = s
    <2> SUFFICES ASSUME NEW r \in RowsOf(a), NEW s \in RowsOf(a), event[r] = event[s]
                 PROVE  r = s
      OBVIOUS
    <2>1. r[1] = s[1]
      <3> HIDE DEF place
      <3> QED
        OBVIOUS
    <2>2. PICK k \in Keys : \E i \in DOMAIN journal[k] :
                   r = <<k, i>> /\ journal[k][i].account = a
      BY <1>1
    <2>3. PICK l \in Keys : \E i \in DOMAIN journal[l] :
                   s = <<l, i>> /\ journal[l][i].account = a
      BY <1>1
    <2>4. PICK i \in DOMAIN journal[k] : r = <<k, i>> /\ journal[k][i].account = a
      BY <2>2
    <2>5. PICK j \in DOMAIN journal[l] : s = <<l, j>> /\ journal[l][j].account = a
      BY <2>3
    <2>6. k = l
      BY <2>1, <2>4, <2>5
    <2>7. i = j
      BY <2>4, <2>5, <2>6 DEF JInv, PostedOnce
    <2> QED
      BY <2>4, <2>5, <2>6, <2>7
  <1>6. IsFiniteSet(EventRefs(e))
    BY FS_Subset DEF EventRefs, TablesFinite
  <1>7. Cardinality(RowsOf(a)) <= Cardinality(EventRefs(e))
    <2>1. DOMAIN event = RowsOf(a)
      OBVIOUS
    <2> HIDE DEF event
    <2>2. event \in Injection(RowsOf(a), EventRefs(e))
      BY <1>4, <1>5, <2>1 DEF Injection, IsInjective
    <2> QED
      BY <1>6, <2>2, FS_Injection
  <1> QED
    BY <1>2, <1>7

\* The instructions that reached s.
Reached(s) ==
    {ref \in SettlementRefs : settlements[ref[1]][ref[2]] \in AtOrPast(s)}

\* Each settlement event of one type is of another trade, one of whose
\* instructions reached the status: no more events than instructions.
LEMMA EventsWithinRows ==
    ASSUME IInv, TablesFinite, NEW e \in DOMAIN Announces
    PROVE  Cardinality(EventRefs(e)) <= Cardinality(Reached(Announces[e]))
  <1> DEFINE s == Announces[e]
             row(k) == CHOOSE n \in DOMAIN settlements[k] : settlements[k][n] \in AtOrPast(s)
             instruction == [ref \in EventRefs(e) |-> <<ref[1], row(ref[1])>>]
  <1>1. ASSUME NEW ref \in EventRefs(e)
        PROVE  \E k \in Keys : \E i \in DOMAIN log[k] : ref = <<k, i>> /\ log[k][i] = e
    BY RefsListed DEF EventRefs
  <1>2. e \in SettlementEvents
    BY DEF Announces, SettlementEvents
  <1>3. instruction \in [EventRefs(e) -> Reached(s)]
    <2> SUFFICES ASSUME NEW ref \in EventRefs(e)
                 PROVE  <<ref[1], row(ref[1])>> \in Reached(s)
      OBVIOUS
    <2>1. PICK k \in Keys : \E i \in DOMAIN log[k] : ref = <<k, i>> /\ log[k][i] = e
      BY <1>1
    <2>2. PICK n \in DOMAIN settlements[k] :
              SETTLEMENT_STATE_ORDER[settlements[k][n]] >= SETTLEMENT_STATE_ORDER[s]
      BY <1>2, <2>1, RowsBeforeEvents DEF EventFollowsRow
    <2>3. settlements[k][n] \in Statuses
      BY DEF IInv, TypeOK
    <2>4. settlements[k][n] \in AtOrPast(s)
      BY <2>2, <2>3 DEF AtOrPast
    <2>5. row(k) \in DOMAIN settlements[k] /\ settlements[k][row(k)] \in AtOrPast(s)
      BY <2>4
    <2> HIDE DEF row, s
    <2>6. <<k, row(k)>> \in SettlementRefs
      BY <2>5, RefsListed
    <2> QED
      BY <2>1, <2>5, <2>6 DEF Reached
  <1>4. \A r, t \in EventRefs(e) : instruction[r] = instruction[t] => r = t
    <2> SUFFICES ASSUME NEW r \in EventRefs(e), NEW t \in EventRefs(e),
                        instruction[r] = instruction[t]
                 PROVE  r = t
      OBVIOUS
    <2>1. r[1] = t[1]
      <3> HIDE DEF row
      <3> QED
        OBVIOUS
    <2>2. PICK k \in Keys : \E i \in DOMAIN log[k] : r = <<k, i>> /\ log[k][i] = e
      BY <1>1
    <2>3. PICK l \in Keys : \E i \in DOMAIN log[l] : t = <<l, i>> /\ log[l][i] = e
      BY <1>1
    <2>4. PICK i \in DOMAIN log[k] : r = <<k, i>> /\ log[k][i] = e
      BY <2>2
    <2>5. PICK j \in DOMAIN log[l] : t = <<l, j>> /\ log[l][j] = e
      BY <2>3
    <2>6. k = l
      BY <2>1, <2>4, <2>5
    <2>7. i = j
      <3>1. /\ i \in 1 .. 9 /\ j \in 1 .. 9
            /\ Order[i] = e /\ Order[j] = e
        <4>1. log[k] \in Seq(EventTypes) /\ LogInv(k)
          BY DEF IInv, TypeOK, TradeInv
        <4>2. i \in 1 .. Len(log[k]) /\ j \in 1 .. Len(log[k]) /\ Len(log[k]) \in Nat
          BY <2>4, <2>5, <2>6, <4>1
        <4> QED
          BY <2>4, <2>5, <2>6, <4>1, <4>2 DEF LogInv
      <3>2. \A x, y \in 1 .. 9 : Order[x] = Order[y] => x = y
        BY DEF Order
      <3> QED
        BY <3>1, <3>2
    <2> QED
      BY <2>4, <2>5, <2>6, <2>7
  <1>5. IsFiniteSet(Reached(s))
    BY FS_Subset DEF Reached, TablesFinite
  <1> QED
    <2>1. DOMAIN instruction = EventRefs(e)
      OBVIOUS
    <2> HIDE DEF instruction
    <2>2. instruction \in Injection(EventRefs(e), Reached(s))
      BY <1>3, <1>4, <2>1 DEF Injection, IsInjective
    <2> QED
      BY <1>5, <2>2, FS_Injection

\* Counting the instructions by status counts those that reached one.
LEMMA ReachedCounted ==
    ASSUME TypeOK, TablesFinite, NEW s \in Statuses
    PROVE  SumFunction([t \in AtOrPast(s) |->
               Counts(CountBy([ref \in SettlementRefs |-> settlements[ref[1]][ref[2]]]), t)])
               = Cardinality(Reached(s))
  <1> DEFINE status == [ref \in SettlementRefs |-> settlements[ref[1]][ref[2]]]
             R == Reached(s)
             B == AtOrPast(s)
             one == [ref \in R |-> 1]
             counts == [t \in B |-> Counts(CountBy(status), t)]
  <1>1. /\ IsFiniteSet(R) /\ IsFiniteSet(SettlementRefs)
        /\ DOMAIN status = SettlementRefs /\ DOMAIN counts = B
    BY FS_Subset DEF Reached, TablesFinite
  <1>2. IsFiniteSet(B)
    <2>1. B \in SUBSET Statuses
      BY DEF AtOrPast
    <2>2. IsFiniteSet(Statuses)
      <3> DEFINE two == {"PENDING"} \cup {"APPROVED"}
                 three == two \cup {"SIGNED"}
                 four == three \cup {"BROADCASTED"}
      <3>1. Statuses = four \cup {"CONFIRMED"}
        BY DEF Statuses
      <3>2. IsFiniteSet({"PENDING"})
        BY FS_Singleton
      <3>3. IsFiniteSet(two)
        BY <3>2, FS_AddElement
      <3>4. IsFiniteSet(three)
        BY <3>3, FS_AddElement
      <3>5. IsFiniteSet(four)
        BY <3>4, FS_AddElement
      <3> QED
        BY <3>1, <3>5, FS_AddElement
    <2> QED
      BY <2>1, <2>2, FS_Subset
  <1>3. \A ref \in R : status[ref] \in B
    BY DEF Reached
  <1>4. ASSUME NEW t \in B
        PROVE  counts[t] = SumFunctionOnSet(one, {ref \in R : status[ref] = t})
    <2> DEFINE C == {ref \in R : status[ref] = t}
    <2>1. {ref \in DOMAIN status : status[ref] = t} = C
      BY <1>1 DEF Reached
    <2>2. counts[t] = Cardinality({ref \in DOMAIN status : status[ref] = t})
      <3> HIDE DEF status
      <3> QED
        BY <1>1, CountOf
    <2>3. IsFiniteSet(C) /\ \A ref \in C : one[ref] = 1
      BY <1>1, FS_Subset
    <2> HIDE DEF status, R, one, C
    <2>4. SumFunctionOnSet(one, C) = Cardinality(C)
      BY <2>3, SumCounts
    <2> QED
      BY <2>1, <2>2, <2>4 DEF C
  <1>5. counts = [t \in B |-> SumFunctionOnSet(one, {ref \in R : status[ref] = t})]
    BY <1>4
  <1>6. Amounts(one, R) /\ \A ref \in R : one[ref] = 1
    BY <1>1 DEF Amounts
  <1>7. SumFunction(counts) = Cardinality(R)
    <2> HIDE DEF status, R, B, one, counts
    <2>1. SumFunctionOnSet(counts, B) = SumFunctionOnSet(one, R)
      BY <1>2, <1>3, <1>5, <1>6, SumByGroup
    <2>2. SumFunctionOnSet(one, R) = Cardinality(R)
      BY <1>1, <1>6, SumCounts
    <2> QED
      BY <1>1, <2>1, <2>2 DEF SumFunction
  <1> QED
    BY <1>7

-----------------------------------------------------------------------------
\* The invariant implies the properties.

LEMMA TypesFollow == PInv => PlatformTypeOK
  <1> SUFFICES ASSUME PInv PROVE PlatformTypeOK
    OBVIOUS
  <1>1. TypeOK /\ IsFiniteSet(JournalRefs)
    BY DEF PInv, IInv, TablesFinite
  <1>2. PICK first \in Snapshots, second \in Snapshots :
            replayed = GroupedSums(first) /\ actual = GroupedBalances(second)
    BY DEF PInv, ReconInv
  <1>3. first \in SUBSET JournalRefs /\ second \in SUBSET JournalRefs
    BY DEF Snapshots
  <1>4. /\ DOMAIN replayed \subseteq Accounts
        /\ \A a \in DOMAIN replayed :
               replayed[a] \in [debits : Int, credits : Int, entries : Nat \ {0}]
    BY <1>1, <1>2, <1>3, GroupTypes, GroupsAgree
  <1>5. actual \in [DOMAIN actual -> Int] /\ DOMAIN actual \subseteq Accounts
    BY <1>1, <1>2, <1>3, GroupTypes, GroupsAgree
  <1>6. ReconTypeOK
    <2>1. report \in [status : {"NONE", "PASS", "FAIL"}, global_imbalance : Int]
      BY DEF PInv, ReconInv
    <2>2. ASSUME NEW i \in DOMAIN reconciliation_results
          PROVE  reconciliation_results[i] \in
                     [DOMAIN reconciliation_results[i] -> {"MATCH", "MISMATCH"}]
      <3>1. reconciliation_results[i] \in Verdicts
        BY DEF PInv, ReconInv
      <3> QED
        BY <3>1 DEF Verdicts
    <2> QED
      BY <1>4, <1>5, <2>1, <2>2 DEF PInv, ReconInv, ReconTypeOK
  <1>7. DOMAIN accounts \subseteq Accounts
    <2>1. PICK refs \in Snapshots : accounts = GroupedSums(refs)
      BY DEF PInv, RebuildInv
    <2>2. refs \in SUBSET JournalRefs
      BY DEF Snapshots
    <2> QED
      BY <1>1, <2>1, <2>2, GroupTypes, GroupsAgree
  <1> QED
    BY <1>1, <1>6, <1>7 DEF PInv, RebuildInv, ReplayInv, PlatformTypeOK

\* An account whose sums differ between two snapshots has a row more in the
\* second one.
LEMMA MismatchFollows == PInv => MismatchMeansNewRows
  <1> SUFFICES ASSUME PInv, recon \in {"compare", "totals"}
               PROVE  /\ \A a \in Mismatches : a \in DOMAIN replayed =>
                             Cardinality(RowsOf(a)) > replayed[a].entries
                      /\ DOMAIN replayed \subseteq DOMAIN actual
    BY DEF MismatchMeansNewRows
  <1>1. TypeOK /\ IsFiniteSet(JournalRefs)
    BY DEF PInv, IInv, TablesFinite
  <1>2. PICK first \in Snapshots, second \in Snapshots :
            /\ replayed = GroupedSums(first)
            /\ actual = GroupedBalances(second)
            /\ first \subseteq second
    BY DEF PInv, ReconInv
  <1>3. first \in SUBSET JournalRefs /\ second \in SUBSET JournalRefs
    BY DEF Snapshots
  <1>4. DOMAIN replayed = UsedIn(first) /\ DOMAIN actual = UsedIn(second)
    BY <1>1, <1>2, <1>3, GroupsAgree
  <1>5. UsedIn(first) \subseteq UsedIn(second)
    BY <1>2 DEF UsedIn
  <1>6. ASSUME NEW a \in Mismatches, a \in UsedIn(first)
        PROVE  Cardinality(RowsOf(a)) > replayed[a].entries
    <2> DEFINE R == RowsIn(first, a)
               T == RowsIn(second, a)
               U == RowsOf(a)
    <2>1. R \subseteq T /\ T \subseteq U /\ U \in SUBSET JournalRefs
      BY <1>2, <1>3 DEF RowsIn, RowsOf
    <2>2. IsFiniteSet(U) /\ Cardinality(U) \in Nat
      BY <1>1, <2>1, FS_Subset, FS_CardinalityType
    <2>3. replayed[a].entries = Cardinality(R)
      BY <1>1, <1>2, <1>3, <1>6, GroupTypes
    <2>4. Cardinality(R) \in Nat /\ Cardinality(R) <= Cardinality(U)
      <3>1. R \in SUBSET U
        BY <2>1
      <3> QED
        BY <2>2, <3>1, FS_Subset, FS_CardinalityType
    <2>5. SUFFICES ASSUME Cardinality(R) = Cardinality(U) PROVE FALSE
      BY <2>2, <2>3, <2>4
    <2>6. R = U
      <3>1. R \in SUBSET U
        BY <2>1
      <3> QED
        BY <2>2, <2>5, <3>1, FS_Subset
    <2>7. R = T
      BY <2>1, <2>6
    <2>8. /\ replayed[a].debits - replayed[a].credits = GroupedBalances(first)[a]
          /\ actual[a] = GroupedBalances(second)[a]
      BY <1>1, <1>2, <1>3, <1>6, GroupsAgree
    <2>9. GroupedBalances(first)[a] = GroupedBalances(second)[a]
      BY <1>5, <1>6, <2>7 DEF GroupedBalances
    <2>10. expected(a) = current(a)
      BY <1>4, <1>5, <1>6, <2>8, <2>9 DEF expected, current
    <2> QED
      BY <1>6, <2>10 DEF Mismatches
  <1> QED
    BY <1>4, <1>5, <1>6

LEMMA BalancesFollow == PInv => EveryReadBalances
  <1> SUFFICES ASSUME PInv PROVE EveryReadBalances
    OBVIOUS
  <1>1. TypeOK /\ IsFiniteSet(JournalRefs)
    BY DEF PInv, IInv, TablesFinite
  <1>2. PICK first \in Snapshots, second \in Snapshots :
            replayed = GroupedSums(first) /\ actual = GroupedBalances(second)
    BY DEF PInv, ReconInv
  <1>3. first \in SUBSET JournalRefs /\ second \in SUBSET JournalRefs
    BY DEF Snapshots
  <1>4. SumFunction(actual) = 0
    BY <1>1, <1>2, GroupsSumUp
  <1>5. SumFunction([a \in DOMAIN replayed |-> expected(a)]) = 0
    <2>1. DOMAIN replayed = UsedIn(first)
      BY <1>1, <1>2, <1>3, GroupsAgree
    <2>2. [a \in DOMAIN replayed |-> expected(a)]
              = [a \in UsedIn(first) |->
                    GroupedSums(first)[a].debits - GroupedSums(first)[a].credits]
      BY <1>2, <2>1 DEF expected
    <2> QED
      BY <1>1, <2>2, GroupsSumUp
  <1>6. report.global_imbalance = 0
    BY DEF PInv, ReconInv
  <1> QED
    BY <1>4, <1>5, <1>6 DEF EveryReadBalances

LEMMA RebuildFollows == PInv => RebuildHangsTogether
  <1> SUFFICES ASSUME PInv PROVE RebuildHangsTogether
    OBVIOUS
  <1>1. TypeOK /\ IsFiniteSet(JournalRefs)
    BY DEF PInv, IInv, TablesFinite
  <1>2. PICK refs \in Snapshots :
            /\ accounts = GroupedSums(refs)
            /\ rebuild = "rebuilt" => Cardinality(refs) <= invariants.entries
    BY DEF PInv, RebuildInv
  <1>3. refs \in SUBSET JournalRefs
    BY DEF Snapshots
  <1>4. DOMAIN accounts = UsedIn(refs)
    BY <1>1, <1>2, <1>3, GroupsAgree
  <1>5. SumFunction([a \in DOMAIN accounts |->
                        accounts[a].debits - accounts[a].credits]) = 0
    BY <1>1, <1>2, <1>4, GroupsSumUp
  <1>6. rebuild = "rebuilt" =>
            SumFunction([a \in DOMAIN accounts |-> accounts[a].entries])
                <= invariants.entries
    BY <1>1, <1>2, <1>4, GroupsSumUp
  <1>7. rebuild \in {"totals", "rebuilt"} => AccountsWithinEvents /\ EventsWithinSettlements
    BY DEF PInv, RebuildInv
  <1>8. invariants.debits = invariants.credits
    BY DEF PInv, RebuildInv
  <1> QED
    BY <1>5, <1>6, <1>7, <1>8
       DEF RebuildHangsTogether, AccountsWithinEvents, EventsWithinSettlements

-----------------------------------------------------------------------------
\* The steps.

\* No job writes the pipeline's tables.
LEMMA PipelineStep == PlatformNext => [Next]_vars
  BY DEF PlatformNext, Trading, StartJob, Job

LEMMA TablesNext == PInv /\ IInv' /\ [Next]_vars => TablesFinite'
  <1> SUFFICES ASSUME PInv, IInv', [Next]_vars PROVE TablesFinite'
    OBVIOUS
  <1>1. IInv /\ TablesFinite
    BY DEF PInv
  <1> QED
    BY <1>1, TablesStayFinite, JournalBalances DEF TablesFinite

\* What a run of reconciliation holds stays true while the pipeline writes.
LEMMA ReconStays == PInv /\ [Next]_vars /\ UNCHANGED recon_vars => ReconInv'
  <1> SUFFICES ASSUME PInv, [Next]_vars, UNCHANGED recon_vars PROVE ReconInv'
    OBVIOUS
  <1>1. PICK first \in Snapshots, second \in Snapshots :
            /\ replayed = GroupedSums(first)
            /\ actual = GroupedBalances(second)
            /\ recon \in {"compare", "totals"} => first \subseteq second
    BY DEF PInv, ReconInv
  <1>2. /\ first \in Snapshots' /\ second \in Snapshots'
        /\ replayed' = GroupedSums(first)' /\ actual' = GroupedBalances(second)'
    BY <1>1, SnapshotsStay DEF PInv, TablesFinite, recon_vars
  <1>3. recon' \in {"compare", "totals"} => first \subseteq second
    BY <1>1 DEF recon_vars
  <1> QED
    BY <1>2, <1>3 DEF PInv, ReconInv, recon_vars

\* Events are only added.
LEMMA EventsStay ==
    ASSUME IInv, TablesFinite, [Next]_vars, NEW e
    PROVE  /\ Cardinality(EventRefs(e)) \in Nat
           /\ Cardinality(EventRefs(e)') \in Nat
           /\ Cardinality(EventRefs(e)) <= Cardinality(EventRefs(e)')
  <1>1. IsFiniteSet(LogRefs') /\ LogRefs \subseteq LogRefs'
    BY TablesStayFinite
  <1>2. \A ref \in LogRefs : log'[ref[1]][ref[2]] = log[ref[1]][ref[2]]
    BY TablesStayFinite
  <1>3. EventRefs(e) \subseteq EventRefs(e)'
    BY <1>1, <1>2 DEF EventRefs
  <1>4. IsFiniteSet(EventRefs(e)')
    <2>1. EventRefs(e)' \in SUBSET LogRefs'
      BY DEF EventRefs
    <2> QED
      BY <1>1, <2>1, FS_Subset
  <1> QED
    BY <1>3, <1>4, FS_Subset, FS_CardinalityType

\* So does what rebuild_state holds.
LEMMA RebuildStays == PInv /\ [Next]_vars /\ UNCHANGED rebuild_vars => RebuildInv'
  <1> SUFFICES ASSUME PInv, [Next]_vars, UNCHANGED rebuild_vars PROVE RebuildInv'
    OBVIOUS
  <1>1. PICK refs \in Snapshots :
            /\ accounts = GroupedSums(refs)
            /\ rebuild = "rebuilt" => Cardinality(refs) <= invariants.entries
    BY DEF PInv, RebuildInv
  <1>2. refs \in Snapshots' /\ accounts' = GroupedSums(refs)'
    BY <1>1, SnapshotsStay DEF PInv, TablesFinite, rebuild_vars
  <1>3. rebuild' = "rebuilt" => Cardinality(refs) <= invariants'.entries
    BY <1>1 DEF rebuild_vars
  <1>4. rebuild' \in {"settlements", "totals", "rebuilt"} => AccountsWithinEvents'
    BY DEF PInv, RebuildInv, AccountsWithinEvents, rebuild_vars, Counts, AccountsOf
  <1>5. rebuild' \in {"totals", "rebuilt"} => EventsWithinSettlements'
    BY DEF PInv, RebuildInv, EventsWithinSettlements, rebuild_vars, Counts
  <1>6. ASSUME rebuild' = "settlements", NEW e \in DOMAIN Announces
        PROVE  Counts(event_counts, e)' <= Cardinality(EventRefs(e)')
    <2>1. Counts(event_counts, e)' = Counts(event_counts, e)
      BY DEF rebuild_vars, Counts
    <2>2. Counts(event_counts, e) \in Nat
      BY DEF PInv, RebuildInv, Counts
    <2>3. Counts(event_counts, e) <= Cardinality(EventRefs(e))
      BY <1>6 DEF PInv, RebuildInv, rebuild_vars
    <2> QED
      BY <2>1, <2>2, <2>3, EventsStay DEF PInv
  <1>7. /\ rebuild' \in {"idle", "events", "settlements", "totals", "rebuilt"}
        /\ event_counts' \in [DOMAIN event_counts' -> Nat]
        /\ DOMAIN event_counts' \subseteq EventTypes
        /\ settlement_states' \in [DOMAIN settlement_states' -> Nat]
        /\ DOMAIN settlement_states' \subseteq Statuses
        /\ invariants' \in [debits : Int, credits : Int, entries : Nat]
        /\ invariants'.debits = invariants'.credits
    BY DEF PInv, RebuildInv, rebuild_vars
  <1> QED
    BY <1>2, <1>3, <1>4, <1>5, <1>6, <1>7 DEF RebuildInv

\* A statement that reads the journal takes the snapshot that is all of it.
LEMMA WholeJournal ==
    ASSUME TablesFinite
    PROVE  /\ JournalRefs \in Snapshots /\ {} \in Snapshots
           /\ [a \in AccountsUsed |-> Sums(RowsOf(a))] = GroupedSums(JournalRefs)
           /\ account_balances = GroupedBalances(JournalRefs)
           /\ NoAccounts = GroupedSums({}) /\ NoAccounts = GroupedBalances({})
  <1>1. {} \in Snapshots
    BY SumEmpty DEF Snapshots
  <1>2. AccountsUsed = UsedIn(JournalRefs) /\ \A a : RowsOf(a) = RowsIn(JournalRefs, a)
    BY DEF AccountsUsed, UsedIn, RowsOf, RowsIn
  <1>3. [a \in AccountsUsed |-> Sums(RowsOf(a))] = GroupedSums(JournalRefs)
    BY <1>2 DEF GroupedSums
  <1>4. account_balances = GroupedBalances(JournalRefs)
    BY <1>2 DEF GroupedBalances, account_balances
  <1>5. NoAccounts = GroupedSums({}) /\ NoAccounts = GroupedBalances({})
    BY DEF NoAccounts, GroupedSums, GroupedBalances, UsedIn
  <1> QED
    BY <1>1, <1>3, <1>4, <1>5 DEF TablesFinite

\* Nothing that is read changes while a job's statement runs.
LEMMA ReadsOnly ==
    ASSUME UNCHANGED vars
    PROVE  /\ Snapshots' = Snapshots
           /\ \A refs : /\ GroupedSums(refs)' = GroupedSums(refs)
                        /\ GroupedBalances(refs)' = GroupedBalances(refs)
           /\ \A e : EventRefs(e)' = EventRefs(e)
  <1>1. /\ JournalRefs' = JournalRefs /\ LogRefs' = LogRefs
        /\ debit' = debit /\ credit' = credit
        /\ \A ref : Row(ref)' = Row(ref)
    BY DEF vars, JournalRefs, LogRefs, Row, debit, credit
  <1>2. balance' = balance
    BY <1>1 DEF balance
  <1>3. \A refs, a : RowsIn(refs, a)' = RowsIn(refs, a)
    BY <1>1 DEF RowsIn
  <1>4. \A refs : UsedIn(refs)' = UsedIn(refs)
    BY <1>1 DEF UsedIn
  <1>5. \A refs : Sums(refs)' = Sums(refs)
    BY <1>1 DEF Sums
  <1>6. Snapshots' = Snapshots
    BY <1>1 DEF Snapshots
  <1>7. \A refs : /\ GroupedSums(refs)' = GroupedSums(refs)
                  /\ GroupedBalances(refs)' = GroupedBalances(refs)
    BY <1>2, <1>3, <1>4, <1>5 DEF GroupedSums, GroupedBalances
  <1>8. \A e : EventRefs(e)' = EventRefs(e)
    BY <1>1 DEF EventRefs, vars
  <1> QED
    BY <1>6, <1>7, <1>8

\* Each statement of a reconciliation run.
LEMMA ReconNext ==
    ASSUME PInv, UNCHANGED vars, replay_journal \/ ReconStep
    PROVE  ReconInv'
  <1>1. PICK first \in Snapshots, second \in Snapshots :
            /\ replayed = GroupedSums(first)
            /\ actual = GroupedBalances(second)
            /\ recon \in {"compare", "totals"} => first \subseteq second
    BY DEF PInv, ReconInv
  <1>2. first \in Snapshots' /\ second \in Snapshots'
    BY <1>1, ReadsOnly
  <1>3. PICK whole \in Snapshots :
            /\ whole = JournalRefs /\ whole \in Snapshots' /\ {} \in Snapshots'
            /\ first \subseteq whole
    BY <1>1, WholeJournal, ReadsOnly DEF PInv, Snapshots
  <1>4. TypeOK /\ IsFiniteSet(JournalRefs)
    BY DEF PInv, IInv, TablesFinite
  <1>5. CASE replay_journal
    <2>1. replayed' = GroupedSums(whole)' /\ actual' = GroupedBalances(second)'
      BY <1>1, <1>3, <1>5, WholeJournal, ReadsOnly DEF replay_journal, PInv
    <2>2. recon' = "view"
      BY <1>5 DEF replay_journal
    <2>3. UNCHANGED <<reconciliation_results, report>>
      BY <1>5 DEF replay_journal
    <2> QED
      BY <1>2, <1>3, <2>1, <2>2, <2>3 DEF ReconInv, PInv
  <1>6. CASE read_balances
    <2>1. replayed' = GroupedSums(first)' /\ actual' = GroupedBalances(whole)'
      BY <1>1, <1>3, <1>6, WholeJournal, ReadsOnly DEF read_balances, PInv
    <2>2. recon' = "compare" /\ UNCHANGED <<reconciliation_results, report>>
      BY <1>6 DEF read_balances
    <2> QED
      BY <1>2, <1>3, <2>1, <2>2 DEF ReconInv, PInv
  <1>7. CASE record_results
    <2> DEFINE verdict == [a \in all_accounts |->
                              IF a \in Mismatches THEN "MISMATCH" ELSE "MATCH"]
    <2>1. replayed' = GroupedSums(first)' /\ actual' = GroupedBalances(second)'
      BY <1>1, <1>7, ReadsOnly DEF record_results
    <2>2. recon' = "totals" /\ recon = "compare" /\ UNCHANGED report
      BY <1>7 DEF record_results
    <2>3. all_accounts \in SUBSET Accounts
      <3>1. first \in SUBSET JournalRefs /\ second \in SUBSET JournalRefs
        BY DEF Snapshots
      <3>2. UsedIn(first) \subseteq Accounts /\ UsedIn(second) \subseteq Accounts
        BY <1>4, <3>1, GroupTypes
      <3>3. DOMAIN replayed = UsedIn(first) /\ DOMAIN actual = UsedIn(second)
        BY <1>1, <1>4, <3>1, GroupsAgree
      <3> QED
        BY <3>2, <3>3 DEF all_accounts
    <2>4. verdict \in Verdicts
      <3>1. verdict \in [all_accounts -> {"MATCH", "MISMATCH"}]
        OBVIOUS
      <3> HIDE DEF verdict
      <3> QED
        BY <2>3, <3>1 DEF Verdicts
    <2>5. reconciliation_results' = Append(reconciliation_results, verdict)
      BY <1>7 DEF record_results
    <2>6. reconciliation_results' \in Seq(Verdicts)
      <3>1. reconciliation_results \in Seq(Verdicts)
        BY DEF PInv, ReconInv
      <3> HIDE DEF verdict
      <3> QED
        BY <2>4, <2>5, <3>1
    <2>7. first \subseteq second
      BY <1>1, <2>2
    <2> QED
      BY <1>2, <2>1, <2>2, <2>6, <2>7 DEF ReconInv, PInv
  <1>8. ASSUME replayed' = NoAccounts, actual' = NoAccounts, recon' = "idle",
               UNCHANGED reconciliation_results,
               report' \in [status : {"NONE", "PASS", "FAIL"}, global_imbalance : {0}]
        PROVE  ReconInv'
    <2>1. replayed' = GroupedSums({})' /\ actual' = GroupedBalances({})'
      BY <1>8, WholeJournal, ReadsOnly DEF PInv
    <2> QED
      BY <1>3, <1>8, <2>1 DEF ReconInv, PInv
  <1>9. CASE check_totals
    <2>1. Sums(JournalRefs).debits - Sums(JournalRefs).credits = 0
      <3>1. SumFunctionOnSet(debit, JournalRefs) = SumFunctionOnSet(credit, JournalRefs)
        BY DEF PInv, TablesFinite, Snapshots
      <3>2. SumFunctionOnSet(debit, JournalRefs) \in Int
        BY <1>4, RowType, SumType
      <3> QED
        BY <3>1, <3>2 DEF Sums
    <2>2. report' \in [status : {"NONE", "PASS", "FAIL"}, global_imbalance : {0}]
      BY <1>9, <2>1 DEF check_totals
    <2> QED
      BY <1>8, <1>9, <2>2 DEF check_totals
  <1>10. CASE ReconFails
    BY <1>8, <1>10 DEF ReconFails, PInv, ReconInv
  <1> QED
    BY <1>5, <1>6, <1>7, <1>9, <1>10 DEF ReconStep

\* The count of the events, and what it is worth: at the moment it is taken it
\* covers the accounts read before it.
LEMMA EventsCounted ==
    ASSUME PInv, rebuild_events, UNCHANGED vars
    PROVE  /\ \A e : Counts(event_counts', e) = Cardinality(EventRefs(e))
           /\ event_counts' \in [DOMAIN event_counts' -> Nat]
           /\ DOMAIN event_counts' \subseteq EventTypes
           /\ AccountsWithinEvents'
  <1> DEFINE value == [ref \in LogRefs |-> log[ref[1]][ref[2]]]
  <1>1. event_counts' = CountBy(value) /\ UNCHANGED accounts
    BY DEF rebuild_events
  <1>2. IsFiniteSet(DOMAIN value) /\ DOMAIN value = LogRefs
    BY DEF PInv, TablesFinite
  <1>3. \A e : Counts(event_counts', e) = Cardinality(EventRefs(e))
    <2>1. \A e : {ref \in DOMAIN value : value[ref] = e} = EventRefs(e)
      BY DEF EventRefs
    <2> HIDE DEF value
    <2> QED
      BY <1>1, <1>2, <2>1, CountOf
  <1>4. \A e : IsFiniteSet(EventRefs(e)) /\ Cardinality(EventRefs(e)) \in Nat
    BY FS_Subset, FS_CardinalityType DEF EventRefs, PInv, TablesFinite
  <1>5. DOMAIN event_counts' = Range(value)
    BY <1>1 DEF CountBy
  <1>6. event_counts' \in [DOMAIN event_counts' -> Nat]
    <2>1. event_counts' = [e \in Range(value) |-> event_counts'[e]]
      <3> HIDE DEF value
      <3> QED
        BY <1>1 DEF CountBy
    <2>2. \A e \in Range(value) : event_counts'[e] \in Nat
      BY <1>3, <1>4, <1>5 DEF Counts
    <2> QED
      BY <2>1, <2>2
  <1>7. Range(value) \subseteq EventTypes
    <2>1. ASSUME NEW ref \in LogRefs PROVE log[ref[1]][ref[2]] \in EventTypes
      <3>1. PICK k \in Keys : \E i \in DOMAIN log[k] : ref = <<k, i>>
        BY RefsListed
      <3>2. PICK i \in DOMAIN log[k] : ref = <<k, i>>
        BY <3>1
      <3>3. log[k] \in Seq(EventTypes)
        BY DEF PInv, IInv, TypeOK
      <3> QED
        BY <3>2, <3>3
    <2> QED
      BY <2>1 DEF Range
  <1>8. ASSUME NEW a \in DOMAIN accounts
        PROVE  \E e \in PostedEvents :
                   /\ \E k \in Keys : a \in AccountsOf(k, e)
                   /\ accounts[a].entries <= Counts(event_counts', e)
    <2>1. PICK refs \in Snapshots : accounts = GroupedSums(refs)
      BY DEF PInv, RebuildInv
    <2>2. /\ TypeOK /\ IsFiniteSet(JournalRefs) /\ refs \in SUBSET JournalRefs
      BY DEF PInv, IInv, TablesFinite, Snapshots
    <2>3. a \in UsedIn(refs) /\ accounts[a].entries = Cardinality(RowsIn(refs, a))
      BY <1>8, <2>1, <2>2, GroupTypes, GroupsAgree
    <2>4. a \in AccountsUsed /\ RowsIn(refs, a) \in SUBSET RowsOf(a)
      BY <2>2, <2>3 DEF UsedIn, AccountsUsed, RowsIn, RowsOf
    <2>5. /\ Cardinality(RowsIn(refs, a)) <= Cardinality(RowsOf(a))
          /\ Cardinality(RowsIn(refs, a)) \in Nat /\ Cardinality(RowsOf(a)) \in Nat
      <3>1. IsFiniteSet(RowsOf(a))
        BY <2>2, FS_Subset DEF RowsOf
      <3> QED
        BY <2>4, <3>1, FS_Subset, FS_CardinalityType
    <2>6. PICK e \in PostedEvents :
              /\ \E k \in Keys : a \in AccountsOf(k, e)
              /\ Cardinality(RowsOf(a)) <= Cardinality(EventRefs(e))
      BY <2>4, RowsWithinEvents DEF PInv
    <2>7. accounts[a].entries <= Counts(event_counts', e)
      BY <1>3, <1>4, <2>3, <2>5, <2>6
    <2> QED
      BY <2>6, <2>7
  <1>9. AccountsWithinEvents'
    BY <1>1, <1>8 DEF AccountsWithinEvents, Counts, AccountsOf
  <1> QED
    BY <1>3, <1>5, <1>6, <1>7, <1>9

\* The count of the instructions, taken later: by then each event counted has
\* one.
LEMMA SettlementsCounted ==
    ASSUME PInv, rebuild_settlements, UNCHANGED vars
    PROVE  /\ settlement_states' \in [DOMAIN settlement_states' -> Nat]
           /\ DOMAIN settlement_states' \subseteq Statuses
           /\ EventsWithinSettlements'
  <1> DEFINE value == [ref \in SettlementRefs |-> settlements[ref[1]][ref[2]]]
  <1>1. settlement_states' = CountBy(value) /\ UNCHANGED event_counts
    BY DEF rebuild_settlements
  <1>2. IsFiniteSet(DOMAIN value) /\ DOMAIN value = SettlementRefs
    BY DEF PInv, TablesFinite
  <1>3. \A s : Counts(CountBy(value), s) \in Nat
    <2> SUFFICES ASSUME NEW s PROVE Counts(CountBy(value), s) \in Nat
      OBVIOUS
    <2> DEFINE C == {ref \in DOMAIN value : value[ref] = s}
    <2>1. C \in SUBSET DOMAIN value
      OBVIOUS
    <2>2. Cardinality(C) \in Nat
      <3> HIDE DEF C
      <3> QED
        BY <1>2, <2>1, FS_Subset, FS_CardinalityType
    <2>3. Counts(CountBy(value), s) = Cardinality(C)
      <3> HIDE DEF value
      <3> QED
        BY <1>2, CountOf
    <2> QED
      BY <2>2, <2>3
  <1>4. settlement_states' \in [DOMAIN settlement_states' -> Nat]
    <2> HIDE DEF value
    <2>1. \A s \in Range(value) : CountBy(value)[s] \in Nat
      BY <1>3 DEF Counts, CountBy
    <2> QED
      BY <1>1, <2>1 DEF CountBy
  <1>5. DOMAIN settlement_states' \subseteq Statuses
    <2>1. ASSUME NEW ref \in SettlementRefs PROVE settlements[ref[1]][ref[2]] \in Statuses
      <3>1. PICK k \in Keys : \E i \in DOMAIN settlements[k] : ref = <<k, i>>
        BY RefsListed
      <3>2. PICK i \in DOMAIN settlements[k] : ref = <<k, i>>
        BY <3>1
      <3>3. settlements[k] \in Seq(Statuses)
        BY DEF PInv, IInv, TypeOK
      <3> QED
        BY <3>2, <3>3
    <2> QED
      BY <1>1, <2>1 DEF CountBy, Range
  <1>6. ASSUME NEW e \in DOMAIN Announces
        PROVE  Counts(event_counts, e) <=
                   SumFunction([s \in AtOrPast(Announces[e]) |->
                                   Counts(settlement_states', s)])
    <2>1. Counts(event_counts, e) <= Cardinality(EventRefs(e))
      BY DEF PInv, RebuildInv, rebuild_settlements
    <2>2. Cardinality(EventRefs(e)) <= Cardinality(Reached(Announces[e]))
      BY EventsWithinRows DEF PInv
    <2>3. SumFunction([s \in AtOrPast(Announces[e]) |-> Counts(settlement_states', s)])
              = Cardinality(Reached(Announces[e]))
      <3>1. Announces[e] \in Statuses
        BY DEF Announces, Statuses
      <3> QED
        BY <1>1, <3>1, ReachedCounted DEF PInv, IInv
    <2>4. /\ Counts(event_counts, e) \in Nat
          /\ Cardinality(EventRefs(e)) \in Nat
          /\ Cardinality(Reached(Announces[e])) \in Nat
      <3>1. Counts(event_counts, e) \in Nat
        BY DEF PInv, RebuildInv, Counts
      <3>2. IsFiniteSet(EventRefs(e)) /\ IsFiniteSet(Reached(Announces[e]))
        BY FS_Subset DEF EventRefs, Reached, PInv, TablesFinite
      <3> QED
        BY <3>1, <3>2, FS_CardinalityType
    <2> QED
      BY <2>1, <2>2, <2>3, <2>4
  <1>7. EventsWithinSettlements'
    BY <1>1, <1>6 DEF EventsWithinSettlements, Counts
  <1> QED
    BY <1>4, <1>5, <1>7

\* Each statement of rebuild_state.
LEMMA RebuildNext ==
    ASSUME PInv, UNCHANGED vars, rebuild_accounts \/ RebuildStep
    PROVE  RebuildInv'
  <1>1. PICK refs \in Snapshots :
            /\ accounts = GroupedSums(refs)
            /\ rebuild = "rebuilt" => Cardinality(refs) <= invariants.entries
    BY DEF PInv, RebuildInv
  <1>2. refs \in Snapshots' /\ GroupedSums(refs)' = GroupedSums(refs)
    BY <1>1, ReadsOnly
  <1>3. TypeOK /\ IsFiniteSet(JournalRefs)
    BY DEF PInv, IInv, TablesFinite
  <1>4. CASE rebuild_accounts
    <2>1. PICK whole \in Snapshots' : whole = JournalRefs
      BY WholeJournal, ReadsOnly DEF PInv
    <2>2. accounts' = GroupedSums(whole)'
      BY <1>4, <2>1, WholeJournal, ReadsOnly DEF rebuild_accounts, PInv
    <2>3. rebuild' = "events" /\ UNCHANGED <<event_counts, settlement_states, invariants>>
      BY <1>4 DEF rebuild_accounts, NextStatement
    <2> QED
      BY <2>1, <2>2, <2>3 DEF PInv, RebuildInv
  <1>5. CASE rebuild_events
    <2>1. rebuild' = "settlements" /\ UNCHANGED <<accounts, settlement_states, invariants>>
      BY <1>5 DEF rebuild_events, NextStatement
    <2>2. \A e : Counts(event_counts, e)' <= Cardinality(EventRefs(e)')
      <3> SUFFICES ASSUME NEW e PROVE Counts(event_counts, e)' <= Cardinality(EventRefs(e)')
        OBVIOUS
      <3>1. Counts(event_counts, e)' = Cardinality(EventRefs(e))
        BY <1>5, EventsCounted DEF Counts
      <3>2. EventRefs(e)' = EventRefs(e) /\ IsFiniteSet(EventRefs(e))
        BY ReadsOnly, FS_Subset DEF EventRefs, PInv, TablesFinite
      <3> QED
        BY <3>1, <3>2, FS_CardinalityType
    <2>3. accounts' = GroupedSums(refs)'
      BY <1>1, <1>2, <2>1
    <2>4. AccountsWithinEvents'
      BY <1>5, EventsCounted
    <2>5. event_counts' \in [DOMAIN event_counts' -> Nat] /\ DOMAIN event_counts' \subseteq EventTypes
      BY <1>5, EventsCounted
    <2> QED
      BY <1>2, <2>1, <2>2, <2>3, <2>4, <2>5 DEF PInv, RebuildInv
  <1>6. CASE rebuild_settlements
    <2>1. rebuild' = "totals" /\ UNCHANGED <<accounts, event_counts, invariants>>
      BY <1>6 DEF rebuild_settlements, NextStatement
    <2>2. AccountsWithinEvents'
      BY <1>6, <2>1
         DEF PInv, RebuildInv, AccountsWithinEvents, Counts, AccountsOf, rebuild_settlements
    <2>3. accounts' = GroupedSums(refs)'
      BY <1>1, <1>2, <2>1
    <2>4. /\ EventsWithinSettlements'
          /\ settlement_states' \in [DOMAIN settlement_states' -> Nat]
          /\ DOMAIN settlement_states' \subseteq Statuses
      BY <1>6, SettlementsCounted
    <2> QED
      BY <1>2, <2>1, <2>2, <2>3, <2>4 DEF PInv, RebuildInv
  <1>7. CASE rebuild_totals
    <2>1. /\ rebuild = "totals" /\ rebuild' = "rebuilt" /\ invariants' = Sums(JournalRefs)
          /\ UNCHANGED <<accounts, event_counts, settlement_states>>
      BY <1>7 DEF rebuild_totals, NextStatement
    <2>2. AccountsWithinEvents' /\ EventsWithinSettlements'
      BY <2>1
         DEF PInv, RebuildInv, AccountsWithinEvents, EventsWithinSettlements, Counts, AccountsOf
    <2>3. /\ invariants' \in [debits : Int, credits : Int, entries : Nat]
          /\ invariants'.debits = invariants'.credits
          /\ invariants'.entries = Cardinality(JournalRefs)
      <3>1. SumFunctionOnSet(debit, JournalRefs) = SumFunctionOnSet(credit, JournalRefs)
        BY DEF PInv, TablesFinite, Snapshots
      <3>2. SumFunctionOnSet(debit, JournalRefs) \in Int
        BY <1>3, RowType, SumType
      <3>3. Cardinality(JournalRefs) \in Nat
        BY <1>3, FS_CardinalityType
      <3> QED
        BY <2>1, <3>1, <3>2, <3>3 DEF Sums
    <2>4. Cardinality(refs) <= invariants'.entries
      BY <1>3, <2>3, FS_Subset DEF Snapshots
    <2>5. accounts' = GroupedSums(refs)'
      BY <1>1, <1>2, <2>1
    <2> QED
      BY <1>2, <2>1, <2>2, <2>3, <2>4, <2>5 DEF PInv, RebuildInv
  <1>8. CASE RebuildReturns
    <2>1. {} \in Snapshots' /\ accounts' = GroupedSums({})'
      BY <1>8, WholeJournal, ReadsOnly DEF RebuildReturns, PInv
    <2>2. /\ rebuild' = "idle"
          /\ DOMAIN event_counts' = {} /\ event_counts' \in [DOMAIN event_counts' -> Nat]
          /\ DOMAIN settlement_states' = {}
          /\ settlement_states' \in [DOMAIN settlement_states' -> Nat]
          /\ invariants' \in [debits : Int, credits : Int, entries : Nat]
          /\ invariants'.debits = invariants'.credits
      BY <1>8 DEF RebuildReturns, NoAccounts, NoTotals
    <2> QED
      BY <2>1, <2>2 DEF RebuildInv
  <1> QED
    BY <1>4, <1>5, <1>6, <1>7, <1>8 DEF RebuildStep

\* Each step of replay(bus).
LEMMA ReplayNext ==
    ASSUME PInv, replay \/ ReplayStep \/ UNCHANGED replay_vars
    PROVE  ReplayInv'
  BY DEF PInv, ReplayInv, replay, ReplayStep, ReplayRow, ReplayReturns, replay_vars

-----------------------------------------------------------------------------
\* The theorems.

LEMMA PlatformStart == PlatformInit => PInv
  <1> SUFFICES ASSUME PlatformInit PROVE PInv
    OBVIOUS
  <1>1. Init /\ IInv /\ JInv
    BY InvInit, LedgerInit DEF PlatformInit
  <1>2. JournalRefs = {} /\ LogRefs = {} /\ SettlementRefs = {}
    BY <1>1, RefsListed DEF Init
  <1>3. TablesFinite
    BY <1>2, FS_EmptySet, SumEmpty DEF TablesFinite, Snapshots
  <1>4. ReconInv
    <2>1. {} \in Snapshots /\ NoAccounts = GroupedSums({}) /\ NoAccounts = GroupedBalances({})
      BY <1>3, WholeJournal
    <2>2. reconciliation_results \in Seq(Verdicts)
      BY DEF PlatformInit, ReconInit
    <2> QED
      BY <2>1, <2>2 DEF PlatformInit, ReconInit, ReconInv, NoReport
  <1>5. RebuildInv
    <2>1. {} \in Snapshots /\ NoAccounts = GroupedSums({})
      BY <1>3, WholeJournal
    <2> QED
      BY <2>1 DEF PlatformInit, ReplayInit, RebuildInv, NoAccounts, NoTotals
  <1>6. ReplayInv /\ jobs \in 0 .. MaxJobs
    BY PlatformAssumption DEF PlatformInit, ReplayInit, ReplayInv
  <1> QED
    BY <1>1, <1>3, <1>4, <1>5, <1>6 DEF PInv

LEMMA PlatformStep == PInv /\ [PlatformNext]_platform_vars => PInv'
  <1> SUFFICES ASSUME PInv, [PlatformNext]_platform_vars PROVE PInv'
    OBVIOUS
  <1>1. [Next]_vars
    BY PipelineStep DEF platform_vars
  <1>2. IInv' /\ JInv'
    BY <1>1, InvNext, LedgerNext DEF PInv
  <1>3. TablesFinite'
    BY <1>1, <1>2, TablesNext
  <1>4. ReconInv'
    <2>1. CASE UNCHANGED recon_vars
      BY <1>1, <2>1, ReconStays
    <2>2. CASE UNCHANGED vars /\ (replay_journal \/ ReconStep)
      BY <2>2, ReconNext
    <2> QED
      BY <2>1, <2>2 DEF PlatformNext, Trading, StartJob, Job, platform_vars, job_vars
  <1>5. RebuildInv'
    <2>1. CASE UNCHANGED rebuild_vars
      BY <1>1, <2>1, RebuildStays
    <2>2. CASE UNCHANGED vars /\ (rebuild_accounts \/ RebuildStep)
      BY <2>2, RebuildNext
    <2> QED
      BY <2>1, <2>2 DEF PlatformNext, Trading, StartJob, Job, platform_vars, job_vars
  <1>6. ReplayInv'
    <2>1. replay \/ ReplayStep \/ UNCHANGED replay_vars
      BY DEF PlatformNext, Trading, StartJob, Job, platform_vars, job_vars
    <2> QED
      BY <2>1, ReplayNext
  <1>7. (jobs \in 0 .. MaxJobs)'
    BY PlatformAssumption
       DEF PInv, PlatformNext, Trading, StartJob, Job, platform_vars, job_vars
  <1> QED
    BY <1>2, <1>3, <1>4, <1>5, <1>6, <1>7 DEF PInv

\* In every reachable state what a job holds is of snapshots of the journal.
THEOREM PlatformInvariance == PlatformSpec => []PInv
  BY PlatformStart, PlatformStep, PTL DEF PlatformSpec

\* What the jobs keep has its type.
THEOREM PlatformTypes == PlatformSpec => []PlatformTypeOK
  BY PlatformInvariance, TypesFollow, PTL

\* A mismatch is never invented: only an account with rows committed after the
\* first read differs in the second.
THEOREM MismatchesAreNewRows == PlatformSpec => []MismatchMeansNewRows
  BY PlatformInvariance, MismatchFollows, PTL

\* Each read of a reconciliation run balances over all accounts, though the
\* ledger is written between the reads.
THEOREM ReadsBalance == PlatformSpec => []EveryReadBalances
  BY PlatformInvariance, BalancesFollow, PTL

\* The four snapshots of rebuild_state fit together.
THEOREM RebuildIsOneStory == PlatformSpec => []RebuildHangsTogether
  BY PlatformInvariance, RebuildFollows, PTL
=============================================================================
