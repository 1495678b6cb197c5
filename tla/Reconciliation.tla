---------------------------- MODULE Reconciliation ----------------------------
(***************************************************************************)
(* services/reconciliation/main.py: one run sums the journal per account,  *)
(* reads the account_balances view, compares, commits a result row per     *)
(* account, and then sums the whole journal.  Each read is a statement of  *)
(* its own under READ COMMITTED, so the pipeline may post between them.    *)
(* Amounts are exact here: the tolerance of the comparison is for the      *)
(* floats the sums are converted to.                                       *)
(***************************************************************************)
EXTENDS TradePipeline, FiniteSets, Functions

VARIABLES
    recon,      \* the next statement of run_reconciliation, or "idle"
    replayed,   \* step 1: the sums and the count of each account's rows
    actual,     \* step 2: each account's balance in the view
    reconciliation_results,     \* one function per run, append-only
    report      \* what the last run returned

recon_vars == <<recon, replayed, actual, reconciliation_results, report>>

\* A dictionary without accounts.
NoAccounts == [a \in {} |-> 0]

NoReport == [status |-> "NONE", global_imbalance |-> 0]

ReconInit ==
    /\ recon = "idle"
    /\ replayed = NoAccounts
    /\ actual = NoAccounts
    /\ reconciliation_results = <<>>
    /\ report = NoReport

-----------------------------------------------------------------------------
\* Reading the journal.

\* The rows of journal_entries, over all trades.
JournalRefs == UNION {{k} \X DOMAIN journal[k] : k \in Keys}

Row(ref) == journal[ref[1]][ref[2]]

RowsOf(a) == {ref \in JournalRefs : Row(ref).account = a}

\* COALESCE(debit, 0), COALESCE(credit, 0) and their difference, row by row.
debit ==
    [ref \in JournalRefs |-> IF Row(ref).column = "debit" THEN Row(ref).amount ELSE 0]
credit ==
    [ref \in JournalRefs |-> IF Row(ref).column = "credit" THEN Row(ref).amount ELSE 0]
balance == [ref \in JournalRefs |-> debit[ref] - credit[ref]]

\* The accounts GROUP BY account finds.
AccountsUsed == {Row(ref).account : ref \in JournalRefs}

Sums(refs) ==
    [debits  |-> SumFunctionOnSet(debit, refs),
     credits |-> SumFunctionOnSet(credit, refs),
     entries |-> Cardinality(refs)]

\* Mutant: the view leaves the credits out.
account_balances_Debits ==
    [a \in AccountsUsed |-> SumFunctionOnSet(debit, RowsOf(a))]

account_balances ==
    [a \in AccountsUsed |-> SumFunctionOnSet(balance, RowsOf(a))]

-----------------------------------------------------------------------------
\* Step 1.
replay_journal ==
    /\ recon = "idle"
    /\ replayed' = [a \in AccountsUsed |-> Sums(RowsOf(a))]
    /\ recon' = "view"
    /\ UNCHANGED <<actual, reconciliation_results, report>>

\* Step 2, a later snapshot.
read_balances ==
    /\ recon = "view"
    /\ actual' = account_balances
    /\ recon' = "compare"
    /\ UNCHANGED <<replayed, reconciliation_results, report>>

all_accounts == DOMAIN replayed \cup DOMAIN actual

\* replayed.get(account, {}).get("balance", 0.0), actual.get(account, 0.0)
expected(a) ==
    IF a \in DOMAIN replayed THEN replayed[a].debits - replayed[a].credits ELSE 0
current(a) == IF a \in DOMAIN actual THEN actual[a] ELSE 0

Mismatches == {a \in all_accounts : expected(a) # current(a)}

\* Step 3: every comparison is recorded, in one transaction.
record_results ==
    /\ recon = "compare"
    /\ reconciliation_results' =
           Append(reconciliation_results,
                  [a \in all_accounts |->
                      IF a \in Mismatches THEN "MISMATCH" ELSE "MATCH"])
    /\ recon' = "totals"
    /\ UNCHANGED <<replayed, actual, report>>

\* Steps 4 and 5: the imbalance is reported; the status does not look at it.
check_totals ==
    LET totals == Sums(JournalRefs)
    IN  /\ recon = "totals"
        /\ report' = [status           |-> IF Mismatches = {} THEN "PASS" ELSE "FAIL",
                      global_imbalance |-> totals.debits - totals.credits]
        /\ recon' = "idle"
        /\ replayed' = NoAccounts
        /\ actual' = NoAccounts
        /\ UNCHANGED reconciliation_results

\* A statement raises or the process dies: what was not committed is gone, and
\* the caller gets no report.
ReconFails ==
    /\ recon # "idle"
    /\ recon' = "idle"
    /\ replayed' = NoAccounts
    /\ actual' = NoAccounts
    /\ UNCHANGED <<reconciliation_results, report>>

ReconStep == read_balances \/ record_results \/ check_totals \/ ReconFails

-----------------------------------------------------------------------------
\* Safety, in any module that runs these steps beside the pipeline.

ReconTypeOK ==
    /\ recon \in {"idle", "view", "compare", "totals"}
    /\ DOMAIN replayed \subseteq Accounts
    /\ \A a \in DOMAIN replayed :
           replayed[a] \in [debits : Int, credits : Int, entries : Nat \ {0}]
    /\ actual \in [DOMAIN actual -> Int]
    /\ DOMAIN actual \subseteq Accounts
    /\ \A i \in DOMAIN reconciliation_results :
           reconciliation_results[i] \in
               [DOMAIN reconciliation_results[i] -> {"MATCH", "MISMATCH"}]
    /\ report \in [status : {"NONE", "PASS", "FAIL"}, global_imbalance : Int]

\* Whatever is posted between the two reads, a mismatch is never invented: an
\* account differs only if rows of it were committed after the first read, and
\* an account of the first read is never missing from the second.
MismatchMeansNewRows ==
    recon \in {"compare", "totals"} =>
        /\ \A a \in Mismatches :
               a \in DOMAIN replayed => Cardinality(RowsOf(a)) > replayed[a].entries
        /\ DOMAIN replayed \subseteq DOMAIN actual

\* Every snapshot the run takes is of whole postings: although the ledger is
\* written meanwhile, each read balances over all accounts, and the imbalance
\* that the verdict ignores is never there.
EveryReadBalances ==
    /\ recon # "idle" => SumFunction([a \in DOMAIN replayed |-> expected(a)]) = 0
    /\ recon \in {"compare", "totals"} => SumFunction(actual) = 0
    /\ report.global_imbalance = 0

-----------------------------------------------------------------------------
\* What the documentation says and the code does not do.

\* services/reconciliation/main.py:20: "Any discrepancy means data corruption
\* or logic error."  No row is ever changed or unbalanced here, so no run may
\* record a discrepancy.
DiscrepancyMeansCorruption ==
    \A i \in DOMAIN reconciliation_results :
        \A a \in DOMAIN reconciliation_results[i] :
            reconciliation_results[i][a] = "MATCH"
=============================================================================
