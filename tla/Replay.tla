-------------------------------- MODULE Replay --------------------------------
(***************************************************************************)
(* core/replay.py.  rebuild_state() derives the system's state by four     *)
(* statements, each its own snapshot, while the pipeline writes.           *)
(* replay(bus) turns every row of event_log back into an Event and         *)
(* publishes it; what is published is a duplicate of the row it came from. *)
(***************************************************************************)
EXTENDS Reconciliation

VARIABLES
    rebuild,            \* the next statement of rebuild_state, or "idle"
    accounts,           \* 1: the sums and the count of each account's rows
    event_counts,       \* 2: how many events of each type
    settlement_states,  \* 3: how many instructions in each status
    invariants,         \* 4: the totals of the whole journal
    replaying,          \* "idle", "running", or how the last replay(bus) ended
    fetched,            \* the rows replay(bus) has yet to publish
    count               \* those it has published

rebuild_vars == <<rebuild, accounts, event_counts, settlement_states, invariants>>
replay_vars == <<replaying, fetched, count>>

NoTotals == [debits |-> 0, credits |-> 0, entries |-> 0]

ReplayInit ==
    /\ rebuild = "idle"
    /\ accounts = NoAccounts
    /\ event_counts = NoAccounts
    /\ settlement_states = NoAccounts
    /\ invariants = NoTotals
    /\ replaying = "idle"
    /\ fetched = {}
    /\ count = 0

-----------------------------------------------------------------------------
\* rebuild_state

\* The rows of event_log and of settlement_instructions, over all trades.
LogRefs == UNION {{k} \X DOMAIN log[k] : k \in Keys}
SettlementRefs == UNION {{k} \X DOMAIN settlements[k] : k \in Keys}

\* SELECT value, COUNT(*) ... GROUP BY value
CountBy(value) ==
    [v \in Range(value) |-> Cardinality({ref \in DOMAIN value : value[ref] = v})]

\* Mutant: the settlements are counted before the events.
NextStatement_Swapped ==
    [accounts    |-> "settlements",
     settlements |-> "events",
     events      |-> "totals",
     totals      |-> "rebuilt"]

\* The order of the statements.
NextStatement ==
    [accounts    |-> "events",
     events      |-> "settlements",
     settlements |-> "totals",
     totals      |-> "rebuilt"]

rebuild_accounts ==
    /\ rebuild = "idle"
    /\ accounts' = [a \in AccountsUsed |-> Sums(RowsOf(a))]
    /\ rebuild' = NextStatement["accounts"]
    /\ UNCHANGED <<event_counts, settlement_states, invariants>>

rebuild_events ==
    /\ rebuild = "events"
    /\ event_counts' = CountBy([ref \in LogRefs |-> log[ref[1]][ref[2]]])
    /\ rebuild' = NextStatement["events"]
    /\ UNCHANGED <<accounts, settlement_states, invariants>>

rebuild_settlements ==
    /\ rebuild = "settlements"
    /\ settlement_states' =
           CountBy([ref \in SettlementRefs |-> settlements[ref[1]][ref[2]]])
    /\ rebuild' = NextStatement["settlements"]
    /\ UNCHANGED <<accounts, event_counts, invariants>>

rebuild_totals ==
    /\ rebuild = "totals"
    /\ invariants' = Sums(JournalRefs)
    /\ rebuild' = NextStatement["totals"]
    /\ UNCHANGED <<accounts, event_counts, settlement_states>>

\* The state is returned, or a statement raised.
RebuildReturns ==
    /\ rebuild # "idle"
    /\ rebuild' = "idle"
    /\ accounts' = NoAccounts
    /\ event_counts' = NoAccounts
    /\ settlement_states' = NoAccounts
    /\ invariants' = NoTotals

RebuildStep ==
    rebuild_events \/ rebuild_settlements \/ rebuild_totals \/ RebuildReturns

-----------------------------------------------------------------------------
\* replay(bus)

\* persist_event stores str(event.type): of a member of a (str, Enum) class
\* that is the class and the member, not its value.
StoredType(e) == <<"EventType.", e>>

\* EventType(text) knows the values alone, and raises ValueError otherwise.
IsEventType(text) == text[1] = ""

replay ==
    /\ replaying # "running"
    /\ replaying' = "running"
    /\ fetched' = LogRefs
    /\ count' = 0

\* The rows in the order of created_at: any order that keeps each trade's.
Oldest == {ref \in fetched : \A i \in 1 .. ref[2] - 1 : <<ref[1], i>> \notin fetched}

\* bus.publish(event) finds the key of the row it was read from and returns.
ReplayRow ==
    /\ replaying = "running"
    /\ \E ref \in Oldest :
        IF IsEventType(StoredType(log[ref[1]][ref[2]]))
        THEN /\ fetched' = fetched \ {ref}
             /\ count' = count + 1
             /\ UNCHANGED replaying
        ELSE /\ replaying' = "raised"
             /\ fetched' = {}
             /\ UNCHANGED count

ReplayReturns ==
    /\ replaying = "running"
    /\ fetched = {}
    /\ replaying' = "returned"
    /\ UNCHANGED <<fetched, count>>

ReplayStep == ReplayRow \/ ReplayReturns

-----------------------------------------------------------------------------
\* Safety.

Counts(f, v) == IF v \in DOMAIN f THEN f[v] ELSE 0

AtOrPast(s) == {t \in Statuses : SETTLEMENT_STATE_ORDER[t] >= SETTLEMENT_STATE_ORDER[s]}

\* The four snapshots are of different moments, and still one story, because
\* they are taken against the order in which the pipeline writes: every account
\* has no more rows than events that post to it, every settlement event counted
\* has an instruction that reached its status, no total is below its parts, and
\* both the accounts and the totals balance.
RebuildHangsTogether ==
    /\ rebuild \in {"totals", "rebuilt"} =>
           \A a \in DOMAIN accounts : \E e \in PostedEvents :
               /\ \E k \in Keys : a \in AccountsOf(k, e)
               /\ accounts[a].entries <= Counts(event_counts, e)
    /\ rebuild \in {"totals", "rebuilt"} =>
           \A e \in DOMAIN Announces :
               Counts(event_counts, e) <=
                   SumFunction([s \in AtOrPast(Announces[e]) |->
                                   Counts(settlement_states, s)])
    /\ SumFunction([a \in DOMAIN accounts |->
                       accounts[a].debits - accounts[a].credits]) = 0
    /\ invariants.debits = invariants.credits
    /\ rebuild = "rebuilt" =>
           SumFunction([a \in DOMAIN accounts |-> accounts[a].entries])
               <= invariants.entries

=============================================================================
