----------------------------- MODULE OutboxRelay -----------------------------
(***************************************************************************)
(* core/outbox_worker.py: workers that poll the outbox table for PENDING   *)
(* rows, send each to Kafka, and commit the marks of a whole batch at its  *)
(* end.  The rows of a batch stay locked (FOR UPDATE) until then, so other *)
(* workers skip them; what a worker has marked is seen by nobody else and  *)
(* is rolled back if it dies.  Messages already sent are not.              *)
(*                                                                         *)
(* A database error inside a batch escapes run_outbox_worker, so it is a   *)
(* Crash, and so is a commit whose answer is lost, after Commit.  One that *)
(* fails to fetch is caught and changes nothing.  Nothing in the           *)
(* deployment restarts a dead worker; an operator may (Restart).           *)
(***************************************************************************)
EXTENDS Naturals, FiniteSets

CONSTANTS
    Workers,        \* processes running run_outbox_worker
    Rows,           \* outbox rows, numbered by created_at
    Limit,          \* the LIMIT of fetch_pending, 100 in the code
    MAX_RETRIES,    \* 5 in the code
    Faults,         \* what Kafka may do to a message
    MaxTroubles     \* bound on worker deaths and messages a producer repeats

ASSUME RelayAssumption ==
    /\ Rows \subseteq Nat
    /\ IsFiniteSet(Rows)
    /\ Limit \in Nat \ {0}
    /\ MAX_RETRIES \in Nat
    /\ Faults \subseteq {"raise", "lose"}
    /\ MaxTroubles \in Nat

VARIABLES
    outbox,             \* the committed rows
    tx,                 \* each worker's transaction: its locked rows as marked
    todo,               \* the rows of its batch it has not tried yet
    up,                 \* is the worker alive
    event_log_topic,    \* Kafka: how often each row's message is in the topic
    dlq_topic,          \* Kafka: the same for the dead letter topic
    failures,           \* auxiliary: failed attempts to send each row
    crashes,            \* auxiliary: worker deaths so far
    repeats             \* auxiliary: messages a producer has sent twice so far

vars == <<outbox, tx, todo, up, event_log_topic, dlq_topic, failures, crashes, repeats>>

kafka == <<event_log_topic, dlq_topic, repeats>>

RowImages == [status : {"ABSENT", "PENDING", "SENT", "DLQ"}, retry_count : Nat]

\* No open transaction: a function of no rows.
NoTx == [r \in {} |-> 0]

Locked == UNION {DOMAIN tx[w] : w \in Workers}

-----------------------------------------------------------------------------
Init ==
    /\ outbox = [r \in Rows |-> [status |-> "ABSENT", retry_count |-> 0]]
    /\ tx = [w \in Workers |-> NoTx]
    /\ todo = [w \in Workers |-> {}]
    /\ up = [w \in Workers |-> TRUE]
    /\ event_log_topic = [r \in Rows |-> 0]
    /\ dlq_topic = [r \in Rows |-> 0]
    /\ failures = [r \in Rows |-> 0]
    /\ crashes = 0
    /\ repeats = 0

\* persist_event commits a row.  created_at is when its transaction began, so
\* rows may appear in another order.
Insert(r) ==
    /\ outbox[r].status = "ABSENT"
    /\ outbox' = [outbox EXCEPT ![r].status = "PENDING"]
    /\ UNCHANGED <<tx, todo, up, kafka, failures, crashes>>

\* Mutant: the SELECT takes no row locks.
Claimable_NoLocks == {r \in Rows : outbox[r].status = "PENDING"}

\* WHERE status = 'PENDING' ... FOR UPDATE SKIP LOCKED
Claimable == {r \in Rows \ Locked : outbox[r].status = "PENDING"}

Polling(w) == up[w] /\ tx[w] = NoTx

\* ORDER BY created_at LIMIT Limit: the oldest rows, as many as there are.
fetch_pending(w) ==
    /\ Polling(w)
    /\ \E batch \in SUBSET Claimable \ {{}} :
        /\ Cardinality(batch) <= Limit
        /\ \A r \in Claimable \ batch :
               Cardinality(batch) = Limit /\ \A b \in batch : b < r
        /\ tx' = [tx EXCEPT ![w] = [r \in batch |-> outbox[r]]]
        /\ todo' = [todo EXCEPT ![w] = batch]
    /\ UNCHANGED <<outbox, up, kafka, failures, crashes>>

\* Nothing to do: close the connection, sleep, poll again.
PollNothing(w) ==
    /\ Polling(w)
    /\ Claimable = {}
    /\ UNCHANGED vars

\* The row the loop is at.
IsNext(w, r) == r \in todo[w] /\ \A q \in todo[w] : r <= q

\* A mark on the row, seen by this transaction alone; the loop goes on.
Mark(w, r, image) ==
    /\ tx' = [tx EXCEPT ![w][r] = image]
    /\ todo' = [todo EXCEPT ![w] = @ \ {r}]
    /\ UNCHANGED <<outbox, up, crashes>>

\* A send to a topic that returned: KafkaProducer.flush() waits until the
\* message is delivered, delivered twice as its acknowledgement was lost and
\* the producer sent it again, or given up, and raises for none of these.
Returned(topic, after, r) ==
    \/ after = [topic EXCEPT ![r] = @ + 1] /\ UNCHANGED repeats
    \/ /\ crashes + repeats < MaxTroubles
       /\ after = [topic EXCEPT ![r] = @ + 2]
       /\ repeats' = repeats + 1
    \/ "lose" \in Faults /\ after = topic /\ UNCHANGED repeats

\* publish_to_kafka returns: mark_sent.
publish_to_kafka(w, r) ==
    /\ IsNext(w, r)
    /\ Returned(event_log_topic, event_log_topic', r)
    /\ Mark(w, r, [tx[w][r] EXCEPT !.status = "SENT"])
    /\ UNCHANGED <<dlq_topic, failures>>

\* publish_to_kafka raises: no broker, or no metadata in time.
Raises(w, r) ==
    /\ IsNext(w, r)
    /\ "raise" \in Faults
    /\ failures' = [failures EXCEPT ![r] = @ + 1]

\* Mutant: the comparison counts the attempt that has just failed.
Exhausted_OneEarly(w, r) == tx[w][r].retry_count + 1 >= MAX_RETRIES

\* Mutant: the comparison is strict.
Exhausted_OneLate(w, r) == tx[w][r].retry_count > MAX_RETRIES

Exhausted(w, r) == tx[w][r].retry_count >= MAX_RETRIES

\* Mutant: mark_failed sets the status FAILED the schema names.
mark_failed_Status(w, r) ==
    /\ Raises(w, r)
    /\ ~Exhausted(w, r)
    /\ Mark(w, r, [tx[w][r] EXCEPT !.retry_count = @ + 1, !.status = "FAILED"])
    /\ UNCHANGED kafka

\* The row stays PENDING, for the next poll: the backoff is only printed.
mark_failed(w, r) ==
    /\ Raises(w, r)
    /\ ~Exhausted(w, r)
    /\ Mark(w, r, [tx[w][r] EXCEPT !.retry_count = @ + 1])
    /\ UNCHANGED kafka

\* Mutant: the message goes to the dead letter topic and the row stays PENDING.
mark_dlq_NoMark(w, r) ==
    /\ Raises(w, r)
    /\ Exhausted(w, r)
    /\ Mark(w, r, tx[w][r])
    /\ Returned(dlq_topic, dlq_topic', r) \/ UNCHANGED <<dlq_topic, repeats>>
    /\ UNCHANGED event_log_topic

\* mark_dlq, then publish_to_dlq, whose exception is swallowed.
mark_dlq(w, r) ==
    /\ Raises(w, r)
    /\ Exhausted(w, r)
    /\ Mark(w, r, [tx[w][r] EXCEPT !.status = "DLQ"])
    /\ Returned(dlq_topic, dlq_topic', r) \/ UNCHANGED <<dlq_topic, repeats>>
    /\ UNCHANGED event_log_topic

\* Mutant: the connection is closed without a commit.
Commit_Forgotten(w) ==
    /\ tx[w] # NoTx
    /\ todo[w] = {}
    /\ tx' = [tx EXCEPT ![w] = NoTx]
    /\ UNCHANGED <<outbox, todo, up, kafka, failures, crashes>>

\* The end of the batch: every mark becomes visible and every lock is released.
Commit(w) ==
    /\ tx[w] # NoTx
    /\ todo[w] = {}
    /\ outbox' = [r \in Rows |-> IF r \in DOMAIN tx[w] THEN tx[w][r] ELSE outbox[r]]
    /\ tx' = [tx EXCEPT ![w] = NoTx]
    /\ UNCHANGED <<todo, up, kafka, failures, crashes>>

\* The worker dies and the database rolls its transaction back.
Crash(w) ==
    /\ up[w]
    /\ crashes + repeats < MaxTroubles
    /\ crashes' = crashes + 1
    /\ up' = [up EXCEPT ![w] = FALSE]
    /\ tx' = [tx EXCEPT ![w] = NoTx]
    /\ todo' = [todo EXCEPT ![w] = {}]
    /\ UNCHANGED <<outbox, kafka, failures>>

Restart(w) ==
    /\ ~up[w]
    /\ up' = [up EXCEPT ![w] = TRUE]
    /\ UNCHANGED <<outbox, tx, todo, kafka, failures, crashes>>

\* One turn of the worker's loop.
Work(w) ==
    \/ fetch_pending(w)
    \/ PollNothing(w)
    \/ \E r \in Rows : publish_to_kafka(w, r) \/ mark_failed(w, r) \/ mark_dlq(w, r)
    \/ Commit(w)

Next ==
    \/ \E r \in Rows : Insert(r)
    \/ \E w \in Workers : Work(w) \/ Crash(w) \/ Restart(w)

Spec == Init /\ [][Next]_vars

\* A live worker loops for ever.  Nobody has to insert, to crash or to restart.
FairSpec == Spec /\ \A w \in Workers : WF_vars(Work(w))

-----------------------------------------------------------------------------
\* Types; a committed retry_count never passes MAX_RETRIES, and a worker that
\* is down holds no lock.
TypeOK ==
    /\ outbox \in [Rows -> RowImages]
    /\ \A r \in Rows : outbox[r].retry_count <= MAX_RETRIES
    /\ tx = [w \in Workers |-> tx[w]]
    /\ \A w \in Workers : /\ DOMAIN tx[w] \subseteq Rows
                          /\ tx[w] \in [DOMAIN tx[w] -> RowImages]
    /\ todo \in [Workers -> SUBSET Rows]
    /\ \A w \in Workers : todo[w] \subseteq DOMAIN tx[w]
    /\ up \in [Workers -> BOOLEAN]
    /\ \A w \in Workers : ~up[w] => tx[w] = NoTx
    /\ event_log_topic \in [Rows -> Nat]
    /\ dlq_topic \in [Rows -> Nat]
    /\ failures \in [Rows -> Nat]
    /\ crashes \in Nat /\ repeats \in Nat
    /\ crashes + repeats <= MaxTroubles

\* No row is in the batches of two workers, and none in a batch is settled.
ClaimedOnce ==
    /\ \A v, w \in Workers : v # w => DOMAIN tx[v] \cap DOMAIN tx[w] = {}
    /\ \A w \in Workers : \A r \in DOMAIN tx[w] : outbox[r].status = "PENDING"

\* Only a crash between a send and the commit of its batch, or a producer that
\* repeats itself, makes a second copy, each one more: a row that is PENDING
\* again is never sent again for any other reason.
CopiesBounded == \A r \in Rows : event_log_topic[r] <= 1 + crashes + repeats

\* A row is tried MAX_RETRIES + 1 times, and again only for attempts whose
\* count a crash has rolled back: at most one for each.
AttemptsBounded == \A r \in Rows : failures[r] <= MAX_RETRIES + 1 + crashes

\* The dead letter is sent before its mark is committed: a worker that dies in
\* between leaves a letter for a row that is tried again.  Only so, or by a
\* producer that repeats itself, does the topic hold two letters of a row; and
\* only so one of a row that was delivered.
DeadLettersBounded ==
    \A r \in Rows :
        /\ dlq_topic[r] <= 1 + crashes + repeats
        /\ outbox[r].status = "SENT" /\ crashes = 0 => dlq_topic[r] = 0
        /\ outbox[r].status = "SENT" => dlq_topic[r] <= crashes + repeats

D == INSTANCE Delivery WITH
        status <- [r \in Rows |-> outbox[r].status],
        copies <- event_log_topic

\* With concurrent workers, batched commits, rollbacks and resends, and as long
\* as Kafka loses no message it accepted: at-least-once delivery, DLQ only
\* after every retry, and a settled row stays settled.
ImplementsDelivery == D!Spec

\* Whatever Kafka refuses, no row is left pending while a worker is alive, and
\* none is starved by rows before it that keep failing.
EveryRowSettles ==
    \A r \in Rows :
        outbox[r].status = "PENDING" ~>
            \/ outbox[r].status \in {"SENT", "DLQ"}
            \/ \A w \in Workers : ~up[w]

-----------------------------------------------------------------------------
\* What the documentation says and the code does not do.

\* README.md:793: a message that fails after its retries is "Published to the
\* dlq_default Kafka topic with full context".
DlqIsPublished ==
    \A r \in Rows : outbox[r].status = "DLQ" => dlq_topic[r] > 0

\* README.md:784: the worker "Publishes to Kafka, marks as SENT".
SentIsPublished ==
    \A r \in Rows : outbox[r].status = "SENT" => event_log_topic[r] > 0
=============================================================================
