------------------------------ MODULE Delivery -------------------------------
(***************************************************************************)
(* What the outbox promises about each recorded event, and nothing about   *)
(* workers, batches, locks or transactions: its message reaches the topic  *)
(* at least once before the row is settled as SENT, a row is settled as    *)
(* DLQ only after MAX_RETRIES + 1 attempts have failed, and a settled row  *)
(* is never looked at again.                                               *)
(***************************************************************************)
EXTENDS Naturals

CONSTANTS Rows, MAX_RETRIES

VARIABLES
    status,     \* of each row: "ABSENT", "PENDING", "SENT" or "DLQ"
    copies,     \* how often its message reached the topic
    failures    \* how many attempts to send it have failed

vars == <<status, copies, failures>>

Init ==
    /\ status = [r \in Rows |-> "ABSENT"]
    /\ copies = [r \in Rows |-> 0]
    /\ failures = [r \in Rows |-> 0]

Record(r) ==
    /\ status[r] = "ABSENT"
    /\ status' = [status EXCEPT ![r] = "PENDING"]
    /\ UNCHANGED <<copies, failures>>

\* Kafka itself may repeat a message.
Deliver(r) ==
    /\ status[r] = "PENDING"
    /\ \E n \in {1, 2} : copies' = [copies EXCEPT ![r] = @ + n]
    /\ UNCHANGED <<status, failures>>

Fail(r) ==
    /\ status[r] = "PENDING"
    /\ failures' = [failures EXCEPT ![r] = @ + 1]
    /\ UNCHANGED <<status, copies>>

MaySettle(r, s) ==
    /\ status[r] = "PENDING"
    /\ \/ s = "SENT" /\ copies[r] > 0
       \/ s = "DLQ" /\ failures[r] > MAX_RETRIES

\* Rows are settled in batches.
Settle ==
    /\ status' \in [Rows -> {"ABSENT", "PENDING", "SENT", "DLQ"}]
    /\ \A r \in Rows : status'[r] = status[r] \/ MaySettle(r, status'[r])
    /\ UNCHANGED <<copies, failures>>

Next ==
    \/ \E r \in Rows : Record(r) \/ Deliver(r) \/ Fail(r)
    \/ Settle

Spec == Init /\ [][Next]_vars
=============================================================================
