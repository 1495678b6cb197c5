----------------------------- MODULE KafkaTopics -----------------------------
(***************************************************************************)
(* The topics between the API gateway and the ETF services, and the        *)
(* clients' producers, as the code uses them: send() only puts a message   *)
(* in the producer's memory, and a background thread delivers it later,    *)
(* may deliver it twice or give it up.  Nobody waits for it.  Each topic   *)
(* has one producing process.                                              *)
(***************************************************************************)
EXTENDS Naturals, Sequences

CONSTANTS
    Requests,       \* requests clients send; every message is on behalf of one
    MaxTroubles     \* bound on the faults of the environment

ASSUME TroublesAssumption == MaxTroubles \in Nat

VARIABLES
    pending,    \* per topic, the messages in its producer's memory
    topic,      \* per topic, its log
    duplicates, \* auxiliary: per request, its messages that were delivered twice
    taken,      \* auxiliary: the requests a fault has taken something from
    troubles    \* auxiliary: faults so far

kafka_vars == <<pending, topic, duplicates, taken, troubles>>

Topics == {"creation-requests", "settlement-commands",
           "execution-requests", "execution-fills"}

KafkaInit ==
    /\ pending = [t \in Topics |-> <<>>]
    /\ topic = [t \in Topics |-> <<>>]
    /\ duplicates = [r \in Requests |-> 0]
    /\ taken = {}
    /\ troubles = 0

\* A fault of the environment.
Trouble ==
    /\ troubles < MaxTroubles
    /\ troubles' = troubles + 1

Take(rs) == taken' = taken \cup rs

\* The requests the messages of f are sent for.
RequestsIn(f) == {f[i].request : i \in DOMAIN f}

\* producer.send(t, m)
send(t, m) == pending' = [pending EXCEPT ![t] = Append(@, m)]

\* What the topic gains when its producer's oldest message leaves its memory.
Sent(t, copies) ==
    /\ pending[t] # <<>>
    /\ pending' = [pending EXCEPT ![t] = Tail(@)]
    /\ topic' = [topic EXCEPT ![t] = @ \o copies]

Deliver(t) ==
    /\ Sent(t, <<Head(pending[t])>>)
    /\ UNCHANGED <<duplicates, taken, troubles>>

\* The acknowledgement was lost and the producer sent it again.
DeliverTwice(t) ==
    /\ Sent(t, <<Head(pending[t]), Head(pending[t])>>)
    /\ Trouble
    /\ duplicates' = [duplicates EXCEPT ![Head(pending[t]).request] = @ + 1]
    /\ UNCHANGED taken

\* The producer's timeout passed.
GiveUp(t) ==
    /\ Sent(t, <<>>)
    /\ Trouble
    /\ Take({Head(pending[t]).request})
    /\ UNCHANGED duplicates

\* The process dies, and what was in its producer's memory with it.
LoseMemory(ts) ==
    pending' = [t \in Topics |-> IF t \in ts THEN <<>> ELSE pending[t]]

\* The requests that are in that memory.
InMemory(ts) == UNION {RequestsIn(pending[t]) : t \in ts}

KafkaNext == \E t \in Topics : Deliver(t) \/ DeliverTwice(t) \/ GiveUp(t)
=============================================================================
