----------------------------- MODULE EtfServices -----------------------------
(***************************************************************************)
(* services/etf_issuer, execution, custody and nav: four loops, each over  *)
(* a KafkaConsumer without a group.  Such a consumer commits no offset and *)
(* starts at the end of its topic, whenever it starts; what custody and    *)
(* nav add up is in memory.  An exception leaves the loop and the process. *)
(*                                                                         *)
(* A message downstream of a creation request stands for its cash or its   *)
(* bitcoin, and so for the request; amounts are left out.                  *)
(***************************************************************************)
EXTENDS KafkaTopics

VARIABLES
    up,         \* is the service running
    position,   \* how much of its topic its consumer is past
    booked      \* custody, nav: the fills added up since it started

service_vars == <<up, position, booked>>

Services == {"etf_issuer", "execution", "custody", "nav"}
Books == {"custody", "nav"}

\* The topic each service consumes.
Consumes ==
    [etf_issuer |-> "creation-requests",
     execution  |-> "execution-requests",
     custody    |-> "execution-fills",
     nav        |-> "execution-fills"]

\* Mutant: the issuer publishes to a topic nobody consumes.
Produces_Misnamed ==
    [etf_issuer |-> "settlement-commands",
     execution  |-> "execution-fills"]

\* The topic it produces to, if any.
Produces ==
    [etf_issuer |-> "execution-requests",
     execution  |-> "execution-fills"]

ServicesInit ==
    /\ up = [s \in Services |-> TRUE]
    /\ position = [s \in Services |-> 0]
    /\ booked = [s \in Books |-> <<>>]

HasNext(s) == up[s] /\ position[s] < Len(topic[Consumes[s]])
NextMessage(s) == topic[Consumes[s]][position[s] + 1]

Advance(s) == position' = [position EXCEPT ![s] = @ + 1]

\* msg.value["cash"] of a creation request may not be there, and what is there
\* may be nothing execution can divide.
Poisoned(s) ==
    \/ s = "etf_issuer" /\ NextMessage(s).cash = "no_cash"
    \/ s = "execution" /\ NextMessage(s).cash = "bad_cash"

\* {"cash": cash} or {"btc": btc}; no other field goes on.
Forwarded(s) ==
    IF s = "etf_issuer"
    THEN [request |-> NextMessage(s).request, cash |-> NextMessage(s).cash]
    ELSE [request |-> NextMessage(s).request]

\* etf_issuer, execution: the cash, or what it bought, goes to the next topic.
Forward(s) ==
    /\ s \in DOMAIN Produces
    /\ HasNext(s)
    /\ ~Poisoned(s)
    /\ send(Produces[s], Forwarded(s))
    /\ Advance(s)
    /\ UNCHANGED <<up, booked, topic, duplicates, taken, troubles>>

\* custody, nav: balance += btc, reserves += btc
Book(s) ==
    /\ s \in Books
    /\ HasNext(s)
    /\ booked' = [booked EXCEPT ![s] = Append(@, NextMessage(s).request)]
    /\ Advance(s)
    /\ UNCHANGED <<up, kafka_vars>>

\* What its producer has in memory.
Unsent(s) == IF s \in DOMAIN Produces THEN {Produces[s]} ELSE {}

\* The requests added up in the books of s, which are in memory too.
InBooks(s) == IF s \in Books THEN {booked[s][i] : i \in DOMAIN booked[s]} ELSE {}

\* The process ends, with what it has in memory and the messages it is at.
Stop(s, at) ==
    /\ up' = [up EXCEPT ![s] = FALSE]
    /\ booked' = [b \in Books |-> IF b = s THEN <<>> ELSE booked[b]]
    /\ LoseMemory(Unsent(s))
    /\ Take(InMemory(Unsent(s)) \cup InBooks(s) \cup at)
    /\ UNCHANGED <<position, topic, duplicates>>

\* KeyError: 'cash', or the TypeError of the division.
Poison(s) ==
    /\ HasNext(s)
    /\ Poisoned(s)
    /\ Stop(s, {NextMessage(s).request})
    /\ UNCHANGED troubles

\* send() raises, or the process is killed.
ServiceCrash(s) ==
    /\ up[s]
    /\ Trouble
    /\ Stop(s, {})

\* Mutant: auto_offset_reset="earliest".
Start_Earliest(s) ==
    /\ ~up[s]
    /\ up' = [up EXCEPT ![s] = TRUE]
    /\ position' = [position EXCEPT ![s] = 0]
    /\ UNCHANGED <<booked, kafka_vars>>

\* Mutant: the consumer has a group, and goes on where the last one stopped.
Start_Committed(s) ==
    /\ ~up[s]
    /\ up' = [up EXCEPT ![s] = TRUE]
    /\ UNCHANGED <<position, booked, kafka_vars>>

\* The requests whose messages a consumer has not read.
Unread(s) == {topic[Consumes[s]][i].request : i \in position[s] + 1 .. Len(topic[Consumes[s]])}

\* auto_offset_reset is "latest": what came in between is skipped.
Start(s) ==
    /\ ~up[s]
    /\ up' = [up EXCEPT ![s] = TRUE]
    /\ position' = [position EXCEPT ![s] = Len(topic[Consumes[s]])]
    /\ Take(Unread(s))
    /\ UNCHANGED <<booked, pending, topic, duplicates, troubles>>

\* One turn of the service's loop.
Turn(s) == Forward(s) \/ Book(s) \/ Poison(s)

ServicesNext == \E s \in Services : Turn(s) \/ ServiceCrash(s) \/ Start(s)
=============================================================================
