-------------------------- MODULE FrontOfficeProofs --------------------------
(***************************************************************************)
(* Theorems about FrontOffice, for every set of requests, keys, roles and  *)
(* shapes of requests, and every bound on troubles.                        *)
(***************************************************************************)
EXTENDS FrontOffice, SequenceTheorems, FiniteSetTheorems, TLAPS

-----------------------------------------------------------------------------
\* Facts about the tables and about sequences.

LEMMA TopicTables ==
    /\ \A s \in Services : Consumes[s] \in Topics
    /\ \A s \in DOMAIN Produces :
           /\ s \in Services
           /\ Produces[s] \in Topics
           /\ Produces[s] \notin CommandTopics
    /\ \A e \in DOMAIN Commands :
           /\ Commands[e] \in CommandTopics
           /\ e \in DOMAIN ENDPOINT_PERMISSIONS
    /\ CommandTopics \subseteq Topics
  <1>1. \A s \in Services : Consumes[s] \in Topics
    BY DEF Consumes, Services, Topics
  <1>2. DOMAIN Produces \subseteq Services
    BY DEF Produces, Services
  <1>3. \A s \in DOMAIN Produces :
           Produces[s] \in {"execution-requests", "execution-fills"}
    BY DEF Produces
  <1>4. \A e \in DOMAIN Commands : Commands[e] \in CommandTopics
    BY DEF Commands, CommandTopics
  <1>5. \A e \in DOMAIN Commands : e \in DOMAIN ENDPOINT_PERMISSIONS
    BY DEF Commands, ENDPOINT_PERMISSIONS
  <1> QED
    BY <1>1, <1>2, <1>3, <1>4, <1>5 DEF CommandTopics, Topics

LEMMA SequenceTypes ==
    ASSUME NEW S, NEW s \in Seq(S), NEW e \in S
    PROVE  /\ Append(s, e) \in Seq(S)
           /\ <<e>> \in Seq(S)
           /\ <<e, e>> \in Seq(S)
           /\ Head(s) \in S \/ s = <<>>
           /\ s # <<>> => Tail(s) \in Seq(S)
  OBVIOUS

LEMMA MessageNamesRequest ==
    ASSUME NEW m \in Messages PROVE m.request \in Requests
  BY DEF Messages, CommandMessages

-----------------------------------------------------------------------------
\* The topics keep their types.

LEMMA SendTypes ==
    ASSUME KafkaTypes, NEW t \in Topics, NEW m \in Messages, send(t, m)
    PROVE  pending' \in [Topics -> Seq(Messages)]
  <1>1. Append(pending[t], m) \in Seq(Messages)
    BY SequenceTypes DEF KafkaTypes
  <1> QED
    BY <1>1 DEF KafkaTypes, send

LEMMA SentTypes ==
    ASSUME KafkaTypes, NEW t \in Topics, NEW copies \in Seq(Messages), Sent(t, copies)
    PROVE  /\ pending' \in [Topics -> Seq(Messages)]
           /\ topic' \in [Topics -> Seq(Messages)]
           /\ \A u \in Topics : Len(topic[u]) <= Len(topic'[u])
  <1>1. pending[t] \in Seq(Messages) /\ pending[t] # <<>>
    BY DEF KafkaTypes, Sent
  <1>2. Tail(pending[t]) \in Seq(Messages)
    BY <1>1
  <1>3. /\ topic[t] \in Seq(Messages)
        /\ topic[t] \o copies \in Seq(Messages)
        /\ Len(topic[t]) <= Len(topic[t] \o copies)
    <2>1. topic[t] \in Seq(Messages)
      BY DEF KafkaTypes
    <2>2. /\ topic[t] \o copies \in Seq(Messages)
          /\ Len(topic[t] \o copies) = Len(topic[t]) + Len(copies)
      BY <2>1, ConcatProperties
    <2>3. Len(topic[t]) \in Nat /\ Len(copies) \in Nat
      BY <2>1
    <2> QED
      BY <2>1, <2>2, <2>3
  <1>4. \A u \in Topics : Len(topic[u]) \in Nat
    BY DEF KafkaTypes
  <1> QED
    BY <1>2, <1>3, <1>4, SMT DEF KafkaTypes, Sent

LEMMA LossTypes ==
    ASSUME KafkaTypes, NEW ts, LoseMemory(ts)
    PROVE  pending' \in [Topics -> Seq(Messages)]
  <1>1. <<>> \in Seq(Messages)
    OBVIOUS
  <1> QED
    BY <1>1 DEF KafkaTypes, LoseMemory

LEMMA MemoryTypes ==
    ASSUME KafkaTypes, NEW ts \in SUBSET Topics PROVE InMemory(ts) \subseteq Requests
  <1>1. \A t \in Topics : pending[t] \in Seq(Messages)
    BY DEF KafkaTypes
  <1>2. \A t \in Topics : \A i \in DOMAIN pending[t] : pending[t][i] \in Messages
    BY <1>1
  <1>3. \A t \in Topics : RequestsIn(pending[t]) \subseteq Requests
    BY <1>2, MessageNamesRequest DEF RequestsIn
  <1> QED
    BY <1>3 DEF InMemory

LEMMA KafkaKeepsTypes ==
    ASSUME KafkaTypes, NEW t \in Topics,
           Deliver(t) \/ DeliverTwice(t) \/ GiveUp(t)
    PROVE  /\ KafkaTypes'
           /\ \A u \in Topics : Len(topic[u]) <= Len(topic'[u])
  <1>1. PICK copies \in Seq(Messages) : Sent(t, copies)
    <2>1. pending[t] \in Seq(Messages) /\ pending[t] # <<>>
      BY DEF KafkaTypes, Deliver, DeliverTwice, GiveUp, Sent
    <2>2. Head(pending[t]) \in Messages
      BY <2>1
    <2>3. /\ <<Head(pending[t])>> \in Seq(Messages)
          /\ <<Head(pending[t]), Head(pending[t])>> \in Seq(Messages)
          /\ <<>> \in Seq(Messages)
      BY <2>2
    <2> QED
      BY <2>3 DEF Deliver, DeliverTwice, GiveUp
  <1>2. troubles' \in Nat
    BY DEF KafkaTypes, Deliver, DeliverTwice, GiveUp, Trouble
  <1>3. Head(pending[t]).request \in Requests
    <2>1. pending[t] \in Seq(Messages) /\ pending[t] # <<>>
      BY <1>1 DEF KafkaTypes, Sent
    <2>2. Head(pending[t]) \in Messages
      BY <2>1
    <2> QED
      BY <2>2, MessageNamesRequest
  <1>4. duplicates' \in [Requests -> Nat]
    <2>1. CASE DeliverTwice(t)
      BY <1>3, <2>1 DEF KafkaTypes, DeliverTwice
    <2>2. CASE Deliver(t) \/ GiveUp(t)
      BY <2>2 DEF KafkaTypes, Deliver, GiveUp
    <2> QED
      BY <2>1, <2>2
  <1>5. taken' \subseteq Requests
    <2>1. CASE GiveUp(t)
      BY <1>3, <2>1 DEF KafkaTypes, GiveUp, Take
    <2>2. CASE Deliver(t) \/ DeliverTwice(t)
      BY <2>2 DEF KafkaTypes, Deliver, DeliverTwice
    <2> QED
      BY <2>1, <2>2
  <1> QED
    BY <1>1, <1>2, <1>4, <1>5, SentTypes DEF KafkaTypes

-----------------------------------------------------------------------------
\* The gateway keeps the types.

LEMMA CommandType ==
    ASSUME GatewayTypes, NEW r \in Requests, request[r].input \in Bodies
    PROVE  Command(r) \in CommandMessages /\ Command(r) \in Messages
  BY DEF GatewayTypes, Command, Messages, CommandMessages

LEMMA AuditTypes ==
    ASSUME GatewayTypes, NEW r \in Requests, NEW who \in ApiKeys \cup {"anonymous"},
           NEW code \in Codes \cup {401, 403}, audit_log(r, who, code)
    PROVE  audit_trail' \in [Requests -> Seq(AuditRecords)]
  <1>1. [actor |-> who, status_code |-> code] \in AuditRecords
    BY DEF AuditRecords
  <1>2. Append(audit_trail[r], [actor |-> who, status_code |-> code]) \in Seq(AuditRecords)
    <2>1. audit_trail[r] \in Seq(AuditRecords)
      BY DEF GatewayTypes
    <2> QED
      BY <1>1, <2>1, SequenceTypes
  <1> QED
    BY <1>2 DEF GatewayTypes, audit_log

\* An answer of the middleware without a record.
LEMMA AnswerTypes ==
    ASSUME GatewayTypes, NEW r \in Requests,
           NEW code \in Codes \cup {0, 500}, Answer(r, code)
    PROVE  /\ stage' \in [Requests -> {"none", "received", "authorize", "endpoint",
                                        "audit", "answered", "lost"}]
           /\ answer' \in [Requests -> Codes \cup {0, 500}]
  BY DEF GatewayTypes, Answer

LEMMA RespondTypes ==
    ASSUME GatewayTypes, NEW r \in Requests, NEW code \in Codes,
           Respond(r, code)
    PROVE  GatewayTypes'
  BY DEF GatewayTypes, Respond

LEMMA FrameworkCodes ==
    ASSUME NEW path, NEW method PROVE FrameworkCode(path, method) \in Codes
  BY DEF FrameworkCode, Codes

LEMMA ServeKeepsTypes ==
    ASSUME GatewayTypes, KafkaTypes, NEW r \in Requests,
           stage[r] = "audit" => status_code[r] \in Codes,
           Receive(r) \/ Serve(r) \/ RequestRaises(r)
    PROVE  GatewayTypes' /\ KafkaTypes' /\ topic' = topic
  <1>1. CASE Receive(r)
    <2>1. PICK k \in ApiKeys \cup {NoKey}, s \in Shapes[r] :
              request' = [request EXCEPT ![r] =
                  [key |-> k, path |-> s.path, method |-> s.method, input |-> s.input,
                   active |-> k \in ApiKeys /\ is_active[k]]]
      BY <1>1 DEF Receive
    <2>2. (k \in ApiKeys /\ is_active[k]) \in BOOLEAN
      BY DEF GatewayTypes
    <2>3. s.method \in Methods /\ s.input \in Inputs
      BY GatewayAssumption
    <2>4. s.path \in UNION {{x.path : x \in Shapes[q]} : q \in Requests}
      OBVIOUS
    <2>5. [key |-> k, path |-> s.path, method |-> s.method, input |-> s.input,
           active |-> k \in ApiKeys /\ is_active[k]] \in RequestRows
      BY <2>2, <2>3, <2>4 DEF RequestRows
    <2>6. request' \in [Requests -> RequestRows \cup {NoRequest}]
      BY <2>1, <2>5 DEF GatewayTypes
    <2> QED
      BY <1>1, <2>6 DEF Receive, GatewayTypes, KafkaTypes, kafka_vars
  <1>2. CASE Health(r)
    <2>1. (IF request[r].method = "listed" THEN 200 ELSE 405) \in Codes \cup {0, 500}
      BY DEF Codes
    <2> QED
      BY <1>2, <2>1, AnswerTypes DEF Health, GatewayTypes, KafkaTypes, kafka_vars
  <1>3. CASE authenticate(r)
    BY <1>3 DEF authenticate, HasKey, GatewayTypes, KafkaTypes, kafka_vars
  <1>4. CASE Unauthenticated(r)
    <2>1. audit_trail' \in [Requests -> Seq(AuditRecords)]
      BY <1>4, AuditTypes DEF Unauthenticated
    <2> QED
      BY <1>4, <2>1, AnswerTypes DEF Unauthenticated, GatewayTypes, KafkaTypes, kafka_vars
  <1>5. CASE authorize(r)
    BY <1>5 DEF authorize, GatewayTypes, KafkaTypes, kafka_vars
  <1>6. CASE Forbidden(r)
    <2>1. actor[r] \in ApiKeys \cup {"anonymous"}
      BY DEF GatewayTypes
    <2>2. audit_trail' \in [Requests -> Seq(AuditRecords)]
      BY <1>6, <2>1, AuditTypes DEF Forbidden
    <2> QED
      BY <1>6, <2>2, AnswerTypes DEF Forbidden, GatewayTypes, KafkaTypes, kafka_vars
  <1>7. CASE SubmitCommand(r)
    <2>1. GatewayTypes'
      BY <1>7, RespondTypes DEF SubmitCommand, Codes
    <2>2. Commands[request[r].path] \in Topics
      BY <1>7, TopicTables DEF SubmitCommand, IsCommand, Routed
    <2>3. pending' \in [Topics -> Seq(Messages)]
      BY <1>7, <2>2, CommandType, SendTypes DEF SubmitCommand, Accepted
    <2> QED
      BY <1>7, <2>1, <2>3 DEF SubmitCommand, KafkaTypes
  <1>8. CASE RejectInput(r)
    BY <1>8, RespondTypes DEF RejectInput, Codes, KafkaTypes, kafka_vars
  <1>9. CASE ReadTables(r)
    BY <1>9, RespondTypes DEF ReadTables, Codes, KafkaTypes, kafka_vars
  <1>10. CASE NoEndpoint(r)
    BY <1>10, RespondTypes, FrameworkCodes DEF NoEndpoint, KafkaTypes, kafka_vars
  <1>11. CASE Audit(r)
    <2>1. /\ status_code[r] \in Codes
          /\ actor[r] \in ApiKeys \cup {"anonymous"}
      BY <1>11 DEF Audit, GatewayTypes
    <2>2. audit_trail' \in [Requests -> Seq(AuditRecords)]
      BY <1>11, <2>1, AuditTypes DEF Audit
    <2> QED
      BY <1>11, <2>1, <2>2, AnswerTypes DEF Audit, GatewayTypes, KafkaTypes, kafka_vars
  <1>12. CASE RequestRaises(r)
    <2>1. GatewayTypes'
      BY <1>12, AnswerTypes DEF RequestRaises, GatewayTypes
    <2> QED
      BY <1>12, <2>1 DEF RequestRaises, Trouble, Take, KafkaTypes
  <1>13. CASE QueryFails(r)
    BY <1>13, AnswerTypes DEF QueryFails, GatewayTypes, KafkaTypes, kafka_vars
  <1> QED
    BY <1>1, <1>2, <1>3, <1>4, <1>5, <1>6, <1>7, <1>8, <1>9, <1>10, <1>11, <1>12, <1>13
       DEF Serve

LEMMA OtherGatewayTypes ==
    ASSUME GatewayTypes, KafkaTypes, (\E k \in ApiKeys : Deactivate(k)) \/ GatewayCrash
    PROVE  GatewayTypes' /\ KafkaTypes' /\ topic' = topic
  <1>1. CASE \E k \in ApiKeys : Deactivate(k)
    BY <1>1 DEF Deactivate, GatewayTypes, KafkaTypes, kafka_vars
  <1>2. CASE GatewayCrash
    <2>1. pending' \in [Topics -> Seq(Messages)]
      BY <1>2, LossTypes DEF GatewayCrash
    <2>2. InMemory({"creation-requests", "settlement-commands"}) \subseteq Requests
      BY MemoryTypes DEF Topics
    <2>3. taken' \subseteq Requests
      BY <1>2, <2>2 DEF GatewayCrash, Take, KafkaTypes
    <2>4. GatewayTypes'
      BY <1>2 DEF GatewayCrash, GatewayTypes
    <2> QED
      BY <1>2, <2>1, <2>3, <2>4 DEF GatewayCrash, Trouble, KafkaTypes
  <1> QED
    BY <1>1, <1>2

-----------------------------------------------------------------------------
\* The services keep the types.

LEMMA NextMessageType ==
    ASSUME KafkaTypes, ServiceTypes, NEW s \in Services, HasNext(s)
    PROVE  /\ NextMessage(s).request \in Requests
           /\ position[s] + 1 <= Len(topic[Consumes[s]])
           /\ position[s] \in Nat
  <1>1. position[s] \in Nat /\ topic[Consumes[s]] \in Seq(Messages)
    BY TopicTables DEF KafkaTypes, ServiceTypes
  <1>2. position[s] + 1 \in 1 .. Len(topic[Consumes[s]])
    BY <1>1 DEF HasNext
  <1>3. NextMessage(s) \in Messages
    BY <1>1, <1>2 DEF NextMessage
  <1> QED
    BY <1>1, <1>2, <1>3, MessageNamesRequest

LEMMA AdvanceTypes ==
    ASSUME KafkaTypes, ServiceTypes, NEW s \in Services, HasNext(s), Advance(s)
    PROVE  /\ position' \in [Services -> Nat]
           /\ \A v \in Services : position'[v] <= Len(topic[Consumes[v]])
  BY NextMessageType DEF ServiceTypes, Advance

LEMMA StopTypes ==
    ASSUME KafkaTypes, ServiceTypes, NEW s \in Services,
           NEW at \in SUBSET Requests, Stop(s, at)
    PROVE  /\ ServiceTypes'
           /\ pending' \in [Topics -> Seq(Messages)]
           /\ taken' \subseteq Requests
  <1>1. \A b \in Books : booked[b] \in Seq(Requests) /\ <<>> \in Seq(Requests)
    BY DEF ServiceTypes
  <1>2. booked' \in [Books -> Seq(Requests)]
    BY <1>1 DEF Stop
  <1>3. pending' \in [Topics -> Seq(Messages)]
    BY LossTypes DEF Stop
  <1>4. InMemory(Unsent(s)) \subseteq Requests
    BY MemoryTypes, TopicTables DEF Unsent
  <1>5. InBooks(s) \subseteq Requests
    BY <1>1 DEF InBooks
  <1>6. taken' \subseteq Requests
    BY <1>4, <1>5 DEF Stop, Take, KafkaTypes
  <1> QED
    BY <1>2, <1>3, <1>6 DEF Stop, ServiceTypes

\* A creation request carries its cash, as every message of its topic does.
CommandsTyped == CommandsIn("creation-requests") \subseteq CommandMessages

LEMMA ForwardedType ==
    ASSUME KafkaTypes, ServiceTypes, CommandsTyped, NEW s \in DOMAIN Produces, HasNext(s)
    PROVE  /\ Forwarded(s) \in Messages
           /\ Forwarded(s).request = NextMessage(s).request
  <1>1. NextMessage(s).request \in Requests
    BY TopicTables, NextMessageType
  <1>2. CASE s = "etf_issuer"
    <2>1. /\ topic[Consumes[s]] \in Seq(Messages) /\ position[s] \in Nat
          /\ Consumes[s] = "creation-requests"
      BY <1>2, TopicTables DEF KafkaTypes, ServiceTypes, Consumes
    <2>2. position[s] + 1 \in DOMAIN topic[Consumes[s]]
      BY <2>1 DEF HasNext
    <2>3. NextMessage(s) \in CommandMessages
      BY <2>1, <2>2 DEF NextMessage, CommandsTyped, CommandsIn
    <2> QED
      BY <1>1, <1>2, <2>3 DEF Forwarded, Messages, CommandMessages
  <1>3. CASE s # "etf_issuer"
    BY <1>1, <1>3 DEF Forwarded, Messages
  <1> QED
    BY <1>2, <1>3

LEMMA UnreadType ==
    ASSUME KafkaTypes, ServiceTypes, NEW s \in Services
    PROVE  Unread(s) \subseteq Requests
  <1>1. topic[Consumes[s]] \in Seq(Messages) /\ position[s] \in Nat
    BY TopicTables DEF KafkaTypes, ServiceTypes
  <1>2. \A i \in position[s] + 1 .. Len(topic[Consumes[s]]) :
           topic[Consumes[s]][i] \in Messages
    BY <1>1
  <1> QED
    BY <1>2, MessageNamesRequest DEF Unread

LEMMA ServicesKeepTypes ==
    ASSUME KafkaTypes, ServiceTypes, CommandsTyped, NEW s \in Services,
           Turn(s) \/ ServiceCrash(s) \/ Start(s)
    PROVE  KafkaTypes' /\ ServiceTypes'
  <1>1. CASE Forward(s)
    <2>1. Forwarded(s) \in Messages
      BY <1>1, ForwardedType DEF Forward
    <2>2. pending' \in [Topics -> Seq(Messages)]
      BY <1>1, <2>1, SendTypes, TopicTables DEF Forward
    <2> QED
      BY <1>1, <2>2, AdvanceTypes DEF Forward, KafkaTypes, ServiceTypes
  <1>2. CASE Book(s)
    <2>1. booked[s] \in Seq(Requests)
      BY <1>2 DEF Book, ServiceTypes
    <2>2. Append(booked[s], NextMessage(s).request) \in Seq(Requests)
      BY <1>2, <2>1, NextMessageType, SequenceTypes DEF Book
    <2>3. booked' \in [Books -> Seq(Requests)]
      BY <1>2, <2>2 DEF Book, ServiceTypes
    <2> QED
      BY <1>2, <2>3, AdvanceTypes DEF Book, KafkaTypes, ServiceTypes, kafka_vars
  <1>3. CASE Poison(s)
    <2>1. /\ ServiceTypes' /\ pending' \in [Topics -> Seq(Messages)]
          /\ taken' \subseteq Requests
      BY <1>3, StopTypes, NextMessageType DEF Poison
    <2>2. /\ troubles' \in Nat
          /\ UNCHANGED <<topic, duplicates>>
      BY <1>3 DEF Poison, Stop, KafkaTypes
    <2> QED
      BY <2>1, <2>2 DEF KafkaTypes
  <1>4. CASE ServiceCrash(s)
    <2>1. /\ ServiceTypes' /\ pending' \in [Topics -> Seq(Messages)]
          /\ taken' \subseteq Requests
      BY <1>4, StopTypes DEF ServiceCrash
    <2>2. /\ troubles' \in Nat
          /\ UNCHANGED <<topic, duplicates>>
      BY <1>4 DEF ServiceCrash, Stop, Trouble, KafkaTypes
    <2> QED
      BY <2>1, <2>2 DEF KafkaTypes
  <1>5. CASE Start(s)
    <2>1. topic[Consumes[s]] \in Seq(Messages)
      BY TopicTables DEF KafkaTypes
    <2>2. Len(topic[Consumes[s]]) \in Nat
      BY <2>1
    <2>3. /\ position' \in [Services -> Nat]
          /\ \A v \in Services : position'[v] <= Len(topic[Consumes[v]])
      BY <1>5, <2>2 DEF Start, ServiceTypes
    <2>4. taken' \subseteq Requests
      BY <1>5, UnreadType DEF Start, Take, KafkaTypes
    <2> QED
      BY <1>5, <2>3, <2>4 DEF Start, KafkaTypes, ServiceTypes
  <1> QED
    BY <1>1, <1>2, <1>3, <1>4, <1>5 DEF Turn

-----------------------------------------------------------------------------
\* Only SubmitCommand adds a command.

LEMMA CommandsAfterSend ==
    ASSUME KafkaTypes, NEW u \in Topics, NEW c, send(u, c), UNCHANGED topic,
           NEW t \in Topics, NEW m \in CommandsIn(t)'
    PROVE  m \in CommandsIn(t) \/ (t = u /\ m = c)
  <1>1. pending[t] \in Seq(Messages) /\ topic[t] \in Seq(Messages)
    BY DEF KafkaTypes
  <1>2. CASE t = u
    <2>1. pending'[t] = Append(pending[t], c)
      BY <1>2 DEF send, KafkaTypes
    <2>2. \A i \in DOMAIN pending'[t] :
             pending'[t][i] = c \/ \E j \in DOMAIN pending[t] : pending'[t][i] = pending[t][j]
      BY <1>1, <2>1
    <2> QED
      BY <1>2, <2>2 DEF CommandsIn
  <1>3. CASE t # u
    <2>1. pending'[t] = pending[t]
      BY <1>3 DEF send, KafkaTypes
    <2> QED
      BY <2>1 DEF CommandsIn
  <1> QED
    BY <1>2, <1>3

LEMMA CommandsAfterLoss ==
    ASSUME KafkaTypes, NEW ts, LoseMemory(ts), UNCHANGED topic,
           NEW t \in Topics, NEW m \in CommandsIn(t)'
    PROVE  m \in CommandsIn(t)
  <1>1. pending'[t] = <<>> \/ pending'[t] = pending[t]
    BY DEF LoseMemory
  <1>2. DOMAIN <<>> = {}
    OBVIOUS
  <1> QED
    BY <1>1, <1>2 DEF CommandsIn

LEMMA CommandsAfterKafka ==
    ASSUME KafkaTypes, NEW u \in Topics,
           Deliver(u) \/ DeliverTwice(u) \/ GiveUp(u),
           NEW t \in Topics, NEW m \in CommandsIn(t)'
    PROVE  m \in CommandsIn(t)
  <1> DEFINE h == Head(pending[u])
  <1>1. pending[u] \in Seq(Messages) /\ pending[u] # <<>> /\ topic[u] \in Seq(Messages)
    BY DEF KafkaTypes, Deliver, DeliverTwice, GiveUp, Sent
  <1>2. h \in Messages /\ \E j \in DOMAIN pending[u] : h = pending[u][j]
    BY <1>1
  <1>3. PICK copies \in {<<>>, <<h>>, <<h, h>>} : Sent(u, copies)
    BY DEF Deliver, DeliverTwice, GiveUp
  <1>4. CASE t = u
    <2>1. pending'[t] = Tail(pending[t]) /\ topic'[t] = topic[t] \o copies
      BY <1>3, <1>4 DEF Sent, KafkaTypes
    <2>2. \A i \in DOMAIN pending'[t] :
             \E j \in DOMAIN pending[t] : pending'[t][i] = pending[t][j]
      <3>1. /\ DOMAIN pending[t] = 1 .. Len(pending[t])
            /\ Len(pending[t]) \in Nat
            /\ DOMAIN Tail(pending[t]) = 1 .. Len(pending[t]) - 1
            /\ \A i \in 1 .. Len(pending[t]) - 1 :
                   Tail(pending[t])[i] = pending[t][i + 1]
        BY <1>1, <1>4
      <3>2. \A i \in 1 .. Len(pending[t]) - 1 : i + 1 \in DOMAIN pending[t]
        BY <3>1
      <3> QED
        BY <2>1, <3>1, <3>2
    <2>3. copies \in Seq(Messages) /\ \A i \in DOMAIN copies : copies[i] = h
      <3>1. CASE copies = <<>>
        BY <3>1
      <3>2. CASE copies = <<h>>
        BY <1>2, <3>2
      <3>3. CASE copies = <<h, h>>
        BY <1>2, <3>3
      <3> QED
        BY <1>3, <3>1, <3>2, <3>3
    <2>4. \A i \in DOMAIN topic'[t] :
             topic'[t][i] = h \/ \E j \in DOMAIN topic[t] : topic'[t][i] = topic[t][j]
      BY <1>1, <1>4, <2>1, <2>3
    <2> QED
      BY <1>2, <1>4, <2>2, <2>4 DEF CommandsIn
  <1>5. CASE t # u
    <2>1. pending'[t] = pending[t] /\ topic'[t] = topic[t]
      BY <1>3, <1>5 DEF Sent, KafkaTypes
    <2> QED
      BY <2>1 DEF CommandsIn
  <1> QED
    BY <1>4, <1>5

LEMMA CommandsAfterServices ==
    ASSUME KafkaTypes, NEW s \in Services, Turn(s) \/ ServiceCrash(s) \/ Start(s),
           NEW t \in CommandTopics, NEW m \in CommandsIn(t)'
    PROVE  m \in CommandsIn(t)
  <1>1. t \in Topics
    BY TopicTables
  <1>2. CASE Forward(s)
    <2>1. Produces[s] \in Topics /\ Produces[s] # t
      BY <1>2, TopicTables DEF Forward
    <2> QED
      BY <1>1, <1>2, <2>1, CommandsAfterSend DEF Forward
  <1>3. CASE \E at : Stop(s, at)
    BY <1>1, <1>3, CommandsAfterLoss DEF Stop
  <1>4. CASE Book(s) \/ Start(s)
    BY <1>4 DEF Book, Start, CommandsIn, kafka_vars
  <1> QED
    BY <1>2, <1>3, <1>4 DEF Turn, Poison, ServiceCrash

-----------------------------------------------------------------------------
\* The inductive invariant.  What a command and a record say was read from the
\* request's own state steps ago, so the invariant carries it along the stages.
\* Keys are only deactivated: one that is active now was when the request came.

\* A request served so far: nothing is answered or recorded before the end, and
\* who sent it and that it may be served is what authenticate and authorize found.
Served(r) ==
    /\ stage[r] # "answered" => answer[r] = 0 /\ audit_trail[r] = <<>>
    /\ stage[r] = "received" /\ HasKey(r) => request[r].active
    /\ stage[r] \in {"authorize", "endpoint", "audit"} =>
           /\ actor[r] = request[r].key
           /\ request[r].key \in ApiKeys
           /\ request[r].active
    /\ stage[r] \in {"endpoint", "audit"} => Allowed(r)
    /\ stage[r] = "audit" => status_code[r] \in Codes
    /\ stage[r] = "answered" /\ request[r].path # "health" /\ answer[r] # 500 =>
           audit_trail[r] = <<Record(request[r].key, answer[r])>>

\* A command in topic t: its request is past its endpoint, and was permitted;
\* when it has been answered, the client and the trail know of it, or neither.
Effect(t, m) ==
    /\ m \in CommandMessages
    /\ stage[m.request] \in {"audit", "answered", "lost"}
    /\ stage[m.request] = "audit" => status_code[m.request] = 200
    /\ m.actor = request[m.request].key
    /\ request[m.request].active
    /\ request[m.request].method = "listed"
    /\ Commands[request[m.request].path] = t
    /\ has_permission(KeyRole[m.actor], ENDPOINT_PERMISSIONS[request[m.request].path])
    /\ stage[m.request] = "answered" =>
           \/ answer[m.request] = 200 /\ audit_trail[m.request] = <<Record(m.actor, 200)>>
           \/ answer[m.request] = 500 /\ audit_trail[m.request] = <<>>

IInv ==
    /\ FrontTypeOK
    /\ \A r \in Requests : Served(r)
    /\ \A t \in CommandTopics : \A m \in CommandsIn(t) : Effect(t, m)

\* No key is activated.
NoNewKeys == \A k \in ApiKeys : is_active'[k] => is_active[k]

\* Nothing happens to request q.
Same(q) ==
    /\ request'[q] = request[q]
    /\ stage'[q] = stage[q]
    /\ actor'[q] = actor[q]
    /\ status_code'[q] = status_code[q]
    /\ answer'[q] = answer[q]
    /\ audit_trail'[q] = audit_trail[q]

LEMMA SameServed ==
    ASSUME NEW q \in Requests, Served(q), Same(q), NoNewKeys PROVE Served(q)'
  BY DEF Served, Same, Allowed, NeedsPermission, HasKey, NoNewKeys

LEMMA EffectRequest ==
    ASSUME NEW t, NEW m, Effect(t, m) PROVE m.request \in Requests
  BY DEF Effect, CommandMessages

LEMMA SameEffect ==
    ASSUME NEW t, NEW m, Effect(t, m), Same(m.request) PROVE Effect(t, m)'
  BY DEF Effect, Same

LEMMA OthersAreSame ==
    ASSUME GatewayTypes, NEW r \in Requests, Receive(r) \/ Serve(r) \/ RequestRaises(r),
           NEW q \in Requests, q # r
    PROVE  Same(q)
  <1>1. CASE Receive(r)
    BY <1>1 DEF Receive, Same, GatewayTypes
  <1>2. CASE \/ Health(r) \/ Unauthenticated(r) \/ Forbidden(r) \/ QueryFails(r)
             \/ Audit(r) \/ RequestRaises(r)
    BY <1>2 DEF Health, Unauthenticated, Forbidden, QueryFails, Audit, RequestRaises,
                Answer, audit_log, Same, GatewayTypes
  <1>3. CASE authenticate(r) \/ authorize(r)
    BY <1>3 DEF authenticate, authorize, Same, GatewayTypes
  <1>4. CASE SubmitCommand(r) \/ RejectInput(r) \/ ReadTables(r) \/ NoEndpoint(r)
    BY <1>4 DEF SubmitCommand, RejectInput, ReadTables, NoEndpoint, Respond, Same, GatewayTypes
  <1> QED
    BY <1>1, <1>2, <1>3, <1>4 DEF Serve

\* The record of a request that had none.
LEMMA FirstRecord ==
    ASSUME GatewayTypes, NEW r \in Requests, NEW who, NEW code,
           audit_trail[r] = <<>>, audit_log(r, who, code)
    PROVE  audit_trail'[r] = <<Record(who, code)>>
  <1>1. Append(<<>>, [actor |-> who, status_code |-> code])
            = <<[actor |-> who, status_code |-> code]>>
    OBVIOUS
  <1> QED
    BY <1>1 DEF GatewayTypes, audit_log, Record

LEMMA RespondServed ==
    ASSUME GatewayTypes, NEW r \in Requests, Served(r), stage[r] = "endpoint",
           NEW code \in Codes, Respond(r, code)
    PROVE  Served(r)'
  <1>1. /\ stage'[r] = "audit" /\ status_code'[r] = code
        /\ UNCHANGED <<request, actor, answer, audit_trail>>
    BY DEF Respond, GatewayTypes
  <1> QED
    BY <1>1 DEF Served, Allowed, NeedsPermission

\* A 500, whatever the trail says.
LEMMA ServedError ==
    ASSUME GatewayTypes, NEW r \in Requests, Answer(r, 500)
    PROVE  Served(r)'
  <1>1. stage'[r] = "answered" /\ answer'[r] = 500
    BY DEF Answer, GatewayTypes
  <1> QED
    BY <1>1 DEF Served

LEMMA ServedStep ==
    ASSUME GatewayTypes, NEW r \in Requests, Served(r),
           Receive(r) \/ Serve(r) \/ RequestRaises(r)
    PROVE  Served(r)'
  <1>1. CASE Receive(r)
    <2>1. stage'[r] = "received" /\ audit_trail'[r] = <<>> /\ answer'[r] = 0
      BY <1>1 DEF Receive, Served, GatewayTypes
    <2>2. HasKey(r)' => request'[r].active
      BY <1>1 DEF Receive, HasKey, GatewayTypes
    <2> QED
      BY <2>1, <2>2 DEF Served
  <1>2. CASE Health(r)
    <2>1. /\ stage'[r] = "answered" /\ request'[r].path = "health"
      BY <1>2 DEF Health, Answer, GatewayTypes
    <2> QED
      BY <2>1 DEF Served
  <1>3. CASE authenticate(r)
    <2>1. /\ stage'[r] = "authorize" /\ actor'[r] = request'[r].key
          /\ request' = request /\ request[r].key \in ApiKeys /\ request[r].active
          /\ audit_trail'[r] = <<>> /\ answer'[r] = 0
      BY <1>3 DEF authenticate, Authenticating, HasKey, Served, GatewayTypes
    <2> QED
      BY <2>1 DEF Served
  <1>4. CASE Unauthenticated(r) \/ Forbidden(r) \/ QueryFails(r) \/ RequestRaises(r)
    BY <1>4, ServedError DEF Unauthenticated, Forbidden, QueryFails, RequestRaises
  <1>5. CASE authorize(r)
    <2>1. /\ stage[r] = "authorize" /\ stage'[r] = "endpoint" /\ Allowed(r)
          /\ UNCHANGED <<request, actor, answer, audit_trail>>
      BY <1>5 DEF authorize, GatewayTypes
    <2> QED
      BY <2>1 DEF Served, Allowed, NeedsPermission
  <1>6. CASE SubmitCommand(r) \/ RejectInput(r) \/ ReadTables(r) \/ NoEndpoint(r)
    <2>1. stage[r] = "endpoint" /\ \E code \in Codes : Respond(r, code)
      BY <1>6, FrameworkCodes
         DEF SubmitCommand, RejectInput, ReadTables, NoEndpoint, AtEndpoint, Codes
    <2> QED
      BY <2>1, RespondServed
  <1>7. CASE Audit(r)
    <2>1. audit_trail'[r] = <<Record(request[r].key, status_code[r])>>
      BY <1>7, FirstRecord DEF Audit, Served
    <2>2. /\ stage'[r] = "answered" /\ answer'[r] = status_code[r] /\ request' = request
      BY <1>7 DEF Audit, Answer, GatewayTypes
    <2> QED
      BY <2>1, <2>2 DEF Served
  <1> QED
    BY <1>1, <1>2, <1>3, <1>4, <1>5, <1>6, <1>7 DEF Serve

\* No step of the gateway activates a key.
LEMMA KeysStep ==
    ASSUME GatewayNext PROVE NoNewKeys
  <1>1. CASE \E r \in Requests : Receive(r) \/ Serve(r) \/ RequestRaises(r)
    BY <1>1 DEF NoNewKeys, Receive, Serve, RequestRaises, Health, authenticate,
                Unauthenticated, authorize, Forbidden, SubmitCommand, RejectInput,
                QueryFails, ReadTables, NoEndpoint, Respond, Audit
  <1>2. CASE \E k \in ApiKeys : Deactivate(k)
    BY <1>2 DEF NoNewKeys, Deactivate
  <1>3. CASE GatewayCrash
    BY <1>3 DEF NoNewKeys, GatewayCrash
  <1> QED
    BY <1>1, <1>2, <1>3 DEF GatewayNext

\* A command in a topic survives every step of its own request.
LEMMA EffectStep ==
    ASSUME GatewayTypes, NEW r \in Requests, Served(r),
           Receive(r) \/ Serve(r) \/ RequestRaises(r),
           NEW t, NEW m, Effect(t, m), m.request = r
    PROVE  Effect(t, m)'
  <1>1. stage[r] \in {"audit", "answered", "lost"}
    BY DEF Effect
  <1>2. (Audit(r) \/ RequestRaises(r)) /\ stage[r] = "audit"
    BY <1>1 DEF Receive, Serve, RequestRaises, MayRaise, Health, authenticate,
                Unauthenticated, authorize, Forbidden, SubmitCommand, RejectInput,
                QueryFails, ReadTables, NoEndpoint, Authenticating, AtEndpoint, Audit
  <1>3. audit_trail[r] = <<>> /\ status_code[r] = 200 /\ actor[r] = m.actor
    BY <1>2 DEF Served, Effect
  <1>4. CASE Audit(r)
    <2>1. audit_trail'[r] = <<Record(m.actor, 200)>>
      BY <1>3, <1>4, FirstRecord DEF Audit
    <2>2. stage'[r] = "answered" /\ answer'[r] = 200 /\ UNCHANGED request
      BY <1>3, <1>4 DEF Audit, Answer, GatewayTypes
    <2> QED
      BY <2>1, <2>2 DEF Effect
  <1>5. CASE RequestRaises(r)
    <2>1. /\ stage'[r] = "answered" /\ answer'[r] = 500
          /\ UNCHANGED <<request, audit_trail>>
      BY <1>5 DEF RequestRaises, Answer, GatewayTypes
    <2> QED
      BY <1>3, <2>1 DEF Effect
  <1> QED
    BY <1>2, <1>4, <1>5

\* The command an endpoint sends was asked for and permitted.
LEMMA NewEffect ==
    ASSUME GatewayTypes, NEW r \in Requests, Served(r), SubmitCommand(r)
    PROVE  Effect(Commands[request[r].path], Command(r))'
  <1>1. /\ stage[r] = "endpoint" /\ stage'[r] = "audit" /\ status_code'[r] = 200
        /\ UNCHANGED <<request, actor, audit_trail>>
    BY DEF SubmitCommand, AtEndpoint, Respond, GatewayTypes
  <1>2. request[r].method = "listed" /\ request[r].path \in DOMAIN Commands
    BY DEF SubmitCommand, IsCommand, Routed
  <1>3. has_permission(KeyRole[actor[r]], ENDPOINT_PERMISSIONS[request[r].path])
    BY <1>1, <1>2, TopicTables DEF Served, Allowed, NeedsPermission
  <1>4. /\ Command(r).request = r /\ Command(r).actor = actor[r]
        /\ Command(r)' = Command(r)
        /\ Command(r) \in CommandMessages
    BY <1>1, CommandType DEF Command, SubmitCommand, Accepted
  <1>5. actor[r] = request[r].key /\ request[r].active
    BY <1>1 DEF Served
  <1> QED
    BY <1>1, <1>2, <1>3, <1>4, <1>5 DEF Effect

-----------------------------------------------------------------------------
\* The invariant is inductive.

LEMMA InvInit == FrontInit => IInv
  <1> SUFFICES ASSUME FrontInit PROVE IInv
    OBVIOUS
  <1>1. GatewayTypes
    BY DEF FrontInit, GatewayInit, GatewayTypes, Codes
  <1>2. KafkaTypes
    BY DEF FrontInit, KafkaInit, KafkaTypes
  <1>3. \A t \in Topics : topic[t] = <<>> /\ pending[t] = <<>>
    BY DEF FrontInit, KafkaInit
  <1>4. ServiceTypes
    <2>1. \A s \in Services : Len(topic[Consumes[s]]) = 0
      BY <1>3, TopicTables
    <2>2. /\ up \in [Services -> BOOLEAN]
          /\ position = [s \in Services |-> 0]
          /\ booked \in [Books -> Seq(Requests)]
      BY DEF FrontInit, ServicesInit
    <2> QED
      BY <2>1, <2>2 DEF ServiceTypes
  <1>5. \A r \in Requests : Served(r)
    BY DEF FrontInit, GatewayInit, Served
  <1>6. \A t \in CommandTopics : CommandsIn(t) = {}
    BY <1>3, TopicTables DEF CommandsIn
  <1> QED
    BY <1>1, <1>2, <1>4, <1>5, <1>6 DEF IInv, FrontTypeOK

\* A step that keeps every request keeps what was served.
LEMMA AllSame ==
    ASSUME IInv, NoNewKeys, \A q \in Requests : Same(q),
           \A t \in CommandTopics : CommandsIn(t)' \subseteq CommandsIn(t)
    PROVE  /\ \A r \in Requests : Served(r)'
           /\ \A t \in CommandTopics : \A m \in CommandsIn(t)' : Effect(t, m)'
  <1>1. ASSUME NEW r \in Requests PROVE Served(r)'
    BY SameServed DEF IInv
  <1>2. ASSUME NEW t \in CommandTopics, NEW m \in CommandsIn(t)' PROVE Effect(t, m)'
    <2>1. Effect(t, m) /\ m.request \in Requests
      BY <1>2, EffectRequest DEF IInv
    <2> QED
      BY <2>1, SameEffect
  <1> QED
    BY <1>1, <1>2

LEMMA InvNext == IInv /\ [FrontNext]_front_vars => IInv'
  <1> SUFFICES ASSUME IInv, [FrontNext]_front_vars PROVE IInv'
    OBVIOUS
  <1> USE DEF IInv
  <1>1. GatewayTypes /\ KafkaTypes /\ ServiceTypes
    BY DEF FrontTypeOK
  <1>2. ASSUME UNCHANGED service_vars, topic' = topic PROVE ServiceTypes'
    BY <1>1, <1>2 DEF ServiceTypes, service_vars
  <1>3. ASSUME UNCHANGED gateway_vars
        PROVE  GatewayTypes' /\ NoNewKeys /\ \A q \in Requests : Same(q)
    BY <1>1, <1>3 DEF GatewayTypes, RequestRows, gateway_vars, NoNewKeys, Same
  <1>4. CASE UNCHANGED front_vars
    <2>1. /\ UNCHANGED gateway_vars /\ UNCHANGED service_vars
          /\ topic' = topic /\ KafkaTypes'
          /\ \A t \in CommandTopics : CommandsIn(t)' \subseteq CommandsIn(t)
      BY <1>1, <1>4 DEF front_vars, kafka_vars, KafkaTypes, CommandsIn
    <2> QED
      BY <1>2, <1>3, <2>1, AllSame DEF FrontTypeOK
  <1>5. CASE KafkaNext /\ UNCHANGED <<gateway_vars, service_vars>>
    <2>1. PICK u \in Topics : Deliver(u) \/ DeliverTwice(u) \/ GiveUp(u)
      BY <1>5 DEF KafkaNext
    <2>2. KafkaTypes' /\ \A t \in Topics : Len(topic[t]) <= Len(topic'[t])
      BY <1>1, <2>1, KafkaKeepsTypes
    <2>3. ServiceTypes'
      <3>1. \A s \in Services :
               /\ Consumes[s] \in Topics /\ position[s] \in Nat
               /\ topic[Consumes[s]] \in Seq(Messages)
               /\ topic'[Consumes[s]] \in Seq(Messages)
        BY <1>1, <2>2, TopicTables DEF KafkaTypes, ServiceTypes
      <3>2. \A s \in Services : position[s] <= Len(topic'[Consumes[s]])
        BY <1>1, <2>2, <3>1 DEF ServiceTypes
      <3> QED
        BY <1>1, <1>5, <3>2 DEF ServiceTypes, service_vars
    <2>4. \A t \in CommandTopics : CommandsIn(t)' \subseteq CommandsIn(t)
      BY <1>1, <2>1, CommandsAfterKafka, TopicTables
    <2> QED
      BY <1>3, <1>5, <2>2, <2>3, <2>4, AllSame DEF FrontTypeOK
  <1>6. CASE ServicesNext /\ UNCHANGED gateway_vars
    <2>1. PICK s \in Services : Turn(s) \/ ServiceCrash(s) \/ Start(s)
      BY <1>6 DEF ServicesNext
    <2>2. KafkaTypes' /\ ServiceTypes'
      <3>1. CommandsTyped
        BY DEF CommandsTyped, CommandTopics, Effect
      <3> QED
        BY <1>1, <2>1, <3>1, ServicesKeepTypes
    <2>3. \A t \in CommandTopics : CommandsIn(t)' \subseteq CommandsIn(t)
      BY <1>1, <2>1, CommandsAfterServices
    <2> QED
      BY <1>3, <1>6, <2>2, <2>3, AllSame DEF FrontTypeOK
  <1>7. CASE GatewayNext /\ UNCHANGED service_vars
    <2>1. CASE (\E k \in ApiKeys : Deactivate(k)) \/ GatewayCrash
      <3>1. GatewayTypes' /\ KafkaTypes' /\ topic' = topic
        BY <1>1, <2>1, OtherGatewayTypes
      <3>2. \A t \in CommandTopics : CommandsIn(t)' \subseteq CommandsIn(t)
        <4>1. CASE \E k \in ApiKeys : Deactivate(k)
          BY <4>1 DEF Deactivate, CommandsIn, kafka_vars
        <4>2. CASE GatewayCrash
          BY <1>1, <4>2, CommandsAfterLoss, TopicTables DEF GatewayCrash
        <4> QED
          BY <2>1, <4>1, <4>2
      <3>3. NoNewKeys
        BY <1>7, KeysStep
      <3>4. CASE \E k \in ApiKeys : Deactivate(k)
        <4>1. \A q \in Requests : Same(q)
          BY <3>4 DEF Deactivate, Same
        <4> QED
          BY <1>2, <1>7, <3>1, <3>2, <3>3, <4>1, AllSame DEF FrontTypeOK
      <3>5. CASE GatewayCrash
        <4>1. /\ UNCHANGED <<is_active, request, actor, status_code, answer, audit_trail>>
              /\ \A q \in Requests :
                     stage'[q] = stage[q] \/ stage'[q] = "lost"
          BY <3>5 DEF GatewayCrash
        <4>2. ASSUME NEW q \in Requests PROVE Served(q)'
          <5>1. Served(q) /\ stage'[q] = "answered" => stage[q] = "answered"
            BY <3>5 DEF GatewayCrash, InService
          <5>2. stage[q] = "answered" => stage'[q] = "answered"
            BY <3>5 DEF GatewayCrash, InService
          <5>3. Served(q)
            OBVIOUS
          <5> QED
            BY <4>1, <5>1, <5>2, <5>3 DEF Served, Allowed, NeedsPermission, HasKey
        <4>3. ASSUME NEW t \in CommandTopics, NEW m \in CommandsIn(t)'
              PROVE  Effect(t, m)'
          <5>1. Effect(t, m)
            BY <3>2, <4>3
          <5>2. m.request \in Requests /\ stage'[m.request] \in {stage[m.request], "lost"}
            BY <4>1, <5>1, EffectRequest
          <5> QED
            BY <4>1, <5>1, <5>2 DEF Effect
        <4> QED
          BY <1>2, <1>7, <3>1, <4>2, <4>3 DEF FrontTypeOK
      <3> QED
        BY <2>1, <3>4, <3>5
    <2>2. CASE \E r \in Requests : Receive(r) \/ Serve(r) \/ RequestRaises(r)
      <3>1. PICK r \in Requests : Receive(r) \/ Serve(r) \/ RequestRaises(r)
        BY <2>2
      <3>2. GatewayTypes' /\ KafkaTypes' /\ topic' = topic
        <4>1. Served(r)
          OBVIOUS
        <4>2. stage[r] = "audit" => status_code[r] \in Codes
          BY <4>1 DEF Served
        <4> QED
          BY <1>1, <3>1, <4>2, ServeKeepsTypes
      <3>3. ASSUME NEW q \in Requests PROVE Served(q)'
        <4>1. CASE q = r
          BY <1>1, <3>1, <4>1, ServedStep
        <4>2. CASE q # r
          BY <1>1, <1>7, <3>1, <4>2, OthersAreSame, SameServed, KeysStep
        <4> QED
          BY <4>1, <4>2
      <3>4. ASSUME NEW t \in CommandTopics, NEW m \in CommandsIn(t), Effect(t, m)
            PROVE  Effect(t, m)'
        <4>1. CASE m.request = r
          BY <1>1, <3>1, <3>4, <4>1, EffectStep
        <4>2. CASE m.request # r
          <5>1. m.request \in Requests
            BY <3>4, EffectRequest
          <5>2. Same(m.request)
            BY <1>1, <3>1, <4>2, <5>1, OthersAreSame
          <5> QED
            BY <3>4, <5>2, SameEffect
        <4> QED
          BY <4>1, <4>2
      <3>5. ASSUME NEW t \in CommandTopics, NEW m \in CommandsIn(t)' PROVE Effect(t, m)'
        <4>1. CASE SubmitCommand(r)
          <5>1. \/ m \in CommandsIn(t)
                \/ t = Commands[request[r].path] /\ m = Command(r)
            <6>1. /\ Commands[request[r].path] \in Topics
                  /\ t \in Topics
              BY <4>1, TopicTables DEF SubmitCommand, IsCommand, Routed
            <6> QED
              BY <1>1, <3>5, <4>1, <6>1, CommandsAfterSend DEF SubmitCommand
          <5>2. Effect(Commands[request[r].path], Command(r))'
            BY <1>1, <4>1, NewEffect
          <5>3. Commands[request[r].path]' = Commands[request[r].path]
                    /\ Command(r)' = Command(r)
            BY <4>1 DEF SubmitCommand, Respond, Command
          <5> QED
            BY <3>4, <5>1, <5>2, <5>3
        <4>2. CASE ~SubmitCommand(r)
          <5>1. UNCHANGED pending
            BY <3>1, <4>2 DEF Receive, Serve, RequestRaises, Health, authenticate,
                   Unauthenticated, authorize, Forbidden, RejectInput, QueryFails,
                   ReadTables, NoEndpoint, Audit, kafka_vars
          <5>2. m \in CommandsIn(t)
            BY <3>2, <3>5, <5>1 DEF CommandsIn
          <5> QED
            BY <3>4, <5>2
        <4> QED
          BY <4>1, <4>2
      <3> QED
        BY <1>2, <1>7, <3>2, <3>3, <3>5 DEF FrontTypeOK
    <2> QED
      BY <1>7, <2>1, <2>2 DEF GatewayNext
  <1> QED
    BY <1>4, <1>5, <1>6, <1>7 DEF FrontNext

\* The invariant holds of every behaviour, fair or not.
THEOREM Invariance == FrontSpec => []IInv
  BY InvInit, InvNext, PTL DEF FrontSpec

-----------------------------------------------------------------------------
\* What follows.

\* The variables keep their types, messages those of their topics, and no
\* consumer runs past the end of its topic.
THEOREM TypeCorrect == FrontSpec => []FrontTypeOK
  <1>1. IInv => FrontTypeOK
    BY DEF IInv
  <1> QED
    BY <1>1, Invariance, PTL

\* However requests interleave, a command is one its sender's role permits, sent
\* under the sender's name.
THEOREM CommandsArePermitted == FrontSpec => []OnlyPermittedTakesEffect
  <1>1. IInv => OnlyPermittedTakesEffect
    BY DEF IInv, OnlyPermittedTakesEffect, Effect
  <1> QED
    BY <1>1, Invariance, PTL

\* A key that was inactive when its request came has no command in any topic.
THEOREM InactiveKeysCommandNothing == FrontSpec => []InactiveKeyIsPowerless
  <1>1. IInv => InactiveKeyIsPowerless
    BY DEF IInv, InactiveKeyIsPowerless, Effect
  <1> QED
    BY <1>1, Invariance, PTL

\* An answer that is no 500 is recorded as it was given, and a command's client
\* and its trail agree: success and its record, or neither; exceptions and a
\* gateway that dies included.
THEOREM EffectsLeaveRecords == FrontSpec => []EffectsAreRecorded
  <1>1. ASSUME IInv PROVE EffectsAreRecorded
    <2>1. ASSUME NEW t \in CommandTopics, NEW m \in CommandsIn(t)
          PROVE  \/ /\ answer[m.request] = 200
                    /\ audit_trail[m.request] = <<Record(m.actor, 200)>>
                 \/ answer[m.request] \in {0, 500} /\ audit_trail[m.request] = <<>>
      <3>1. Effect(t, m) /\ m.request \in Requests
        BY <1>1, <2>1, EffectRequest DEF IInv
      <3>2. Served(m.request)
        BY <1>1, <3>1 DEF IInv
      <3>3. CASE stage[m.request] = "answered"
        BY <3>1, <3>3 DEF Effect
      <3>4. CASE stage[m.request] # "answered"
        BY <3>2, <3>4 DEF Served
      <3> QED
        BY <3>3, <3>4
    <2> QED
      BY <1>1, <2>1 DEF IInv, EffectsAreRecorded, Served
  <1> QED
    BY <1>1, Invariance, PTL

-----------------------------------------------------------------------------
\* FillsBounded: the messages that stand for a request are counted from
\* the gateway's memory to execution-fills.

\* Counting the messages of a request in a sequence.

\* Where f names request r, after its first n messages.
Matching(f, n, r) == {i \in DOMAIN f : i > n /\ f[i].request = r}

Count(f, n, r) == Cardinality(Matching(f, n, r))

One(m, r) == IF m.request = r THEN 1 ELSE 0

LEMMA CountType ==
    ASSUME NEW f \in Seq(Messages), NEW n, NEW r
    PROVE  IsFiniteSet(Matching(f, n, r)) /\ Count(f, n, r) \in Nat
  <1>1. DOMAIN f = 1 .. Len(f) /\ Len(f) \in Nat
    OBVIOUS
  <1>2. IsFiniteSet(1 .. Len(f))
    BY <1>1, FS_Interval
  <1>3. Matching(f, n, r) \subseteq 1 .. Len(f)
    BY <1>1 DEF Matching
  <1> QED
    BY <1>2, <1>3, FS_Subset, FS_CardinalityType DEF Count

LEMMA CountEmpty ==
    ASSUME NEW n, NEW r PROVE Count(<<>>, n, r) = 0
  <1>1. Matching(<<>>, n, r) = {}
    BY DEF Matching
  <1> QED
    BY <1>1, FS_EmptySet DEF Count

LEMMA CountSkip ==
    ASSUME NEW f \in Seq(Messages), NEW n \in Nat, NEW k \in Nat, n <= k, NEW r
    PROVE  Count(f, k, r) <= Count(f, n, r)
  <1>1. DOMAIN f \subseteq Nat
    OBVIOUS
  <1>2. Matching(f, k, r) \subseteq Matching(f, n, r)
    BY <1>1 DEF Matching
  <1> QED
    BY <1>2, CountType, FS_Subset DEF Count

LEMMA CountAdvance ==
    ASSUME NEW f \in Seq(Messages), NEW n \in Nat, n + 1 <= Len(f), NEW r
    PROVE  Count(f, n, r) = Count(f, n + 1, r) + One(f[n + 1], r)
  <1>1. DOMAIN f \subseteq Nat /\ n + 1 \in DOMAIN f
    OBVIOUS
  <1>2. CASE f[n + 1].request = r
    <2>1. /\ Matching(f, n, r) = Matching(f, n + 1, r) \cup {n + 1}
          /\ n + 1 \notin Matching(f, n + 1, r)
      BY <1>1, <1>2 DEF Matching
    <2> QED
      BY <1>2, <2>1, CountType, FS_AddElement DEF Count, One
  <1>3. CASE f[n + 1].request # r
    <2>1. Matching(f, n, r) = Matching(f, n + 1, r)
      BY <1>1, <1>3 DEF Matching
    <2> QED
      BY <1>3, <2>1, CountType DEF Count, One
  <1> QED
    BY <1>2, <1>3

LEMMA CountAppend ==
    ASSUME NEW f \in Seq(Messages), NEW m \in Messages, NEW n \in 0 .. Len(f), NEW r
    PROVE  Count(Append(f, m), n, r) = Count(f, n, r) + One(m, r)
  <1> DEFINE g == Append(f, m)
             z == Len(f) + 1
  <1>1. /\ DOMAIN f = 1 .. Len(f) /\ Len(f) \in Nat
        /\ DOMAIN g = 1 .. z
        /\ g[z] = m
        /\ \A i \in 1 .. Len(f) : g[i] = f[i]
    OBVIOUS
  <1>2. CASE m.request = r
    <2>1. /\ Matching(g, n, r) = Matching(f, n, r) \cup {z}
          /\ z \notin Matching(f, n, r)
      BY <1>1, <1>2 DEF Matching
    <2> QED
      BY <1>2, <2>1, CountType, FS_AddElement DEF Count, One
  <1>3. CASE m.request # r
    <2>1. Matching(g, n, r) = Matching(f, n, r)
      BY <1>1, <1>3 DEF Matching
    <2> QED
      BY <1>3, <2>1, CountType DEF Count, One
  <1> QED
    BY <1>2, <1>3

LEMMA CountTail ==
    ASSUME NEW f \in Seq(Messages), f # <<>>, NEW r
    PROVE  Count(f, 0, r) = Count(Tail(f), 0, r) + One(Head(f), r)
  <1> DEFINE g == Tail(f)
  <1>1. /\ DOMAIN f = 1 .. Len(f) /\ Len(f) \in Nat /\ Len(f) >= 1
        /\ g \in Seq(Messages)
        /\ DOMAIN g = 1 .. Len(f) - 1
        /\ \A i \in 1 .. Len(f) - 1 : g[i] = f[i + 1]
        /\ Head(f) = f[1]
    OBVIOUS
  <1>2. Count(g, 0, r) = Count(f, 1, r)
    <2> DEFINE shift == [i \in Matching(g, 0, r) |-> i + 1]
    <2>1. shift \in [Matching(g, 0, r) -> Matching(f, 1, r)]
      BY <1>1 DEF Matching
    <2>2. \A i, j \in Matching(g, 0, r) : shift[i] = shift[j] => i = j
      BY <1>1 DEF Matching
    <2>3. \A j \in Matching(f, 1, r) : \E i \in Matching(g, 0, r) : shift[i] = j
      <3> SUFFICES ASSUME NEW j \in Matching(f, 1, r)
                   PROVE  \E i \in Matching(g, 0, r) : shift[i] = j
        OBVIOUS
      <3>1. /\ j \in 2 .. Len(f) /\ f[j].request = r
        BY <1>1 DEF Matching
      <3>2. j - 1 \in 1 .. Len(f) - 1 /\ (j - 1) + 1 = j
        BY <1>1, <3>1
      <3>3. j - 1 \in Matching(g, 0, r)
        BY <1>1, <3>1, <3>2 DEF Matching
      <3> QED
        BY <3>2, <3>3
    <2>4. shift \in Bijection(Matching(g, 0, r), Matching(f, 1, r))
      BY <2>1, <2>2, <2>3 DEF Bijection, Injection, Surjection, IsInjective
    <2>5. IsFiniteSet(Matching(g, 0, r))
      BY <1>1, CountType
    <2>6. Cardinality(Matching(g, 0, r)) = Cardinality(Matching(f, 1, r))
      BY <2>4, <2>5, FS_Bijection DEF ExistsBijection
    <2> QED
      BY <2>6 DEF Count
  <1>3. Count(f, 0, r) = Count(f, 1, r) + One(f[1], r)
    <2>1. 0 + 1 = 1
      OBVIOUS
    <2> QED
      BY <1>1, <2>1, CountAdvance
  <1> QED
    BY <1>1, <1>2, <1>3

-----------------------------------------------------------------------------
\* The messages of a request on their way.

\* How much of a topic its next service is past; the fills stay.
Past(t) ==
    CASE t = "creation-requests"  -> position["etf_issuer"]
      [] t = "execution-requests" -> position["execution"]
      [] OTHER                    -> 0

\* In the producer's memory, or in the topic and not yet consumed.
Flow(t, r) == Count(pending[t], 0, r) + Count(topic[t], Past(t), r)

Total(r) ==
    Flow("creation-requests", r) + Flow("execution-requests", r) + Flow("execution-fills", r)

LEMMA PastType ==
    ASSUME KafkaTypes, ServiceTypes, NEW t \in Topics
    PROVE  Past(t) \in 0 .. Len(topic[t]) /\ Len(topic[t]) \in Nat
  <1>1. topic[t] \in Seq(Messages)
    BY DEF KafkaTypes
  <1>2. Len(topic[t]) \in Nat
    BY <1>1
  <1>3. CASE t = "creation-requests"
    BY <1>2, <1>3 DEF Past, ServiceTypes, Services, Consumes
  <1>4. CASE t = "execution-requests"
    BY <1>2, <1>4 DEF Past, ServiceTypes, Services, Consumes
  <1>5. CASE t \notin {"creation-requests", "execution-requests"}
    BY <1>2, <1>5 DEF Past
  <1> QED
    BY <1>2, <1>3, <1>4, <1>5

LEMMA FlowType ==
    ASSUME KafkaTypes, NEW t \in Topics, NEW n, NEW r
    PROVE  /\ pending[t] \in Seq(Messages) /\ topic[t] \in Seq(Messages)
           /\ Count(pending[t], 0, r) \in Nat /\ Count(topic[t], n, r) \in Nat
  BY CountType DEF KafkaTypes

LEMMA FlowsType ==
    ASSUME KafkaTypes, NEW r
    PROVE  \A t \in Topics : Flow(t, r) \in Nat
  <1> SUFFICES ASSUME NEW t \in Topics PROVE Flow(t, r) \in Nat
    OBVIOUS
  <1>1. Count(pending[t], 0, r) \in Nat /\ Count(topic[t], Past(t), r) \in Nat
    BY FlowType
  <1> QED
    BY <1>1 DEF Flow

LEMMA FlowsTypePrimed ==
    ASSUME KafkaTypes', NEW r
    PROVE  \A t \in Topics : Flow(t, r)' \in Nat
  <1>1. \A t \in Topics :
           Count(pending'[t], 0, r) \in Nat /\ Count(topic'[t], Past(t)', r) \in Nat
    BY CountType DEF KafkaTypes
  <1> QED
    BY <1>1 DEF Flow

LEMMA FlowAfterSend ==
    ASSUME KafkaTypes, NEW u \in Topics, NEW m \in Messages, send(u, m), NEW r
    PROVE  \A t \in Topics :
               Count(pending'[t], 0, r) =
                   Count(pending[t], 0, r) + (IF t = u THEN One(m, r) ELSE 0)
  <1> SUFFICES ASSUME NEW t \in Topics
               PROVE  Count(pending'[t], 0, r) =
                          Count(pending[t], 0, r) + (IF t = u THEN One(m, r) ELSE 0)
    OBVIOUS
  <1>1. pending[t] \in Seq(Messages) /\ Count(pending[t], 0, r) \in Nat
    BY FlowType
  <1>2. CASE t = u
    <2>1. pending'[t] = Append(pending[t], m)
      BY <1>2 DEF send, KafkaTypes
    <2>2. 0 \in 0 .. Len(pending[t])
      BY <1>1
    <2> QED
      BY <1>1, <1>2, <2>1, <2>2, CountAppend
  <1>3. CASE t # u
    <2>1. pending'[t] = pending[t]
      BY <1>3 DEF send, KafkaTypes
    <2> QED
      BY <1>1, <1>3, <2>1
  <1> QED
    BY <1>2, <1>3

LEMMA FlowAfterLoss ==
    ASSUME KafkaTypes, NEW ts, LoseMemory(ts), NEW r
    PROVE  \A t \in Topics : Count(pending'[t], 0, r) <= Count(pending[t], 0, r)
  <1> SUFFICES ASSUME NEW t \in Topics
               PROVE  Count(pending'[t], 0, r) <= Count(pending[t], 0, r)
    OBVIOUS
  <1>1. pending'[t] = <<>> \/ pending'[t] = pending[t]
    BY DEF LoseMemory
  <1>2. Count(pending[t], 0, r) \in Nat /\ Count(<<>>, 0, r) = 0
    BY FlowType, CountEmpty
  <1> QED
    BY <1>1, <1>2

\* What leaves a producer's memory is in its topic once, twice or not at all.
LEMMA FlowAfterSent ==
    ASSUME KafkaTypes, NEW u \in Topics, NEW copies, Sent(u, copies),
           UNCHANGED position, NEW r
    PROVE  /\ \A t \in Topics \ {u} : Flow(t, r)' = Flow(t, r)
           /\ Flow(u, r)' = Count(pending[u], 0, r) - One(Head(pending[u]), r)
                                + Count(topic[u] \o copies, Past(u), r)
  <1>1. ASSUME NEW t \in Topics PROVE Past(t)' = Past(t)
    BY DEF Past
  <1>2. ASSUME NEW t \in Topics \ {u} PROVE Flow(t, r)' = Flow(t, r)
    <2>1. pending'[t] = pending[t] /\ topic'[t] = topic[t]
      BY <1>2 DEF Sent, KafkaTypes
    <2> QED
      BY <1>1, <2>1 DEF Flow
  <1>3. Flow(u, r)' = Count(pending[u], 0, r) - One(Head(pending[u]), r)
                          + Count(topic[u] \o copies, Past(u), r)
    <2>1. /\ pending'[u] = Tail(pending[u])
          /\ topic'[u] = topic[u] \o copies
          /\ pending[u] \in Seq(Messages) /\ pending[u] # <<>>
      BY DEF Sent, KafkaTypes
    <2>2. Count(pending[u], 0, r) = Count(Tail(pending[u]), 0, r) + One(Head(pending[u]), r)
      BY <2>1, CountTail
    <2>3. Tail(pending[u]) \in Seq(Messages)
      BY <2>1
    <2>4. Count(Tail(pending[u]), 0, r) \in Nat /\ One(Head(pending[u]), r) \in 0 .. 1
      <3>1. One(Head(pending[u]), r) \in 0 .. 1
        BY DEF One
      <3> QED
        BY <2>3, <3>1, CountType
    <2>5. Flow(u, r)' = Count(Tail(pending[u]), 0, r) + Count(topic[u] \o copies, Past(u), r)
      BY <1>1, <2>1 DEF Flow
    <2>6. Count(Tail(pending[u]), 0, r)
              = Count(pending[u], 0, r) - One(Head(pending[u]), r)
      BY <2>2, <2>4
    <2> QED
      BY <2>5, <2>6
  <1> QED
    BY <1>2, <1>3

LEMMA FlowAfterKafka ==
    ASSUME KafkaTypes, ServiceTypes, NEW u \in Topics,
           Deliver(u) \/ DeliverTwice(u) \/ GiveUp(u), UNCHANGED position, NEW r
    PROVE  /\ \A t \in Topics \ {u} : Flow(t, r)' = Flow(t, r)
           /\ \/ Flow(u, r)' <= Flow(u, r)
              \/ /\ DeliverTwice(u) /\ Head(pending[u]).request = r
                 /\ Flow(u, r) > 0 /\ Flow(u, r)' <= Flow(u, r) + 1
  <1> DEFINE h == Head(pending[u])
             f == topic[u]
             n == Past(u)
             c == Count(pending[u], 0, r)
             d == Count(f, n, r)
             o == One(h, r)
  <1>1. /\ pending[u] \in Seq(Messages) /\ pending[u] # <<>>
        /\ h \in Messages
        /\ f \in Seq(Messages)
    BY FlowType DEF Deliver, DeliverTwice, GiveUp, Sent
  <1>2. n \in 0 .. Len(f) /\ Len(f) \in Nat
    BY PastType
  <1>3. c \in Nat /\ d \in Nat /\ o \in 0 .. 1 /\ o <= c /\ Flow(u, r) = c + d
    <2>1. c \in Nat /\ d \in Nat /\ o \in 0 .. 1 /\ Flow(u, r) = c + d
      BY <1>1, CountType DEF One, Flow
    <2>2. Tail(pending[u]) \in Seq(Messages)
      BY <1>1
    <2>3. Count(Tail(pending[u]), 0, r) \in Nat
      BY <2>2, CountType
    <2>4. c = Count(Tail(pending[u]), 0, r) + o
      BY <1>1, CountTail
    <2> HIDE DEF c, d, o
    <2> QED
      BY <2>1, <2>3, <2>4
  <1>4. Count(Append(f, h), n, r) = d + o
    BY <1>1, <1>2, CountAppend
  <1> HIDE DEF c, d, o
  <1>5. CASE Deliver(u)
    <2>1. f \o <<h>> = Append(f, h)
      BY <1>1
    <2>2. /\ \A t \in Topics \ {u} : Flow(t, r)' = Flow(t, r)
          /\ Flow(u, r)' = c - o + Count(f \o <<h>>, n, r)
      BY <1>5, FlowAfterSent DEF Deliver, c, o
    <2>3. Count(f \o <<h>>, n, r) = d + o
      BY <1>4, <2>1, Zenon
    <2> HIDE DEF h, f, n
    <2> QED
      BY <1>3, <2>2, <2>3
  <1>6. CASE GiveUp(u)
    <2>1. f \o <<>> = f
      BY <1>1
    <2>2. /\ \A t \in Topics \ {u} : Flow(t, r)' = Flow(t, r)
          /\ Flow(u, r)' = c - o + Count(f \o <<>>, n, r)
      BY <1>6, FlowAfterSent DEF GiveUp, c, o
    <2>3. Flow(u, r)' = c - o + d
      BY <2>1, <2>2 DEF d
    <2> QED
      BY <1>3, <2>2, <2>3
  <1>7. CASE DeliverTwice(u)
    <2> DEFINE g == Append(f, h)
    <2>1. f \o <<h, h>> = Append(g, h)
      BY <1>1
    <2>2. /\ \A t \in Topics \ {u} : Flow(t, r)' = Flow(t, r)
          /\ Flow(u, r)' = c - o + Count(f \o <<h, h>>, n, r)
      BY <1>7, FlowAfterSent DEF DeliverTwice, c, o
    <2>3. g \in Seq(Messages) /\ n \in 0 .. Len(g)
      BY <1>1, <1>2
    <2>4. Count(Append(g, h), n, r) = Count(g, n, r) + o
      BY <1>1, <2>3, CountAppend DEF o
    <2>5. Count(f \o <<h, h>>, n, r) = (d + o) + o
      BY <1>4, <2>1, <2>4, Zenon
    <2>7. o = 0 \/ h.request = r
      BY DEF o, One
    <2> HIDE DEF h, f, n
    <2>6. Flow(u, r)' = c - o + ((d + o) + o)
      BY <2>2, <2>5
    <2>8. /\ o = 0 => Flow(u, r)' <= Flow(u, r)
          /\ o = 1 => Flow(u, r) > 0 /\ Flow(u, r)' <= Flow(u, r) + 1
      BY <1>3, <2>6
    <2>9. o = 0 \/ o = 1
      BY <1>3
    <2> QED
      BY <1>7, <2>2, <2>7, <2>8, <2>9 DEF h
  <1> QED
    BY <1>5, <1>6, <1>7

\* A consumer that goes on, or starts later in its topic, leaves less behind.
LEMMA FlowAfterSkip ==
    ASSUME KafkaTypes, ServiceTypes, ServiceTypes', UNCHANGED topic, NEW t \in Topics,
           Past(t) <= Past(t)', NEW r
    PROVE  Count(topic[t], Past(t), r)' <= Count(topic[t], Past(t), r)
  <1>1. topic[t] \in Seq(Messages)
    BY DEF KafkaTypes
  <1>2. Past(t) \in Nat /\ Past(t)' \in Nat
    BY PastType DEF Past, ServiceTypes, Services
  <1> QED
    BY <1>1, <1>2, CountSkip

\* A service that forwards a message only moves it.
LEMMA FlowAfterForward ==
    ASSUME KafkaTypes, ServiceTypes, CommandsTyped, NEW s \in Services, Forward(s),
           NEW c \in Topics, NEW p \in Topics, c # p,
           Consumes[s] = c, Produces[s] = p,
           Past(c) = position[s], Past(c)' = position[s] + 1,
           \A t \in Topics \ {c} : Past(t)' = Past(t), NEW r
    PROVE  /\ \A t \in Topics \ {c, p} : Flow(t, r)' = Flow(t, r)
           /\ Flow(c, r)' + Flow(p, r)' = Flow(c, r) + Flow(p, r)
  <1> DEFINE m == Forwarded(s)
             n == position[s]
  <1>1. /\ m \in Messages /\ m.request = NextMessage(s).request
        /\ n \in Nat /\ n + 1 <= Len(topic[c])
    BY NextMessageType, ForwardedType DEF Forward
  <1>2. /\ UNCHANGED topic
        /\ \A t \in Topics :
               Count(pending'[t], 0, r) =
                   Count(pending[t], 0, r) + (IF t = p THEN One(m, r) ELSE 0)
    BY <1>1, FlowAfterSend DEF Forward
  <1>3. /\ \A t \in Topics : Count(pending[t], 0, r) \in Nat
        /\ Count(topic[c], n, r) \in Nat /\ Count(topic[c], n + 1, r) \in Nat
        /\ Count(topic[p], Past(p), r) \in Nat
        /\ One(m, r) \in Nat
    BY FlowType DEF One
  <1>4. Count(topic[c], n, r) = Count(topic[c], n + 1, r) + One(m, r)
    <2>1. topic[c] \in Seq(Messages)
      BY FlowType
    <2>2. Count(topic[c], n, r) = Count(topic[c], n + 1, r) + One(topic[c][n + 1], r)
      BY <1>1, <2>1, CountAdvance
    <2>3. One(topic[c][n + 1], r) = One(m, r)
      BY <1>1 DEF One, NextMessage
    <2> QED
      BY <2>2, <2>3
  <1>5. ASSUME NEW t \in Topics \ {c, p} PROVE Flow(t, r)' = Flow(t, r)
    BY <1>2, <1>3, <1>5 DEF Flow
  <1>6. Flow(c, r)' = Count(pending[c], 0, r) + Count(topic[c], n + 1, r)
    BY <1>2, <1>3 DEF Flow
  <1>7. Flow(p, r)' = Count(pending[p], 0, r) + One(m, r) + Count(topic[p], Past(p), r)
    BY <1>2, <1>3 DEF Flow
  <1>8. /\ Flow(c, r) = Count(pending[c], 0, r) + Count(topic[c], n, r)
        /\ Flow(p, r) = Count(pending[p], 0, r) + Count(topic[p], Past(p), r)
    BY DEF Flow
  <1> QED
    BY <1>3, <1>4, <1>5, <1>6, <1>7, <1>8

\* No step of a service adds to what is on its way.
LEMMA TotalAfterServices ==
    ASSUME KafkaTypes, ServiceTypes, ServiceTypes', CommandsTyped, NEW s \in Services,
           Turn(s) \/ ServiceCrash(s) \/ Start(s), NEW r, KafkaTypes'
    PROVE  Total(r)' <= Total(r)
  <1>1. \A t \in Topics : Flow(t, r) \in Nat /\ Flow(t, r)' \in Nat
    BY FlowsType, FlowsTypePrimed
  <1>2. CASE Forward(s)
    <2>1. s \in {"etf_issuer", "execution"}
      BY <1>2 DEF Forward, Produces
    <2>2. position'[s] = position[s] + 1 /\ \A v \in Services \ {s} : position'[v] = position[v]
      BY <1>2 DEF Forward, Advance, ServiceTypes
    <2>3. CASE s = "etf_issuer"
      <3>1. /\ Consumes[s] = "creation-requests" /\ Produces[s] = "execution-requests"
            /\ "execution" \in Services \ {s}
        BY <2>3 DEF Consumes, Produces, Services
      <3>2. /\ Past("creation-requests") = position[s]
            /\ Past("creation-requests")' = position[s] + 1
            /\ \A t \in Topics \ {"creation-requests"} : Past(t)' = Past(t)
        BY <2>2, <2>3, <3>1 DEF Past
      <3>3. /\ Flow("execution-fills", r)' = Flow("execution-fills", r)
            /\ Flow("creation-requests", r)' + Flow("execution-requests", r)'
                   = Flow("creation-requests", r) + Flow("execution-requests", r)
        BY <1>2, <3>1, <3>2, FlowAfterForward DEF Topics
      <3> QED
        BY <1>1, <3>3 DEF Total, Topics
    <2>4. CASE s = "execution"
      <3>1. /\ Consumes[s] = "execution-requests" /\ Produces[s] = "execution-fills"
            /\ "etf_issuer" \in Services \ {s}
        BY <2>4 DEF Consumes, Produces, Services
      <3>2. /\ Past("execution-requests") = position[s]
            /\ Past("execution-requests")' = position[s] + 1
            /\ \A t \in Topics \ {"execution-requests"} : Past(t)' = Past(t)
        BY <2>2, <2>4, <3>1 DEF Past
      <3>3. /\ Flow("creation-requests", r)' = Flow("creation-requests", r)
            /\ Flow("execution-requests", r)' + Flow("execution-fills", r)'
                   = Flow("execution-requests", r) + Flow("execution-fills", r)
        BY <1>2, <3>1, <3>2, FlowAfterForward DEF Topics
      <3> QED
        BY <1>1, <3>3 DEF Total, Topics
    <2> QED
      BY <2>1, <2>3, <2>4
  <1>3. CASE ~Forward(s)
    <2>1. /\ UNCHANGED topic
          /\ \A t \in Topics : Count(pending'[t], 0, r) <= Count(pending[t], 0, r)
      <3>1. CASE \E at : Stop(s, at)
        BY <3>1, FlowAfterLoss DEF Stop
      <3>2. CASE UNCHANGED <<pending, topic>>
        BY <3>2, FlowType
      <3> QED
        BY <1>3, <3>1, <3>2 DEF Turn, Book, Poison, ServiceCrash, Start, kafka_vars
    <2>2. \A v \in Services : position[v] <= position'[v]
      <3>1. \A v \in Services : position[v] \in Nat /\ position[v] <= Len(topic[Consumes[v]])
        BY DEF ServiceTypes
      <3>2. CASE Book(s)
        BY <3>1, <3>2 DEF Book, Advance, ServiceTypes
      <3>3. CASE Start(s)
        BY <3>1, <3>3 DEF Start, ServiceTypes
      <3>4. CASE UNCHANGED position
        BY <3>1, <3>4
      <3> QED
        BY <1>3, <3>2, <3>3, <3>4 DEF Turn, Poison, ServiceCrash, Stop
    <2>3. \A t \in Topics : Past(t) <= Past(t)'
      <3>1. "etf_issuer" \in Services /\ "execution" \in Services
        BY DEF Services
      <3> QED
        BY <2>2, <3>1 DEF Past
    <2>4. ASSUME NEW t \in Topics PROVE Flow(t, r)' <= Flow(t, r)
      <3>1. Count(topic[t], Past(t), r)' <= Count(topic[t], Past(t), r)
        BY <2>1, <2>3, FlowAfterSkip
      <3>2. /\ Count(pending[t], 0, r) \in Nat /\ Count(topic[t], Past(t), r) \in Nat
            /\ Count(pending'[t], 0, r) <= Count(pending[t], 0, r)
        BY <2>1, FlowType
      <3>3. /\ Count(pending'[t], 0, r) \in Nat
            /\ Count(topic'[t], Past(t)', r) \in Nat
        BY CountType DEF KafkaTypes
      <3> QED
        BY <3>1, <3>2, <3>3 DEF Flow
    <2> QED
      BY <1>1, <2>4 DEF Total, Topics
  <1> QED
    BY <1>2, <1>3

-----------------------------------------------------------------------------
\* The invariant: a request has no message before its endpoint has sent one,
\* and then one, and one more for each repeated delivery.

Early(r) == stage[r] \in {"none", "received", "authorize", "endpoint"}

Flows(r) ==
    /\ Early(r) => Total(r) = 0
    /\ Total(r) <= 1 + duplicates[r]

FInv == IInv /\ \A r \in Requests : Flows(r)

LEMMA TotalType ==
    ASSUME KafkaTypes, NEW r PROVE Total(r) \in Nat
  BY FlowsType DEF Total, Topics

LEMMA TotalTypePrimed ==
    ASSUME KafkaTypes', NEW r PROVE Total(r)' \in Nat
  BY FlowsTypePrimed DEF Total, Topics

\* Nothing more on its way, no new duplicate, no request back before its endpoint.
LEMMA FlowsShrink ==
    ASSUME KafkaTypes, KafkaTypes', NEW r \in Requests, Flows(r), Early(r)' => Early(r),
           duplicates' = duplicates, Total(r)' <= Total(r)
    PROVE  Flows(r)'
  <1>1. Total(r) \in Nat /\ Total(r)' \in Nat /\ duplicates[r] \in Nat
    BY TotalType, TotalTypePrimed DEF KafkaTypes
  <1> QED
    BY <1>1 DEF Flows

LEMMA FlowsKafka ==
    ASSUME KafkaTypes, KafkaTypes', ServiceTypes, NEW u \in Topics,
           Deliver(u) \/ DeliverTwice(u) \/ GiveUp(u),
           UNCHANGED <<position, stage>>, NEW r \in Requests, Flows(r)
    PROVE  Flows(r)'
  <1>1. \A t \in Topics : Flow(t, r) \in Nat /\ Flow(t, r)' \in Nat
    BY FlowsType, FlowsTypePrimed
  <1>2. /\ \A t \in Topics \ {u} : Flow(t, r)' = Flow(t, r)
        /\ \/ Flow(u, r)' <= Flow(u, r)
           \/ /\ DeliverTwice(u) /\ Head(pending[u]).request = r
              /\ Flow(u, r) > 0 /\ Flow(u, r)' <= Flow(u, r) + 1
    BY FlowAfterKafka
  <1>3. Total(r) \in Nat /\ Total(r)' \in Nat /\ duplicates[r] \in Nat
    BY TotalType, TotalTypePrimed DEF KafkaTypes
  <1>4. CASE Total(r)' <= Total(r)
    <2>1. duplicates'[r] \in {duplicates[r], duplicates[r] + 1}
      BY DEF Deliver, DeliverTwice, GiveUp, KafkaTypes
    <2>2. Early(r)' = Early(r)
      BY DEF Early
    <2> QED
      BY <1>3, <1>4, <2>1, <2>2 DEF Flows
  <1>5. CASE /\ u # "settlement-commands"
             /\ DeliverTwice(u) /\ Head(pending[u]).request = r
             /\ Flow(u, r) > 0 /\ Flow(u, r)' <= Flow(u, r) + 1
    <2>1. Total(r)' <= Total(r) + 1 /\ Total(r) > 0
      BY <1>1, <1>2, <1>5 DEF Total, Topics
    <2>2. duplicates'[r] = duplicates[r] + 1
      BY <1>5 DEF DeliverTwice, KafkaTypes
    <2>3. ~Early(r) /\ Early(r)' = Early(r)
      BY <1>3, <2>1 DEF Flows, Early
    <2> QED
      BY <1>3, <2>1, <2>2, <2>3 DEF Flows
  <1>6. CASE u = "settlement-commands" \/ Flow(u, r)' <= Flow(u, r)
    <2>1. Total(r)' <= Total(r)
      BY <1>1, <1>2, <1>6 DEF Total, Topics
    <2> QED
      BY <1>4, <2>1
  <1> QED
    BY <1>2, <1>5, <1>6

\* The endpoint sends one message for its request, and none for another.
LEMMA FlowsSubmit ==
    ASSUME GatewayTypes, KafkaTypes, KafkaTypes', NEW q \in Requests, SubmitCommand(q),
           UNCHANGED position, NEW r \in Requests, Flows(r)
    PROVE  Flows(r)'
  <1> DEFINE c == Commands[request[q].path]
  <1>1. c \in Topics /\ Command(q) \in Messages /\ send(c, Command(q))
        /\ UNCHANGED <<topic, duplicates>>
    BY TopicTables, CommandType DEF SubmitCommand, IsCommand, Accepted, Routed
  <1>2. One(Command(q), r) = IF q = r THEN 1 ELSE 0
    BY DEF One, Command
  <1> HIDE DEF c
  <1>3. \A t \in Topics :
           Count(pending'[t], 0, r) =
               Count(pending[t], 0, r) + (IF t = c THEN One(Command(q), r) ELSE 0)
    BY <1>1, FlowAfterSend
  <1>4. \A t \in Topics :
           Flow(t, r)' = Flow(t, r) + (IF t = c THEN One(Command(q), r) ELSE 0)
    <2> SUFFICES ASSUME NEW t \in Topics
                 PROVE  Flow(t, r)' = Flow(t, r) + (IF t = c THEN One(Command(q), r) ELSE 0)
      OBVIOUS
    <2>1. Count(topic[t], Past(t), r)' = Count(topic[t], Past(t), r)
      BY <1>1 DEF Past
    <2>2. Count(pending[t], 0, r) \in Nat /\ Count(topic[t], Past(t), r) \in Nat
      BY FlowType
    <2> QED
      BY <1>2, <1>3, <2>1, <2>2 DEF Flow
  <1>5. \A t \in Topics : Flow(t, r) \in Nat
    BY FlowsType
  <1>6. Total(r) \in Nat /\ Total(r)' \in Nat /\ duplicates[r] \in Nat
    BY TotalType, TotalTypePrimed DEF KafkaTypes
  <1>7. /\ stage[q] = "endpoint" /\ stage'[q] = "audit"
        /\ \A p \in Requests \ {q} : stage'[p] = stage[p]
    BY DEF SubmitCommand, AtEndpoint, Respond, GatewayTypes
  <1>8. CASE q = r
    <2>1. Total(r)' <= Total(r) + 1
      BY <1>2, <1>4, <1>5, <1>8 DEF Total, Topics
    <2>2. Total(r) = 0 /\ ~Early(r)'
      BY <1>7, <1>8 DEF Flows, Early
    <2> QED
      BY <1>1, <1>6, <2>1, <2>2 DEF Flows
  <1>9. CASE q # r
    <2>1. Total(r)' <= Total(r)
      BY <1>2, <1>4, <1>5, <1>9 DEF Total, Topics
    <2>2. Early(r)' = Early(r)
      BY <1>7, <1>9 DEF Early
    <2> QED
      BY <1>1, <1>6, <2>1, <2>2 DEF Flows
  <1> QED
    BY <1>8, <1>9

\* Every other step of the gateway adds nothing, and no request goes back.
LEMMA FlowsGateway ==
    ASSUME GatewayTypes, KafkaTypes, KafkaTypes', GatewayNext, UNCHANGED service_vars,
           ~ \E q \in Requests : SubmitCommand(q),
           NEW r \in Requests, Flows(r)
    PROVE  Flows(r)'
  <1>1. /\ UNCHANGED <<topic, duplicates, position>>
        /\ UNCHANGED pending \/ \E ts : LoseMemory(ts)
    BY DEF GatewayNext, Receive, Serve, RequestRaises, Deactivate, GatewayCrash, Health,
           authenticate, Unauthenticated, authorize, Forbidden, RejectInput, QueryFails,
           ReadTables, NoEndpoint, Audit, kafka_vars, service_vars
  <1>2. Early(r)' => Early(r)
    <2>1. CASE \E q \in Requests : Receive(q) \/ Serve(q) \/ RequestRaises(q)
      <3>1. PICK q \in Requests : Receive(q) \/ Serve(q) \/ RequestRaises(q)
        BY <2>1
      <3>2. CASE q = r
        BY <3>1, <3>2
           DEF Early, Receive, Serve, RequestRaises, MayRaise, Answer, Respond, Health,
               authenticate, Authenticating, Unauthenticated, authorize, Forbidden,
               SubmitCommand, RejectInput, QueryFails, ReadTables, NoEndpoint,
               AtEndpoint, Audit, GatewayTypes
      <3>3. CASE q # r
        BY <3>1, <3>3, OthersAreSame DEF Same, Early
      <3> QED
        BY <3>2, <3>3
    <2>2. CASE \E k \in ApiKeys : Deactivate(k)
      BY <2>2 DEF Deactivate, Early
    <2>3. CASE GatewayCrash
      BY <2>3 DEF GatewayCrash, InService, Early
    <2> QED
      BY <2>1, <2>2, <2>3 DEF GatewayNext
  <1>3. \A t \in Topics : Flow(t, r)' <= Flow(t, r)
    <2> SUFFICES ASSUME NEW t \in Topics PROVE Flow(t, r)' <= Flow(t, r)
      OBVIOUS
    <2>1. Count(pending[t], 0, r) \in Nat /\ Count(topic[t], Past(t), r) \in Nat
      BY FlowType
    <2>2. Count(pending'[t], 0, r) \in Nat /\ Count(pending'[t], 0, r) <= Count(pending[t], 0, r)
      <3>1. Count(pending'[t], 0, r) \in Nat
        BY CountType DEF KafkaTypes
      <3>2. CASE UNCHANGED pending
        BY <2>1, <3>2
      <3>3. CASE \E ts : LoseMemory(ts)
        <4>1. PICK ts : LoseMemory(ts)
          BY <3>3
        <4>2. \A v \in Topics : Count(pending'[v], 0, r) <= Count(pending[v], 0, r)
          BY <4>1, FlowAfterLoss
        <4> QED
          BY <4>2, <3>1
      <3> QED
        BY <1>1, <3>1, <3>2, <3>3
    <2>3. Count(topic[t], Past(t), r)' = Count(topic[t], Past(t), r)
      BY <1>1 DEF Past
    <2> QED
      BY <2>1, <2>2, <2>3 DEF Flow
  <1>4. \A t \in Topics : Flow(t, r) \in Nat /\ Flow(t, r)' \in Nat
    BY FlowsType, FlowsTypePrimed
  <1>5. Total(r)' <= Total(r)
    BY <1>3, <1>4 DEF Total, Topics
  <1> QED
    BY <1>1, <1>2, <1>5, FlowsShrink

LEMMA FInvInit == FrontInit => FInv
  <1> SUFFICES ASSUME FrontInit PROVE FInv
    OBVIOUS
  <1>1. ASSUME NEW r \in Requests PROVE Flows(r)
    <2>1. \A t \in Topics : pending[t] = <<>> /\ topic[t] = <<>> /\ duplicates[r] = 0
      BY DEF FrontInit, KafkaInit
    <2>2. \A t \in Topics : Flow(t, r) = 0
      BY <2>1, CountEmpty DEF Flow
    <2>3. Total(r) = 0
      BY <2>2 DEF Total, Topics
    <2> QED
      BY <2>1, <2>3 DEF Flows, Topics
  <1> QED
    BY <1>1, InvInit DEF FInv

LEMMA FInvNext == FInv /\ [FrontNext]_front_vars => FInv'
  <1> SUFFICES ASSUME FInv, [FrontNext]_front_vars PROVE FInv'
    OBVIOUS
  <1>1. IInv /\ IInv'
    BY InvNext DEF FInv
  <1>2. /\ GatewayTypes /\ KafkaTypes /\ ServiceTypes
        /\ KafkaTypes' /\ ServiceTypes'
    BY <1>1 DEF IInv, FrontTypeOK
  <1>3. ASSUME NEW r \in Requests PROVE Flows(r)'
    <2>1. Flows(r)
      BY DEF FInv
    <2>2. CASE UNCHANGED front_vars
      BY <2>1, <2>2 DEF front_vars, kafka_vars, gateway_vars, service_vars, Flows, Early,
                        Total, Flow, Past
    <2>3. CASE KafkaNext /\ UNCHANGED <<gateway_vars, service_vars>>
      <3>1. PICK u \in Topics : Deliver(u) \/ DeliverTwice(u) \/ GiveUp(u)
        BY <2>3 DEF KafkaNext
      <3>2. UNCHANGED <<position, stage>>
        BY <2>3 DEF gateway_vars, service_vars
      <3> QED
        BY <1>2, <2>1, <3>1, <3>2, FlowsKafka
    <2>4. CASE ServicesNext /\ UNCHANGED gateway_vars
      <3>1. PICK s \in Services : Turn(s) \/ ServiceCrash(s) \/ Start(s)
        BY <2>4 DEF ServicesNext
      <3>2. Total(r)' <= Total(r)
        <4>1. CommandsTyped
          BY <1>1 DEF IInv, CommandsTyped, CommandTopics, Effect
        <4> QED
          BY <1>2, <3>1, <4>1, TotalAfterServices
      <3>3. duplicates' = duplicates
        BY <3>1 DEF Turn, Forward, Book, Poison, ServiceCrash, Start, Stop, kafka_vars
      <3>4. Early(r)' = Early(r)
        BY <2>4 DEF gateway_vars, Early
      <3> QED
        BY <1>2, <2>1, <3>2, <3>3, <3>4, FlowsShrink
    <2>5. CASE GatewayNext /\ UNCHANGED service_vars
      <3>1. CASE \E q \in Requests : SubmitCommand(q)
        <4>1. UNCHANGED position
          BY <2>5 DEF service_vars
        <4> QED
          BY <1>2, <2>1, <3>1, <4>1, FlowsSubmit
      <3>2. CASE ~ \E q \in Requests : SubmitCommand(q)
        BY <1>2, <2>1, <2>5, <3>2, FlowsGateway
      <3> QED
        BY <3>1, <3>2
    <2> QED
      BY <2>2, <2>3, <2>4, <2>5 DEF FrontNext
  <1> QED
    BY <1>1, <1>3 DEF FInv

\* However consumers stop, start and skip, no request is filled more than once,
\* and once more for each time a producer repeated a message of that request.
THEOREM FillsAreNotRepeated == FrontSpec => []FillsBounded
  <1>1. ASSUME FInv PROVE FillsBounded
    <2> SUFFICES ASSUME NEW r \in Requests
                 PROVE  Cardinality(Fills({r})) <= 1 + duplicates[r]
      BY DEF FillsBounded
    <2>1. KafkaTypes /\ Flows(r)
      BY <1>1 DEF FInv, IInv, FrontTypeOK
    <2>2. "execution-fills" \in Topics
      BY DEF Topics
    <2>3. topic["execution-fills"] \in Seq(Messages)
      BY <2>1, <2>2 DEF KafkaTypes
    <2>4. DOMAIN topic["execution-fills"] = 1 .. Len(topic["execution-fills"])
      BY <2>3
    <2>5. Fills({r}) = Matching(topic["execution-fills"], 0, r)
      BY <2>4 DEF Fills, Matching
    <2>6. Past("execution-fills") = 0
      BY DEF Past
    <2>7. Count(topic["execution-fills"], 0, r) <= Flow("execution-fills", r)
      BY <2>1, <2>2, <2>6, FlowType DEF Flow
    <2>8. /\ \A t \in Topics : Flow(t, r) \in Nat
          /\ Count(topic["execution-fills"], 0, r) \in Nat
      BY <2>1, <2>2, FlowsType, FlowType
    <2>9. Count(topic["execution-fills"], 0, r) <= Total(r)
      BY <2>7, <2>8 DEF Total, Topics
    <2>10. Total(r) <= 1 + duplicates[r] /\ Total(r) \in Nat /\ duplicates[r] \in Nat
      BY <2>1, TotalType DEF Flows, KafkaTypes
    <2> QED
      BY <2>5, <2>8, <2>9, <2>10 DEF Count
  <1>2. FrontSpec => []FInv
    BY FInvInit, FInvNext, PTL DEF FrontSpec
  <1> QED
    BY <1>1, <1>2, PTL
=============================================================================
