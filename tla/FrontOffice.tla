----------------------------- MODULE FrontOffice -----------------------------
(***************************************************************************)
(* The API gateway and the ETF services, coupled by their topics alone:    *)
(* gateway -> creation-requests -> etf_issuer -> execution-requests ->     *)
(* execution -> execution-fills -> custody and nav.  No service of the     *)
(* repository consumes settlement-commands.                                *)
(***************************************************************************)
EXTENDS ApiGateway, EtfServices, FiniteSets

\* The idempotency_key in each request's body: a client's retry of an order has
\* the key of the first.  No line of the code looks at it.
CONSTANT idempotency_key

front_vars == <<kafka_vars, gateway_vars, service_vars>>

FrontInit == KafkaInit /\ GatewayInit /\ ServicesInit

FrontNext ==
    \/ GatewayNext /\ UNCHANGED service_vars
    \/ ServicesNext /\ UNCHANGED gateway_vars
    \/ KafkaNext /\ UNCHANGED <<gateway_vars, service_vars>>

FrontSpec == FrontInit /\ [][FrontNext]_front_vars

\* The event loop serves what it has received, a producer's thread delivers
\* what is in its memory, and a running service consumes what is in its topic.
\* Nobody has to send a request, and no service has to be started again.
FairFrontSpec ==
    /\ FrontSpec
    /\ \A r \in Requests : WF_front_vars(Serve(r) /\ UNCHANGED service_vars)
    /\ \A s \in Services : WF_front_vars(Turn(s) /\ UNCHANGED gateway_vars)
    /\ \A t \in Topics :
           WF_front_vars(Deliver(t) /\ UNCHANGED <<gateway_vars, service_vars>>)

-----------------------------------------------------------------------------
RequestRows ==
    [key : ApiKeys \cup {NoKey},
     path : UNION {{s.path : s \in Shapes[r]} : r \in Requests},
     method : Methods, input : Inputs, active : BOOLEAN]

CommandMessages ==
    [request : Requests, actor : ApiKeys \cup {"anonymous"}, cash : Bodies]

Messages == CommandMessages \cup [request : Requests, cash : Bodies] \cup [request : Requests]

\* What an endpoint or the framework answers.
Codes == {200, 307, 404, 405, 422}

AuditRecords ==
    [actor : ApiKeys \cup {"anonymous"}, status_code : Codes \cup {401, 403}]

GatewayTypes ==
    /\ is_active \in [ApiKeys -> BOOLEAN]
    /\ request \in [Requests -> RequestRows \cup {NoRequest}]
    /\ stage \in [Requests -> {"none", "received", "authorize", "endpoint", "audit",
                               "answered", "lost"}]
    /\ actor \in [Requests -> ApiKeys \cup {"anonymous"}]
    /\ status_code \in [Requests -> Codes \cup {0}]
    /\ answer \in [Requests -> Codes \cup {0, 500}]
    /\ audit_trail \in [Requests -> Seq(AuditRecords)]

KafkaTypes ==
    /\ pending \in [Topics -> Seq(Messages)]
    /\ topic \in [Topics -> Seq(Messages)]
    /\ duplicates \in [Requests -> Nat]
    /\ taken \subseteq Requests
    /\ troubles \in Nat

ServiceTypes ==
    /\ up \in [Services -> BOOLEAN]
    /\ position \in [Services -> Nat]
    /\ \A s \in Services : position[s] <= Len(topic[Consumes[s]])
    /\ booked \in [Books -> Seq(Requests)]

\* Types; every message is a command or names its request, and no consumer is
\* past the end of its topic.
FrontTypeOK == GatewayTypes /\ KafkaTypes /\ ServiceTypes

\* The commands in a topic, or on their way to it.
CommandsIn(t) ==
    {pending[t][i] : i \in DOMAIN pending[t]} \cup {topic[t][i] : i \in DOMAIN topic[t]}

CommandTopics == {"creation-requests", "settlement-commands"}

\* Whatever is in flight at once, a command carries the name of the key its
\* request came with, was asked for at an endpoint of its topic, and that key's
\* role may use the endpoint.
OnlyPermittedTakesEffect ==
    \A t \in CommandTopics : \A m \in CommandsIn(t) :
        /\ m.actor = request[m.request].key
        /\ request[m.request].method = "listed"
        /\ Commands[request[m.request].path] = t
        /\ has_permission(KeyRole[m.actor], ENDPOINT_PERMISSIONS[request[m.request].path])

\* The key is looked up once and not again: a key may be deactivated while its
\* request is served.  But no request that arrives after that has an effect.
InactiveKeyIsPowerless ==
    \A t \in CommandTopics : \A m \in CommandsIn(t) : request[m.request].active

Record(who, code) == [actor |-> who, status_code |-> code]

\* What a client can count on: an answer other than a 500 is in the audit trail,
\* once, with the status and under the name of the key.  A command without such
\* a record is one whose client got a 500, or nothing, and whose trail is empty:
\* it is never recorded as refused, and never confirmed without a record.
EffectsAreRecorded ==
    /\ \A r \in Requests :
           stage[r] = "answered" /\ request[r].path # "health" /\ answer[r] # 500 =>
               audit_trail[r] = <<Record(request[r].key, answer[r])>>
    /\ \A t \in CommandTopics : \A m \in CommandsIn(t) :
           \/ answer[m.request] = 200 /\ audit_trail[m.request] = <<Record(m.actor, 200)>>
           \/ answer[m.request] \in {0, 500} /\ audit_trail[m.request] = <<>>

\* The claim of README.md:199 and 804: every request is recorded with the status its
\* client gets.  (The health check is exempt, app.py:130.)
EveryRequestAudited ==
    \A r \in Requests :
        stage[r] = "answered" /\ request[r].path # "health" =>
            \E i \in DOMAIN audit_trail[r] : audit_trail[r][i].status_code = answer[r]

Fills(rs) == {i \in DOMAIN topic["execution-fills"] :
                 topic["execution-fills"][i].request \in rs}

\* Consumers without offsets, restarts and lost memory skip requests, but they
\* never fill one twice: only a producer that repeats a message of that very
\* request does, and each time for one more fill.
FillsBounded ==
    \A r \in Requests : Cardinality(Fills({r})) <= 1 + duplicates[r]

\* The claim of README.md:230: the issuer prevents duplicate processing by the
\* idempotency key, so an order its client sends again is filled once.
KeyedOrdersFilledOnce ==
    \A r \in Requests :
        Cardinality(Fills({q \in Requests : idempotency_key[q] = idempotency_key[r]})) <= 1

Booked(s, r) == \E i \in DOMAIN booked[s] : booked[s][i] = r

\* From the endpoint to the books: as long as every service that ends is started
\* again, a permitted creation request with cash is answered, issued, executed,
\* and added up by custody and by nav, whatever happens to the other requests,
\* unless a fault takes this one's own message: in the memory of a process that
\* ends, given up by its producer, skipped by a consumer that starts, or added up
\* in books that are lost.
CreationIsBooked ==
    (\A s \in Services : []<>up[s]) =>
        \A r \in Requests :
            /\ stage[r] = "endpoint"
            /\ Routed(r, {"creation"})
            /\ request[r].input = "cash"
            ~> \/ answer[r] = 200 /\ \A s \in Books : Booked(s, r)
               \/ r \in taken

\* A message that ends its service, a body without cash for one, does not end it
\* again each time it is started: one that is started whenever it is down is
\* up for good in the end.
NoCrashLoop == \A s \in Services : []<>up[s] => <>[]up[s]
=============================================================================
