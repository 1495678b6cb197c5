------------------------------ MODULE ApiGateway ------------------------------
(***************************************************************************)
(* services/api/app.py: the middleware that authenticates a request,       *)
(* authorizes it, calls its endpoint and hands an audit record to the      *)
(* producer, for requests served at once by one event loop.                *)
(*                                                                         *)
(* Up to call_next the middleware never awaits, so no other request runs   *)
(* between authenticate and authorize; the administrator's updates of      *)
(* api_keys do.  An HTTPException of the middleware itself is outside the  *)
(* framework's handler for it: the client gets a 500, whatever its code.   *)
(***************************************************************************)
EXTENDS KafkaTopics

CONSTANTS
    ApiKeys,        \* keys with a row in api_keys, each also its row's name
    KeyRole,        \* api_keys.role
    NoKey,          \* no X-API-Key header, or a key without a row
    Shapes,         \* what each request may ask for: [path, method, input]
    NoRequest       \* a request not sent yet

\* The JSON objects clients send, by their cash: a number, anything else, none.
Bodies == {"cash", "bad_cash", "no_cash"}

\* No JSON object, or a limit that is no integer; a limit the database refuses.
Inputs == Bodies \cup {"malformed", "negative", "none"}

\* The method the code lists for a path, or another one.
Methods == {"listed", "other"}

ASSUME GatewayAssumption ==
    /\ NoKey \notin ApiKeys
    /\ KeyRole \in [ApiKeys ->
           {"admin", "approver", "trader", "auditor", "signer", "system"}]
    /\ \A r \in Requests : \A s \in Shapes[r] : s.method \in Methods /\ s.input \in Inputs

VARIABLES
    is_active,      \* api_keys.is_active
    request,        \* each request's key, path, method and input
    stage,          \* where the middleware is with it
    actor,          \* actor_name, once authenticated
    status_code,    \* what its endpoint answered
    answer,         \* what the client got
    audit_trail     \* the audit records handed to the producer

gateway_vars ==
    <<is_active, request, stage, actor, status_code, answer, audit_trail>>

\* Resource and action per path, for the method listed with it.
ENDPOINT_PERMISSIONS ==
    [creation      |-> <<"trade", "create">>,
     redemption    |-> <<"trade", "create">>,
     nav_per_share |-> <<"trade", "read">>,
     holdings      |-> <<"ledger", "read">>,
     fund_state    |-> <<"ledger", "read">>,
     approve       |-> <<"settlement", "approve">>,
     sign          |-> <<"settlement", "sign">>,
     status        |-> <<"settlement", "read">>,
     balances      |-> <<"ledger", "read">>,
     entries       |-> <<"ledger", "read">>]

\* The commands the endpoints publish.
Commands ==
    [creation |-> "creation-requests",
     approve  |-> "settlement-commands",
     sign     |-> "settlement-commands"]

\* The endpoints that only read tables.
Reads == {"balances", "entries", "status"}

\* The rows of role_permissions.
role_permissions ==
    ({"admin"} \X {"*"} \X {"create", "read", "approve", "sign", "publish"})
    \cup ({"approver"} \X {"settlement", "withdrawal"} \X {"approve"})
    \cup ({"approver"} \X {"settlement", "trade", "ledger"} \X {"read"})
    \cup ({"trader"} \X {"trade"} \X {"create"})
    \cup ({"trader"} \X {"trade", "ledger", "settlement"} \X {"read"})
    \cup ({"auditor"} \X {"*"} \X {"read"})
    \cup ({"signer"} \X {"settlement"} \X {"sign", "read"})
    \cup {<<"system", "event", "publish">>, <<"system", "*", "read">>,
          <<"system", "settlement", "create">>}

\* The SELECT of authorize.
has_permission(role, permission) ==
    \E row \in role_permissions :
        /\ row[1] = role
        /\ row[2] \in {permission[1], "*"}
        /\ row[3] \in {permission[2], "*"}

-----------------------------------------------------------------------------
GatewayInit ==
    /\ is_active = [k \in ApiKeys |-> TRUE]
    /\ request = [r \in Requests |-> NoRequest]
    /\ stage = [r \in Requests |-> "none"]
    /\ actor = [r \in Requests |-> "anonymous"]
    /\ status_code = [r \in Requests |-> 0]
    /\ answer = [r \in Requests |-> 0]
    /\ audit_trail = [r \in Requests |-> <<>>]

\* The event loop is not inside another request's middleware.
LoopFree(r) == \A q \in Requests \ {r} : stage[q] # "authorize"

\* A client sends a request; whether its key is active then is kept for the
\* properties alone.
Receive(r) ==
    /\ stage[r] = "none"
    /\ \E k \in ApiKeys \cup {NoKey}, s \in Shapes[r] :
        request' = [request EXCEPT ![r] =
            [key |-> k, path |-> s.path, method |-> s.method, input |-> s.input,
             active |-> k \in ApiKeys /\ is_active[k]]]
    /\ stage' = [stage EXCEPT ![r] = "received"]
    /\ UNCHANGED <<is_active, actor, status_code, answer, audit_trail, kafka_vars>>

Answer(r, code) ==
    /\ stage' = [stage EXCEPT ![r] = "answered"]
    /\ answer' = [answer EXCEPT ![r] = code]

audit_log(r, who, code) ==
    audit_trail' = [audit_trail EXCEPT ![r] =
                       Append(@, [actor |-> who, status_code |-> code])]

\* The path alone is public, whatever the method: not audited, and answered
\* whether the database is up or not.
Health(r) ==
    /\ stage[r] = "received" /\ LoopFree(r)
    /\ request[r].path = "health"
    /\ Answer(r, IF request[r].method = "listed" THEN 200 ELSE 405)
    /\ UNCHANGED <<is_active, request, actor, status_code, audit_trail, kafka_vars>>

Authenticating(r) ==
    /\ stage[r] = "received" /\ LoopFree(r)
    /\ request[r].path # "health"

\* Mutant: the query forgets is_active = TRUE.
HasKey_Inactive(r) == request[r].key \in ApiKeys

\* WHERE key_hash = %s AND is_active = TRUE
HasKey(r) == request[r].key \in ApiKeys /\ is_active[request[r].key]

\* Mutant: actor_name is a global of the module.
authenticate_Global(r) ==
    /\ Authenticating(r)
    /\ HasKey(r)
    /\ actor' = [q \in Requests |-> request[r].key]
    /\ stage' = [stage EXCEPT ![r] = "authorize"]
    /\ UNCHANGED <<is_active, request, status_code, answer, audit_trail, kafka_vars>>

authenticate(r) ==
    /\ Authenticating(r)
    /\ HasKey(r)
    /\ actor' = [actor EXCEPT ![r] = request[r].key]
    /\ stage' = [stage EXCEPT ![r] = "authorize"]
    /\ UNCHANGED <<is_active, request, status_code, answer, audit_trail, kafka_vars>>

Unauthenticated(r) ==
    /\ Authenticating(r)
    /\ ~HasKey(r)
    /\ audit_log(r, "anonymous", 401)
    /\ Answer(r, 500)
    /\ UNCHANGED <<is_active, request, actor, status_code, kafka_vars>>

\* A path that is not in the table, or with another method, needs no permission.
NeedsPermission(r) ==
    request[r].method = "listed" /\ request[r].path \in DOMAIN ENDPOINT_PERMISSIONS

Allowed(r) ==
    NeedsPermission(r) =>
        has_permission(KeyRole[actor[r]], ENDPOINT_PERMISSIONS[request[r].path])

authorize(r) ==
    /\ stage[r] = "authorize"
    /\ Allowed(r)
    /\ stage' = [stage EXCEPT ![r] = "endpoint"]
    /\ UNCHANGED <<is_active, request, actor, status_code, answer, audit_trail, kafka_vars>>

Forbidden(r) ==
    /\ stage[r] = "authorize"
    /\ ~Allowed(r)
    /\ audit_log(r, actor[r], 403)
    /\ Answer(r, 500)
    /\ UNCHANGED <<is_active, request, actor, status_code, kafka_vars>>

AtEndpoint(r) == stage[r] = "endpoint" /\ LoopFree(r)

\* The response goes back to the middleware.
Respond(r, code) ==
    /\ status_code' = [status_code EXCEPT ![r] = code]
    /\ stage' = [stage EXCEPT ![r] = "audit"]
    /\ UNCHANGED <<is_active, request, actor, answer, audit_trail>>

\* The path and the method of one of these endpoints.
Routed(r, paths) == request[r].method = "listed" /\ request[r].path \in paths

IsCommand(r) == Routed(r, DOMAIN Commands)

\* What the framework passes on: data: dict, limit: int.
Accepted(r) ==
    /\ IsCommand(r) => request[r].input \in Bodies
    /\ Routed(r, {"entries"}) => request[r].input # "malformed"

\* The body with the actor the middleware found.
Command(r) == [request |-> r, actor |-> actor[r], cash |-> request[r].input]

\* create_etf, approve_settlement, sign_settlement
SubmitCommand(r) ==
    /\ AtEndpoint(r)
    /\ IsCommand(r)
    /\ Accepted(r)
    /\ send(Commands[request[r].path], Command(r))
    /\ Respond(r, 200)
    /\ UNCHANGED <<topic, duplicates, taken, troubles>>

\* The framework refuses the body, or the limit.
RejectInput(r) ==
    /\ AtEndpoint(r)
    /\ ~Accepted(r)
    /\ Respond(r, 422)
    /\ UNCHANGED kafka_vars

\* LIMIT must not be negative: the exception passes the middleware by.
Refused(r) == Routed(r, {"entries"}) /\ request[r].input = "negative"

QueryFails(r) ==
    /\ AtEndpoint(r)
    /\ Refused(r)
    /\ Answer(r, 500)
    /\ UNCHANGED <<is_active, request, actor, status_code, audit_trail, kafka_vars>>

\* get_balances, get_entries, settlement_status
ReadTables(r) ==
    /\ AtEndpoint(r)
    /\ Routed(r, Reads)
    /\ Accepted(r) /\ ~Refused(r)
    /\ Respond(r, 200)
    /\ UNCHANGED kafka_vars

\* What the framework itself answers: a redirect of a path with a slash too
\* many, its own pages, and the refusal of a method or a path no endpoint has,
\* though the table of permissions may have it.
FrameworkCode(path, method) ==
    IF path = "slashed" THEN 307
    ELSE IF path \notin DOMAIN Commands \cup Reads \cup {"docs"} THEN 404
    ELSE IF method = "other" THEN 405
    ELSE 200

NoEndpoint(r) ==
    /\ AtEndpoint(r)
    /\ ~Routed(r, DOMAIN Commands \cup Reads)
    /\ Respond(r, FrameworkCode(request[r].path, request[r].method))
    /\ UNCHANGED kafka_vars

\* Mutant: the record is made before the endpoint is called.
Audit_BeforeCall(r) ==
    /\ stage[r] = "endpoint" /\ LoopFree(r)
    /\ audit_log(r, actor[r], status_code[r])
    /\ Answer(r, status_code[r])
    /\ UNCHANGED <<is_active, request, actor, status_code, kafka_vars>>

Audit(r) ==
    /\ stage[r] = "audit" /\ LoopFree(r)
    /\ audit_log(r, actor[r], status_code[r])
    /\ Answer(r, status_code[r])
    /\ UNCHANGED <<is_active, request, actor, status_code, kafka_vars>>

\* Where the database or a producer is called.
MayRaise(r) ==
    \/ Authenticating(r)
    \/ stage[r] = "authorize" /\ NeedsPermission(r)
    \/ AtEndpoint(r) /\ Routed(r, DOMAIN Commands \cup Reads) /\ Accepted(r)
    \/ stage[r] = "audit" /\ LoopFree(r)

\* Mutant: the last audit_log is in a try whose except only passes.
RequestRaises_Passed(r) ==
    /\ MayRaise(r)
    /\ Trouble
    /\ Answer(r, IF stage[r] = "audit" THEN status_code[r] ELSE 500)
    /\ Take({r})
    /\ UNCHANGED <<is_active, request, actor, status_code, audit_trail, pending, topic,
                   duplicates>>

\* The exception reaches the client as a 500 and nothing is audited.
RequestRaises(r) ==
    /\ MayRaise(r)
    /\ Trouble
    /\ Answer(r, 500)
    /\ Take({r})
    /\ UNCHANGED <<is_active, request, actor, status_code, audit_trail, pending, topic,
                   duplicates>>

\* The administrator deactivates a key.
Deactivate(k) ==
    /\ is_active[k]
    /\ is_active' = [is_active EXCEPT ![k] = FALSE]
    /\ UNCHANGED <<request, stage, actor, status_code, answer, audit_trail, kafka_vars>>

InService(r) == stage[r] \notin {"none", "answered", "lost"}

\* The gateway dies: its requests are cut off, its producer's memory is lost.
\* It serves new ones as soon as it is back.
GatewayCrash ==
    /\ Trouble
    /\ LoseMemory({"creation-requests", "settlement-commands"})
    /\ Take(InMemory({"creation-requests", "settlement-commands"})
             \cup {r \in Requests : InService(r)})
    /\ stage' = [r \in Requests |-> IF InService(r) THEN "lost" ELSE stage[r]]
    /\ UNCHANGED <<is_active, request, actor, status_code, answer, audit_trail, topic,
                   duplicates>>

\* One step of serving a request, when nothing raises.
Serve(r) ==
    \/ Health(r)
    \/ authenticate(r)
    \/ Unauthenticated(r)
    \/ authorize(r)
    \/ Forbidden(r)
    \/ SubmitCommand(r)
    \/ RejectInput(r)
    \/ QueryFails(r)
    \/ ReadTables(r)
    \/ NoEndpoint(r)
    \/ Audit(r)

GatewayNext ==
    \/ \E r \in Requests : Receive(r) \/ Serve(r) \/ RequestRaises(r)
    \/ \E k \in ApiKeys : Deactivate(k)
    \/ GatewayCrash
=============================================================================
