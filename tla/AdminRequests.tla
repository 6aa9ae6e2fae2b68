---------------------------- MODULE AdminRequests ----------------------------
(***************************************************************************)
(* api-gateway: admin requests, from the bearer token to the audit record, *)
(* in the process of one gateway and beside one ingest-svc.  A token's key *)
(* is looked up in the cached keys of the identity provider, which are     *)
(* fetched anew when they are old or the key is unknown; then the request  *)
(* is counted, handled and audited, and its timeout drops it wherever it   *)
(* is.  The trigger route calls ingest-svc, which checks the token that    *)
(* both services have from their environments.                             *)
(*                                                                         *)
(* Time is counted in ticks; timers that are due fire before the next one. *)
(***************************************************************************)
EXTENDS ServiceConfig

CONSTANTS
  Requests,        \* admin requests
  Deployments,     \* <<gateway, ingest-svc, load>>: environments the two run
                   \* with, and the requests that ever arrive
  Tokens, NoToken, \* bearer tokens: [kid, valid, admin]
  Keys, FirstKeys, \* keys of the identity provider, and those it begins with
  Routes,
  JwksTtl,         \* JWKS_CACHE_TTL_SECONDS
  AdminTimeout,    \* ADMIN_ROUTE_TIMEOUT_SECONDS
  MaxTime,         \* bound: ticks
  MaxCrashes       \* bound: deaths of the gateway

ASSUME AdminAssumption ==
  /\ Routes \subseteq {"runs", "deep_health", "trigger", "requeue"}
  /\ FirstKeys \subseteq Keys /\ FirstKeys # {}
  /\ Tokens \subseteq [kid : Keys, valid : BOOLEAN, admin : BOOLEAN]
  /\ NoToken \notin Tokens
  /\ JwksTtl \in Nat \ {0} /\ AdminTimeout \in Nat \ {0}
  /\ MaxTime \in Nat /\ MaxCrashes \in Nat

VARIABLES
  deployed,   \* the environments the services will start with, then none
  gateway,    \* configurations the services run with: a set with none or one
  ingest,
  alike,      \* whether they had the same environment
  now,
  published,  \* keys the identity provider publishes
  since,      \* when it began to publish a key
  retired,    \* when it stopped
  jwks,       \* the cached keys: a set with none or one
  req,        \* each request and what became of it
  crashes

services == <<deployed, gateway, ingest, alike>>
provider == <<published, since, retired>>
vars == <<deployed, gateway, ingest, alike, now, published, since, retired, jwks, req, crashes>>

Never == MaxTime + 1
Times == 0..MaxTime

\* require_admin: a POST writes.
IsWrite(route) == route \in {"trigger", "requeue"}

\* What of the gateway its admin routes depend on.
AdminConfig(config) == [clients |-> Wired(config), auth |-> config.internal_service_auth]

NewRequest ==
  [pc |-> "new", route |-> "none", token |-> NoToken, deadline |-> Never,
   keys |-> {}, renewed |-> FALSE, accepted |-> Never,
   status |-> 0, upstream |-> 0, delivered |-> FALSE, audit |-> {}]

Init ==
  /\ \E d \in Deployments :
       /\ deployed = {<<d[1], d[2]>>} /\ alike = (d[1] = d[2])
       /\ req = [i \in d[3] |-> NewRequest]
  /\ gateway = {} /\ ingest = {}
  /\ now = 0
  /\ published = FirstKeys
  /\ since = [k \in Keys |-> IF k \in FirstKeys THEN 0 ELSE Never]
  /\ retired = [k \in Keys |-> Never]
  /\ jwks = {}
  /\ crashes = 0

\* main of both services: what is not accepted is not started with.
Start ==
  /\ \E d \in deployed :
       /\ gateway' = IF GatewayAccepts(d[1]) THEN {AdminConfig(Gateway(d[1]))} ELSE {}
       /\ ingest' = IF IngestAccepts(d[2]) THEN {[auth |-> Ingest(d[2]).internal_admin_auth]} ELSE {}
  /\ deployed' = {}
  /\ UNCHANGED <<alike, now, provider, jwks, req, crashes>>

\* Of a request that was answered, or passed on to its handler, what nothing asks
\* for any more is forgotten.
Answer(i, status) ==
  [NewRequest EXCEPT !.pc = "answered", !.status = status, !.delivered = req[i].delivered]
Pass(i) ==
  [NewRequest EXCEPT !.pc = "handle", !.route = req[i].route, !.deadline = req[i].deadline]
Goto(i, pc) == [req[i] EXCEPT !.pc = pc]
\* emit_admin_audit, for the request as answered
Audited(r, outcome) == [r EXCEPT !.audit = r.audit \cup {[outcome |-> outcome, status |-> r.status]}]

-----------------------------------------------------------------------------
(* request_context *)

Arrive(i, route, token) ==
  /\ gateway # {}
  /\ req[i].pc = "new"
  /\ req' = [req EXCEPT ![i] =
       [req[i] EXCEPT !.pc = "auth", !.route = route, !.token = token,
                      !.deadline = now + AdminTimeout]]
  /\ UNCHANGED <<services, now, provider, jwks, crashes>>

\* validate_request_hardening
TurnDown(i) ==
  /\ gateway # {}
  /\ req[i].pc = "new"
  /\ req' = [req EXCEPT ![i] = Answer(i, 400)]
  /\ UNCHANGED <<services, now, provider, jwks, crashes>>

\* tokio::time::timeout drops the handler, and what it awaits, where it is.
TimeOut(i) ==
  /\ req[i].pc \notin {"new", "answered"}
  /\ now = req[i].deadline
  /\ req' = [req EXCEPT ![i] = Answer(i, 503)]
  /\ UNCHANGED <<services, now, provider, jwks, crashes>>

-----------------------------------------------------------------------------
(* authenticate_with_role *)

Reject(i, status) == [Goto(i, "reject") EXCEPT !.status = status, !.keys = {}]

\* The token's key is known: its claims and its role are left to check.
Accept(i) ==
  IF ~req[i].token.valid THEN Reject(i, 401)
  ELSE IF ~req[i].token.admin THEN Reject(i, 403)
  ELSE [Goto(i, "admit") EXCEPT !.accepted = now, !.keys = {}]

\* Defect: cached keys do not grow old.
FreshForever == {c \in jwks : TRUE}
Fresh == {c \in jwks : now - c.fetched_at <= JwksTtl}

\* bearer_token and cached_jwks; an unknown kid asks for the keys anew.
ReadCachedKeys(i) ==
  /\ req[i].pc = "auth"
  /\ req' = [req EXCEPT ![i] =
       IF req[i].token = NoToken THEN Reject(i, 401)
       ELSE IF \E c \in Fresh : req[i].token.kid \in c.keys THEN Accept(i)
       ELSE [Goto(i, "fetch") EXCEPT !.renewed = Fresh # {}]]
  /\ UNCHANGED <<services, now, provider, jwks, crashes>>

\* refresh_jwks, the request: no lock is held while it is under way.
FetchKeys(i) ==
  /\ req[i].pc = "fetch"
  /\ \/ req' = [req EXCEPT ![i] = [Goto(i, "store") EXCEPT !.keys = published]]
     \/ req' = [req EXCEPT ![i] = Reject(i, 503)]
  /\ UNCHANGED <<services, now, provider, jwks, crashes>>

\* Defect: a refresh keeps what another one has cached meanwhile.
StoreKeysOnce(i) ==
  LET cached == IF jwks = {} THEN {[keys |-> req[i].keys, fetched_at |-> now]} ELSE jwks IN
  /\ req[i].pc = "store"
  /\ jwks' = cached
  /\ req' = [req EXCEPT ![i] =
       IF \E c \in cached : req[i].token.kid \in c.keys THEN Accept(i)
       ELSE IF req[i].renewed THEN Reject(i, 401)
       ELSE [Goto(i, "fetch") EXCEPT !.renewed = TRUE]]
  /\ UNCHANGED <<services, now, provider, crashes>>

\* refresh_jwks, the answer: the last one to arrive is cached, and counts as
\* fetched now.  The request goes by the keys it fetched itself.
StoreKeys(i) ==
  /\ req[i].pc = "store"
  /\ jwks' = {[keys |-> req[i].keys, fetched_at |-> now]}
  /\ req' = [req EXCEPT ![i] =
       IF req[i].token.kid \in req[i].keys THEN Accept(i)
       ELSE IF req[i].renewed THEN Reject(i, 401)
       ELSE [Goto(i, "fetch") EXCEPT !.renewed = TRUE]]
  /\ UNCHANGED <<services, now, provider, crashes>>

-----------------------------------------------------------------------------
(* require_admin.  RateLimiting has the limiter; here it lets a request    *)
(* pass, refuses it or fails.                                              *)

\* A refused authentication is answered with its own error, or the limiter's.
\* It is not audited.
LimitRejected(i) ==
  /\ req[i].pc = "reject"
  /\ \E status \in {req[i].status, 429, 503} : req' = [req EXCEPT ![i] = Answer(i, status)]
  /\ UNCHANGED <<services, now, provider, jwks, crashes>>

LimitAdmin(i) ==
  /\ req[i].pc = "admit"
  /\ \/ req' = [req EXCEPT ![i] = Pass(i)]
     \/ req' = [req EXCEPT ![i] = Audited(Answer(i, 429), "rate_limited")]
     \/ req' = [req EXCEPT ![i] = Audited(Answer(i, 503), "error")]
  /\ UNCHANGED <<services, now, provider, jwks, crashes>>

-----------------------------------------------------------------------------
(* The handlers *)

Has(client) == \E g \in gateway : client \in g.clients

\* list_ingest_runs, list_processing_runs and deep_health are not audited.
HandleRead(i) ==
  /\ req[i].pc = "handle" /\ ~IsWrite(req[i].route)
  /\ \E status \in {200, 400, 503} :
       /\ req[i].route = "deep_health" =>
            status # 400 /\ (status = 200 => \A part \in Parts : Has(part))
       /\ req[i].route = "runs" /\ status = 200 => Has("database")
       /\ req' = [req EXCEPT ![i] = Answer(i, status)]
  /\ UNCHANGED <<services, now, provider, jwks, crashes>>

\* trigger_ingest: the body is not empty, or there is no client.
RefuseTrigger(i) ==
  /\ req[i].pc = "handle" /\ req[i].route = "trigger"
  /\ \/ req' = [req EXCEPT ![i] = Audited(Answer(i, 400), "validation_failed")]
     \/ ~Has("ingest_admin") /\ req' = [req EXCEPT ![i] = Audited(Answer(i, 503), "error")]
  /\ UNCHANGED <<services, now, provider, jwks, crashes>>

\* requeue_processing_item: the body does not parse; there is no database or no
\* queue, or no answer of the database; no such item; an item under way; an item
\* that never failed or makes no message; a message that is not written as JSON.
RefuseRequeue(i) ==
  /\ req[i].pc = "handle" /\ req[i].route = "requeue"
  /\ \/ req' = [req EXCEPT ![i] = Audited(Answer(i, 400), "validation_failed")]
     \/ req' = [req EXCEPT ![i] = Audited(Answer(i, 503), "error")]
     \/ /\ Has("database") /\ Has("processing_queue")
        /\ \E refusal \in {<<404, "not_found">>, <<409, "conflict">>, <<422, "validation_failed">>,
                           <<500, "error">>} :
             req' = [req EXCEPT ![i] = Audited(Answer(i, refusal[1]), refusal[2])]
  /\ UNCHANGED <<services, now, provider, jwks, crashes>>

\* The handler calls ingest-svc, or the queue.
CallUpstream(i) ==
  /\ req[i].pc = "handle"
  /\ \/ req[i].route = "trigger" /\ Has("ingest_admin")
     \/ req[i].route = "requeue" /\ Has("database") /\ Has("processing_queue")
  /\ req' = [req EXCEPT ![i] = Goto(i, "upstream")]
  /\ UNCHANGED <<services, now, provider, jwks, crashes>>

\* The gateway appends the token to headers it has set, and of two values
\* ingest-svc reads the first; a value beyond ASCII it does not read at all.
OwnHeaders == {"x-request-id", "content-type"}
\* Under these, HTTP itself reads the token, and anything may become of the call.
FramingHeaders == {"content-length", "transfer-encoding"}
Readable(auth) == auth.header \notin OwnHeaders /\ auth.token # NotAscii

\* require_internal_admin: the statuses that a call from a gateway with these
\* credentials may have.
IngestAnswers(credentials, auth) ==
  IF \E a \in credentials \cup auth : a.header \in FramingHeaders THEN {200, 401, 403}
  ELSE IF auth = {} \/ (credentials = auth /\ \E a \in auth : Readable(a)) THEN {200}
  ELSE IF \E a \in auth : \/ a.header \in OwnHeaders
                          \/ \E c \in credentials : c.header = a.header /\ c.token # NotAscii
       THEN {403}
  ELSE {401}

\* ingest-svc handles the call; it may come again for each attempt.  One that
\* comes when the timeout has dropped the handler counts as come just before.
IngestReceives(i) ==
  /\ req[i].pc = "upstream" /\ req[i].route = "trigger"
  /\ \E g \in gateway, s \in ingest : \E status \in IngestAnswers(g.auth, s.auth) :
       req' = [req EXCEPT ![i] = [req[i] EXCEPT !.upstream = status,
                                                !.delivered = req[i].delivered \/ status = 200]]
  /\ UNCHANGED <<services, now, provider, jwks, crashes>>

QueueReceives(i) ==
  /\ req[i].pc = "upstream" /\ req[i].route = "requeue"
  /\ req' = [req EXCEPT ![i] = [req[i] EXCEPT !.upstream = 200, !.delivered = TRUE]]
  /\ UNCHANGED <<services, now, provider, jwks, crashes>>

\* Defect: an upstream error is answered as accepted.
FinishWriteRegardless(i) ==
  /\ req[i].pc = "upstream"
  /\ req' = [req EXCEPT ![i] = Audited(Answer(i, 202), "success")]
  /\ UNCHANGED <<services, now, provider, jwks, crashes>>

\* The answer of the upstream, or none after the last attempt although the call
\* may have been delivered.
FinishWrite(i) ==
  /\ req[i].pc = "upstream"
  /\ \/ /\ req[i].upstream = 200
        /\ req' = [req EXCEPT ![i] = Audited(Answer(i, 202), "success")]
     \/ req' = [req EXCEPT ![i] = Audited(Answer(i, 502), "error")]
  /\ UNCHANGED <<services, now, provider, jwks, crashes>>

-----------------------------------------------------------------------------
(* The environment *)

PublishKey(k) ==
  /\ since[k] = Never
  /\ published' = published \cup {k}
  /\ since' = [since EXCEPT ![k] = now]
  /\ UNCHANGED <<services, now, retired, jwks, req, crashes>>

RetireKey(k) ==
  /\ k \in published /\ published # {k}
  /\ published' = published \ {k}
  /\ retired' = [retired EXCEPT ![k] = now]
  /\ UNCHANGED <<services, now, since, jwks, req, crashes>>

\* The gateway dies and is started again.
Crash ==
  /\ gateway # {}
  /\ crashes < MaxCrashes /\ crashes' = crashes + 1
  /\ jwks' = {}
  /\ req' = [i \in DOMAIN req |->
       IF req[i].pc \in {"new", "answered"} THEN req[i] ELSE Answer(i, 0)]
  /\ UNCHANGED <<services, now, provider>>

Tick ==
  /\ gateway # {}
  /\ now < MaxTime
  /\ \A i \in DOMAIN req : req[i].pc \notin {"new", "answered"} => now # req[i].deadline
  /\ now' = now + 1
  /\ UNCHANGED <<services, provider, jwks, req, crashes>>

RequestStep(i) ==
  \/ TimeOut(i)
  \/ ReadCachedKeys(i) \/ FetchKeys(i) \/ StoreKeys(i)
  \/ LimitRejected(i) \/ LimitAdmin(i)
  \/ HandleRead(i) \/ RefuseTrigger(i) \/ RefuseRequeue(i)
  \/ CallUpstream(i) \/ IngestReceives(i) \/ QueueReceives(i) \/ FinishWrite(i)

Next ==
  \/ Start
  \/ \E i \in DOMAIN req :
       \/ TurnDown(i)
       \/ \E route \in Routes, token \in Tokens \cup {NoToken} : Arrive(i, route, token)
  \/ \E i \in DOMAIN req : RequestStep(i)
  \/ \E k \in Keys : gateway # {} /\ (PublishKey(k) \/ RetireKey(k))
  \/ Crash
  \/ Tick

Spec == Init /\ [][Next]_vars

-----------------------------------------------------------------------------
(* Properties *)

\* Every variable keeps its type.
TypeOK ==
  /\ Cardinality(deployed) <= 1 /\ Cardinality(gateway) <= 1 /\ Cardinality(ingest) <= 1
  /\ alike \in BOOLEAN
  /\ now \in Times
  /\ published \subseteq Keys /\ published # {}
  /\ since \in [Keys -> 0..Never] /\ retired \in [Keys -> 0..Never]
  /\ Cardinality(jwks) <= 1
  /\ \A c \in jwks : c.keys \subseteq Keys /\ c.fetched_at \in Times
  /\ DOMAIN req \subseteq Requests
  /\ \A i \in DOMAIN req :
       /\ req[i].pc \in {"new", "auth", "fetch", "store", "reject", "admit", "handle",
                         "upstream", "answered"}
       /\ req[i].status \in {0, 200, 202, 400, 401, 403, 404, 409, 422, 429, 500, 502, 503}
       /\ req[i].upstream \in {0, 200, 401, 403}
       /\ req[i].keys \subseteq Keys
       /\ Cardinality(req[i].audit) <= 1
  /\ crashes \in 0..MaxCrashes

ToldTruly(r) ==
  /\ r.delivered => \/ r.status \in {202, 502} /\ r.audit # {}
                    \/ r.status \in {0, 503} /\ r.audit = {}
  /\ r.status = 202 => r.delivered
  /\ \A a \in r.audit : a.status = r.status /\ (a.outcome = "success" <=> r.status = 202)

\* A retired key is accepted no longer than the cache lasts, plus the time of the
\* request that fetched it: a slow refresh may cache older keys over newer ones,
\* and have them count as fetched now (cached_jwks, refresh_jwks).
RetiredKeysFade ==
  \A i \in DOMAIN req : req[i].accepted # Never =>
    req[i].accepted <= retired[req[i].token.kid] + JwksTtl + AdminTimeout

\* A key that was published before the request came, and still is, is known:
\* whatever refreshes are under way and whichever of them is last, no valid token
\* is refused for its key (authenticate_with_role).
CurrentKeysAreKnown ==
  \A i \in DOMAIN req :
    /\ req[i].status = 401 /\ req[i].token # NoToken
    /\ req[i].token.valid /\ req[i].token.kid \in published
    => since[req[i].token.kid] >= req[i].deadline - AdminTimeout

\* What an admin is told of a write is true, and so is what the trail says of it,
\* over every attempt at the call: a write that was refused did not reach its
\* upstream; one that was accepted did, and is on record as such; one that failed
\* after its delivery is on record as failed.  The trail misses the deliveries, and
\* all of them, that nobody owned up to: the timeout answered 503 in the handler's
\* place, or the gateway died (trigger_ingest, requeue_processing_item,
\* request_context).
AnswersAreTrue ==
  \A i \in DOMAIN req : req[i].pc = "answered" => ToldTruly(req[i])

\* A gateway and an ingest-svc that start with the same environment understand
\* each other, although each reads the variables with a parser and defaults of its
\* own: a trigger is turned down for its token only if the token does not read as
\* text or goes under a header that the call has a value of already, and then
\* every trigger is (parse_internal_service_auth_config,
\* parse_internal_admin_auth_config, trigger_ingest, require_internal_admin).  And
\* in staging and prod a gateway that can trigger has a token to send.
TriggerIsAuthorised ==
  /\ alike => \A i \in DOMAIN req, s \in ingest :
       \/ \E a \in s.auth : a.header \in FramingHeaders
       \/ /\ req[i].upstream \in {401, 403} => \E a \in s.auth : ~Readable(a)
          /\ req[i].upstream = 200 /\ req[i].route = "trigger"
             => s.auth = {} \/ \E a \in s.auth : Readable(a)
  /\ \A d \in deployed :
       /\ RequiresMore(RuntimeEnvironment(d[1])) /\ GatewayAccepts(d[1])
       /\ "ingest_admin" \in Wired(Gateway(d[1]))
       => Gateway(d[1]).internal_service_auth # {}

\* Services that start with the same environment meet: the queue the gateway and
\* ingest-svc send to is the one the worker reads, and the latest manifest is
\* read where the worker writes it (three parsers, and each default three times).
\* RAW_VIIRS_CONTAINER, which ingest-svc does not read, is left out.
ServicesMeet ==
  \A d \in deployed :
    LET env == d[1] IN
    alike /\ GatewayAccepts(env) /\ IngestAccepts(env) /\ ProcessingAccepts(env) =>
      /\ Ingest(env).queue = Processing(env).queue
      /\ \A q \in Gateway(env).processing_queue : q.queue = Processing(env).queue
      /\ \A s \in Gateway(env).tile_manifest_storage : s.container = Processing(env).tiles_container

\* A gateway that reports itself ready outside of local has every client its
\* routes need if, and only if, no client turned down a value that its parser let
\* pass: readiness asks what is configured, not what came of it
\* (ReadinessProbe::check, AppState::new).
ReadyMeansWired ==
  \A d \in deployed :
    LET config == Gateway(d[1]) IN
    /\ GatewayAccepts(d[1]) /\ config.runtime_environment # "local"
    /\ Unavailable(config, TRUE) = {}
    => (Wired(config) = Parts <=> Unfit(d[1]) = {})
=============================================================================
