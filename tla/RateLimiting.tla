---------------------------- MODULE RateLimiting ----------------------------
(***************************************************************************)
(* api-gateway: public requests and the rate limiter.  A request that      *)
(* passes the hardening checks is counted under its route class and        *)
(* client, by the backend that the environment of the gateway asks for:    *)
(* Redis, which all replicas share, or the memory of the replica that      *)
(* serves it, which is lost with the process.  Only then is it routed, and *)
(* only then does the timeout of its route begin.                          *)
(*                                                                         *)
(* Time is counted in ticks; timers that are due fire before the next one. *)
(***************************************************************************)
EXTENDS ServiceConfig

CONSTANTS
  Requests,        \* the requests that ever arrive
  Replicas,        \* processes of the gateway
  Environments,    \* what the gateway may be deployed with
  Clients,         \* values of x-forwarded-for, "unknown" where there is none
  Routes,          \* routes the requests are for
  Allowed,         \* allowed_in_window of each class, scaled down
  Window,          \* the minute of the rate limits
  PublicTimeout, HealthTimeout,
  MaxTime,         \* bound: ticks
  MaxCrashes       \* bound: replicas that die

Classes == {"tile_redirect", "public_tile_metadata", "public_site_read"}

ASSUME LimitAssumption ==
  /\ Allowed \in [Classes -> Nat \ {0}]
  /\ Window \in Nat \ {0}
  /\ PublicTimeout \in Nat \ {0} /\ HealthTimeout \in Nat \ {0}
  /\ MaxTime \in Nat /\ MaxCrashes \in Nat
ASSUME ProcessAssumption == IsFiniteSet(Requests) /\ "redis" \notin Replicas
ASSUME RouteAssumption ==
  Routes \subseteq {"redirect", "manifest", "sets", "sites", "health"}

VARIABLES
  gateway,    \* the configuration of the gateway
  now,
  counters,   \* of each store: rate-limit key to its window [started, count]
  req,        \* each request and what became of it
  crashes

vars == <<gateway, now, counters, req, crashes>>

Never == MaxTime + 1
Times == 0..MaxTime

\* route_class_for_public: none for /health and /ready.
ClassOf(route) ==
  CASE route = "redirect" -> {"tile_redirect"}
    [] route \in {"manifest", "sets"} -> {"public_tile_metadata"}
    [] route = "sites" -> {"public_site_read"}
    [] OTHER -> {}

\* route_timeout
TimeoutOf(route) == IF route = "health" THEN HealthTimeout ELSE PublicTimeout

LimitKeys == Classes \X Clients

\* Defect: every replica counts for itself.
StoreOfReplica(replica) == replica
\* RateLimiter::new
StoreOf(replica) == IF gateway.backend = "redis" THEN "redis" ELSE replica

NoWindow == [started |-> 0, count |-> 0]
NotCounted == [key |-> <<>>, at |-> 0, passed |-> FALSE]
NewRequest ==
  [pc |-> "new", route |-> "none", replica |-> "none", client |-> "none",
   deadline |-> Never, counted |-> NotCounted, status |-> 0]

\* The replicas run when their environment was accepted.
Init ==
  /\ \E env \in Environments : GatewayAccepts(env) /\ gateway = Gateway(env)
  /\ now = 0
  /\ counters = [s \in Replicas \cup {"redis"} |-> [k \in LimitKeys |-> NoWindow]]
  /\ req = [i \in Requests |-> NewRequest]
  /\ crashes = 0

-----------------------------------------------------------------------------
(* The rate limiter *)

\* Defect: every request prolongs the window (EXPIRE at each INCR).
CountProlonging(window) ==
  IF window.count = 0 \/ now - window.started >= Window
  THEN [started |-> now, count |-> 1]
  ELSE [started |-> now, count |-> window.count + 1]

\* increment_window: the window of a key begins with its first request.  The
\* Redis script is atomic, and the memory store holds its lock.
Count(window) ==
  IF window.count = 0 \/ now - window.started >= Window
  THEN [started |-> now, count |-> 1]
  ELSE [started |-> window.started, count |-> window.count + 1]

\* Defect: the route class is left out of the key.
KeyByClient(i) == <<"tile_redirect", req[i].client>>
\* The key that check counts, for a route that has a class.
Key(i) == <<CHOOSE c \in ClassOf(req[i].route) : TRUE, req[i].client>>

Answer(i, status) == [req[i] EXCEPT !.pc = "answered", !.status = status]
Routed(i) ==
  [req[i] EXCEPT !.pc = "routed", !.deadline = now + TimeoutOf(req[i].route)]

\* RateLimiter::check
Check(i) ==
  LET store == StoreOf(req[i].replica)
      window == Count(counters[store][Key(i)])
      passed == window.count <= Allowed[Key(i)[1]]
  IN
  /\ counters' = [counters EXCEPT ![store] = [counters[store] EXCEPT ![Key(i)] = window]]
  /\ req' = [req EXCEPT ![i] =
       [(IF passed THEN Routed(i) ELSE Answer(i, 429)) EXCEPT
          !.counted = [key |-> Key(i), at |-> now, passed |-> passed]]]

\* check, when Redis cannot be reached or its answer is lost.
CheckFails(i) ==
  /\ gateway.backend = "redis"
  /\ \/ /\ req' = [req EXCEPT ![i] = Answer(i, 503)]
        /\ UNCHANGED counters
     \/ /\ counters' = [counters EXCEPT !["redis"] =
             [counters["redis"] EXCEPT ![Key(i)] = Count(counters["redis"][Key(i)])]]
        /\ req' = [req EXCEPT ![i] =
             [Answer(i, 503) EXCEPT !.counted = [key |-> Key(i), at |-> now, passed |-> FALSE]]]

-----------------------------------------------------------------------------
(* request_context *)

Arrive(i, route, replica, client) ==
  /\ req[i].pc = "new"
  /\ req' = [req EXCEPT ![i] =
       [req[i] EXCEPT !.pc = "limit", !.route = route, !.replica = replica, !.client = client]]
  /\ UNCHANGED <<gateway, now, counters, crashes>>

\* validate_request_hardening turns a request down: it is not counted.
TurnDown(i, route, replica) ==
  /\ req[i].pc = "new"
  /\ req' = [req EXCEPT ![i] = [Answer(i, 400) EXCEPT !.route = route, !.replica = replica]]
  /\ UNCHANGED <<gateway, now, counters, crashes>>

Limit(i) ==
  /\ req[i].pc = "limit"
  /\ IF ClassOf(req[i].route) = {}
     THEN req' = [req EXCEPT ![i] = Routed(i)] /\ UNCHANGED counters
     ELSE Check(i) \/ CheckFails(i)
  /\ UNCHANGED <<gateway, now, crashes>>

\* The handler answers: 200 stands for whatever it finds.
Handle(i) ==
  /\ req[i].pc = "routed"
  /\ req' = [req EXCEPT ![i] = Answer(i, 200)]
  /\ UNCHANGED <<gateway, now, counters, crashes>>

\* tokio::time::timeout drops the handler.
TimeOut(i) ==
  /\ req[i].pc = "routed"
  /\ now = req[i].deadline
  /\ req' = [req EXCEPT ![i] = Answer(i, 503)]
  /\ UNCHANGED <<gateway, now, counters, crashes>>

-----------------------------------------------------------------------------

\* A replica dies and is started again: its connections and its own counters go.
Crash(replica) ==
  /\ crashes < MaxCrashes /\ crashes' = crashes + 1
  /\ counters' = [counters EXCEPT ![replica] = [k \in LimitKeys |-> NoWindow]]
  /\ req' = [i \in Requests |->
       IF req[i].replica = replica /\ req[i].pc # "answered" THEN Answer(i, 0) ELSE req[i]]
  /\ UNCHANGED <<gateway, now>>

Tick ==
  /\ now < MaxTime
  /\ \A i \in Requests : req[i].pc = "routed" => now # req[i].deadline
  /\ now' = now + 1
  /\ UNCHANGED <<gateway, counters, req, crashes>>

Next ==
  \/ \E i \in Requests, route \in Routes, replica \in Replicas :
       \/ TurnDown(i, route, replica)
       \/ \E client \in Clients : Arrive(i, route, replica, client)
  \/ \E i \in Requests : Limit(i) \/ Handle(i) \/ TimeOut(i)
  \/ \E replica \in Replicas : Crash(replica)
  \/ Tick

Spec == Init /\ [][Next]_vars

-----------------------------------------------------------------------------
(* Properties *)

\* Every variable keeps its type.
TypeOK ==
  /\ gateway.backend \in {"memory", "redis"}
  /\ gateway.runtime_environment \in {"local", "dev", "staging", "prod"}
  /\ now \in Times
  /\ counters \in [Replicas \cup {"redis"} ->
                     [LimitKeys -> [started : Times, count : 0..Cardinality(Requests)]]]
  /\ \A i \in Requests :
       /\ req[i].pc \in {"new", "limit", "routed", "answered"}
       /\ req[i].status \in {0, 200, 400, 429, 503}
  /\ crashes \in 0..MaxCrashes

\* Those of the requests that were let through under key within a window from t.
PassedIn(requests, key, t) ==
  {i \in requests : /\ req[i].counted.passed
                    /\ req[i].counted.key = key
                    /\ req[i].counted.at \in t..(t + Window - 1)}

\* The requests that promise to share a limit: all of them in staging, in prod
\* and wherever Redis counts, else those of one replica while it lives.
Together ==
  IF RequiresMore(gateway.runtime_environment) \/ gateway.backend = "redis" THEN {Requests}
  ELSE IF crashes = 0 THEN {{i \in Requests : req[i].replica = p} : p \in Replicas}
  ELSE {}

\* Rate limits hold for the deployment (request_context, RateLimiter::check,
\* from_lookup): however its requests are spread over replicas, and although
\* replicas die, a client has at most twice the allowance let through in any
\* minute, at the end of one window and the start of the next.
LimitHolds ==
  \A requests \in Together, key \in LimitKeys, t \in Times :
    Cardinality(PassedIn(requests, key, t)) <= 2 * Allowed[key[1]]

\* A 429 is due: in the minute before, the whole allowance of that route class
\* and client was spent on requests that were not refused.  So a client that waits comes
\* back, and neither its neighbours nor other routes use up its allowance
\* (increment_window, check).
RefusalsAreDue ==
  \A i \in Requests : req[i].status = 429 =>
    \E class \in ClassOf(req[i].route) :
      Cardinality({j \in Requests :
          /\ req[j].counted # NotCounted /\ req[j].status # 429
          /\ class \in ClassOf(req[j].route) /\ req[j].client = req[i].client
          /\ req[j].counted.at <= req[i].counted.at
          /\ req[i].counted.at < req[j].counted.at + Window}) >= Allowed[class]
=============================================================================
