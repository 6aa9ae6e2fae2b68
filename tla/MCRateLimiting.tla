--------------------------- MODULE MCRateLimiting ---------------------------
(* Instances of RateLimiting for TLC. *)
EXTENDS RateLimiting, TLC
CONSTANTS p1, p2

Names ==
  {"JWT_ISSUER", "JWT_AUDIENCE", "JWKS_URL", "JWT_TENANT_ID", "RATE_LIMIT_BACKEND", "REDIS_URL",
   "RUNTIME_ENVIRONMENT", "DATABASE_URL", "DATABASE_MAX_CONNECTIONS", "AZURE_STORAGE_ACCOUNT",
   "AZURE_STORAGE_ACCESS_KEY", "AZURE_STORAGE_EMULATOR_HOST", "AZURE_QUEUE_NAME",
   "PROCESSED_TILES_CONTAINER", "INGEST_SERVICE_BASE_URL", "INTERNAL_SERVICE_AUTH_TOKEN",
   "INTERNAL_SERVICE_AUTH_HEADER", "PORT", "RUST_LOG", "JWKS_CACHE_TTL_SECONDS",
   "JWT_CLOCK_SKEW_SECONDS", "JWT_MAX_ADMIN_TOKEN_LIFETIME_SECONDS", "HTTP_RETRY_MAX_ATTEMPTS",
   "HTTP_RETRY_BASE_DELAY_MS", "HTTP_RETRY_MAX_DELAY_MS", "MAX_URL_LENGTH_BYTES",
   "ADMIN_MAX_BODY_BYTES", "PUBLIC_ROUTE_TIMEOUT_SECONDS", "ADMIN_ROUTE_TIMEOUT_SECONDS",
   "HEALTH_ROUTE_TIMEOUT_SECONDS"}

\* What the gateway requires, for a runtime environment, a backend and a Redis
\* URL that may each be unset.
Deployment(environment, backend, redis) ==
  [n \in Names |->
     CASE n = "RUNTIME_ENVIRONMENT" -> environment
       [] n = "RATE_LIMIT_BACKEND" -> backend
       [] n = "REDIS_URL" -> redis
       [] n \in {"JWT_ISSUER", "JWT_AUDIENCE", "JWKS_URL", "JWT_TENANT_ID"} -> {"ours"}
       [] OTHER -> {}]
Deployments ==
  {Deployment(e, b, r) : e \in {{}, {"staging"}}, b \in {{}, {"memory"}, {"redis"}},
                         r \in {{}, {"redis://cache"}}}

One == [c \in Classes |-> 1]

Symmetry == Permutations(Requests) \cup Permutations(Clients) \cup Permutations({p1, p2})
=============================================================================
