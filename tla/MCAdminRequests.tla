--------------------------- MODULE MCAdminRequests ---------------------------
(* Instances of AdminRequests for TLC. *)
EXTENDS AdminRequests, TLC
CONSTANTS old, new

Text ==
  {"JWT_ISSUER", "JWT_AUDIENCE", "JWKS_URL", "JWT_TENANT_ID", "RATE_LIMIT_BACKEND", "REDIS_URL",
   "RUNTIME_ENVIRONMENT", "DATABASE_URL", "AZURE_STORAGE_ACCOUNT", "AZURE_STORAGE_ACCESS_KEY",
   "AZURE_STORAGE_EMULATOR_HOST", "AZURE_QUEUE_NAME", "AZURE_DEADLETTER_QUEUE_NAME",
   "PROCESSED_TILES_CONTAINER", "RAW_VIIRS_CONTAINER", "INGEST_SERVICE_BASE_URL",
   "INTERNAL_SERVICE_AUTH_TOKEN", "INTERNAL_SERVICE_AUTH_HEADER", "RUST_LOG", "BOUNDING_BOX",
   "TILE_FORMAT", "TILE_BOUNDS"}
Numbers ==
  {"DATABASE_MAX_CONNECTIONS", "PORT", "JWKS_CACHE_TTL_SECONDS", "JWT_CLOCK_SKEW_SECONDS",
   "JWT_MAX_ADMIN_TOKEN_LIFETIME_SECONDS", "HTTP_RETRY_MAX_ATTEMPTS", "HTTP_RETRY_BASE_DELAY_MS",
   "HTTP_RETRY_MAX_DELAY_MS", "MAX_URL_LENGTH_BYTES", "ADMIN_MAX_BODY_BYTES",
   "PUBLIC_ROUTE_TIMEOUT_SECONDS", "ADMIN_ROUTE_TIMEOUT_SECONDS", "HEALTH_ROUTE_TIMEOUT_SECONDS",
   "MAX_CLOUD_FRACTION", "INGEST_MAX_GRANULES", "HTTP_REQUEST_TIMEOUT_SECONDS", "TILE_MIN_ZOOM",
   "TILE_MAX_NATIVE_ZOOM", "TILE_MAX_DISPLAY_ZOOM", "TILE_SIZE",
   "PROCESSING_VISIBILITY_TIMEOUT_SECONDS", "PROCESSING_MAX_DEQUEUE_COUNT",
   "PROCESSING_MAX_PARALLELISM", "RAW_GRANULE_RETENTION_DAYS", "PROCESSED_TILE_SET_RETENTION_DAYS",
   "RETENTION_PROTECTED_PRIOR_TILE_SETS", "RETENTION_BATCH_LIMIT", "RETENTION_TILE_BLOB_LIMIT"}

\* Everything a deployment outside of local asks for, and nothing else.
Required ==
  {"JWT_ISSUER", "JWT_AUDIENCE", "JWKS_URL", "JWT_TENANT_ID", "REDIS_URL", "DATABASE_URL",
   "AZURE_STORAGE_ACCOUNT", "AZURE_STORAGE_ACCESS_KEY", "INGEST_SERVICE_BASE_URL",
   "INTERNAL_SERVICE_AUTH_TOKEN"}
Full(environment) ==
  [n \in Text \cup Numbers |->
     CASE n = "RUNTIME_ENVIRONMENT" -> {environment}
       [] n = "RATE_LIMIT_BACKEND" -> {"redis"}
       [] n \in Required -> {"ours"}
       [] OTHER -> {}]

\* A full environment in which one variable is unset or has a value that its
\* parser turns down, or another one.
Changed(env, names, values) == {[env EXCEPT ![n] = v] : n \in names, v \in values}
Varied ==
  UNION {Changed(Full(e), Text, {{}, {Malformed}})
           \cup Changed(Full(e), {"JWT_TENANT_ID", "JWKS_URL", "PROCESSED_TILES_CONTAINER"}, {{"common"}})
           \cup Changed(Full(e), {"INTERNAL_SERVICE_AUTH_TOKEN"}, {{NotAscii}, {Unprintable}})
           \cup Changed(Full(e), {"INTERNAL_SERVICE_AUTH_HEADER"},
                        {{"x-request-id"}, {"content-type"}, {"content-length"}})
           \cup Changed([Full(e) EXCEPT !["AZURE_STORAGE_EMULATOR_HOST"] = {"azurite"}],
                        {"AZURE_STORAGE_ACCOUNT"}, {{Malformed}})
           \cup Changed(Full(e), Numbers, {{NoNumber}, {0}, {22}}) : e \in {"dev", "prod"}}
    \cup {[Full("local") EXCEPT !["INTERNAL_SERVICE_AUTH_TOKEN"] = {}, !["DATABASE_URL"] = {}]}

\* Both services run with the same environment, or with an older token, an older
\* header, or none.
Mismatched ==
  Changed(Full("prod"), {"INTERNAL_SERVICE_AUTH_TOKEN"}, {{}, {"older"}})
    \cup Changed(Full("prod"), {"INTERNAL_SERVICE_AUTH_HEADER"}, {{"x-older"}, {"content-type"}})
SomeDeployments ==
  {<<Full("prod"), Full("prod"), Requests>>}
    \cup {<<d[1], d[2], {i}>> : i \in Requests,
            d \in {<<e, e>> : e \in Varied} \cup ({Full("prod")} \X Mismatched)}

\* A token of each key; one without the admin role.
SomeTokens ==
  {[kid |-> old, valid |-> TRUE, admin |-> TRUE], [kid |-> new, valid |-> TRUE, admin |-> TRUE],
   [kid |-> old, valid |-> TRUE, admin |-> FALSE]}

Symmetry == Permutations(Requests)
=============================================================================
