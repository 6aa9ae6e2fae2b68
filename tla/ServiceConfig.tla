---------------------------- MODULE ServiceConfig ----------------------------
(***************************************************************************)
(* The configuration of the three services.  Each reads the environment    *)
(* once, with a parser and defaults of its own, and refuses to start on    *)
(* what it does not accept; the gateway then builds its clients, of which  *)
(* any may fail, and reports its readiness.                                *)
(*                                                                         *)
(* An environment gives every variable a set: empty when it is unset or    *)
(* blank, else with its value.  Malformed stands for any text that the     *)
(* variable's parser, or the first client that parses it, turns down, and  *)
(* NoNumber for it among the numbers.                                      *)
(***************************************************************************)
EXTENDS Integers, FiniteSets

Malformed == "malformed"
NoNumber == -1

\* Tokens of 32 characters, none of them white space: one with control characters
\* makes no header, one beyond ASCII makes one that does not read as text.
Unprintable == "unprintable"
NotAscii == "not ascii"

IsSet(env, name) == env[name] # {}
ValueOf(setting) == CHOOSE v \in setting : TRUE
OrDefault(env, name, default) == IF IsSet(env, name) THEN ValueOf(env[name]) ELSE default
IsMalformed(setting) == setting # {} /\ ValueOf(setting) = Malformed
Positive(env, name, default) == OrDefault(env, name, default) >= 1
Unset(env, names) == {n \in names : ~IsSet(env, n)}

\* parse_http_retry_config
RetryAccepted(env) ==
  LET base == OrDefault(env, "HTTP_RETRY_BASE_DELAY_MS", 250)
      longest == OrDefault(env, "HTTP_RETRY_MAX_DELAY_MS", 5000)
  IN  /\ Positive(env, "HTTP_RETRY_MAX_ATTEMPTS", 3)
      /\ base >= 1 /\ longest >= 1 /\ base <= longest

PortAccepted(env, default) == OrDefault(env, "PORT", default) \in 1..65535

Storage == {"AZURE_STORAGE_ACCOUNT", "AZURE_STORAGE_ACCESS_KEY"}

-----------------------------------------------------------------------------
(* api-gateway *)

\* requires_distributed_rate_limit and requires_tenant_bound_auth
RequiresMore(environment) == environment \in {"staging", "prod"}

\* parse_internal_service_auth_config: none without a token.
ServiceAuth(env) ==
  {[header |-> OrDefault(env, "INTERNAL_SERVICE_AUTH_HEADER", "x-lumenhorizon-internal-token"),
    token |-> token] : token \in env["INTERNAL_SERVICE_AUTH_TOKEN"]}
ServiceAuthAccepted(env) ==
  \A auth \in ServiceAuth(env) : Malformed \notin {auth.header, auth.token}

HasStorageSetting(env, own) ==
  \E n \in Storage \cup {"AZURE_STORAGE_EMULATOR_HOST", own} : IsSet(env, n)

\* parse_tile_manifest_storage: one setting asks for the others.
TileManifestStorageMissing(env) ==
  IF HasStorageSetting(env, "PROCESSED_TILES_CONTAINER") THEN Unset(env, Storage) ELSE {}
TileManifestStorage(env) ==
  IF HasStorageSetting(env, "PROCESSED_TILES_CONTAINER") /\ Unset(env, Storage) = {}
  THEN {[container |-> OrDefault(env, "PROCESSED_TILES_CONTAINER", "processed-tiles")]} ELSE {}

\* Defect: the gateway has a default of its own.
ProcessingQueueElsewhere(env) ==
  IF HasStorageSetting(env, "AZURE_QUEUE_NAME") /\ Unset(env, Storage) = {}
  THEN {[queue |-> OrDefault(env, "AZURE_QUEUE_NAME", "processing")]} ELSE {}

\* parse_processing_queue_config
ProcessingQueueMissing(env) ==
  IF HasStorageSetting(env, "AZURE_QUEUE_NAME") THEN Unset(env, Storage) ELSE {}
ProcessingQueue(env) ==
  IF HasStorageSetting(env, "AZURE_QUEUE_NAME") /\ Unset(env, Storage) = {}
  THEN {[queue |-> OrDefault(env, "AZURE_QUEUE_NAME", "viirs-processing")]} ELSE {}

RuntimeEnvironment(env) == OrDefault(env, "RUNTIME_ENVIRONMENT", "local")
RateLimitBackend(env) == OrDefault(env, "RATE_LIMIT_BACKEND", "memory")

\* Defect: staging and prod may count in memory.
GatewayMissingAnyBackend(env) ==
  Unset(env, {"JWT_ISSUER", "JWT_AUDIENCE", "JWKS_URL"})
    \cup TileManifestStorageMissing(env) \cup ProcessingQueueMissing(env)
    \cup (IF RateLimitBackend(env) = "redis" THEN Unset(env, {"REDIS_URL"}) ELSE {})

\* Defect: a trigger may go without a token.
GatewayMissingButToken(env) ==
  LET strict == RequiresMore(RuntimeEnvironment(env))
      redis == RateLimitBackend(env) = "redis"
  IN  Unset(env, {"JWT_ISSUER", "JWT_AUDIENCE", "JWKS_URL"})
        \cup TileManifestStorageMissing(env) \cup ProcessingQueueMissing(env)
        \cup (IF redis THEN Unset(env, {"REDIS_URL"}) ELSE IF strict THEN {"REDIS_URL"} ELSE {})
        \cup (IF strict THEN Unset(env, {"JWT_TENANT_ID"}) ELSE {})

\* The variables that from_lookup reports missing.
GatewayMissing(env) ==
  LET strict == RequiresMore(RuntimeEnvironment(env))
      redis == RateLimitBackend(env) = "redis"
  IN  Unset(env, {"JWT_ISSUER", "JWT_AUDIENCE", "JWKS_URL"})
        \cup TileManifestStorageMissing(env) \cup ProcessingQueueMissing(env)
        \cup (IF redis THEN Unset(env, {"REDIS_URL"}) ELSE IF strict THEN {"REDIS_URL"} ELSE {})
        \cup (IF strict THEN Unset(env, {"JWT_TENANT_ID"}) ELSE {})
        \cup (IF strict /\ IsSet(env, "INGEST_SERVICE_BASE_URL")
              THEN Unset(env, {"INTERNAL_SERVICE_AUTH_TOKEN"}) ELSE {})

\* AppConfig::from_lookup: "common" stands for a tenant, or a URL, of many.
GatewayAccepts(env) ==
  /\ RateLimitBackend(env) \in {"memory", "redis"}
  /\ RuntimeEnvironment(env) \in {"local", "dev", "staging", "prod"}
  /\ IsSet(env, "DATABASE_URL") => Positive(env, "DATABASE_MAX_CONNECTIONS", 5)
  /\ Malformed \notin env["INGEST_SERVICE_BASE_URL"] \cup env["REDIS_URL"]
  /\ ServiceAuthAccepted(env)
  /\ GatewayMissing(env) = {}
  /\ {Malformed, "common"} \cap env["JWT_TENANT_ID"] = {}
  /\ RequiresMore(RuntimeEnvironment(env)) => "common" \notin env["JWT_ISSUER"] \cup env["JWKS_URL"]
  /\ PortAccepted(env, 8080)
  /\ Malformed \notin env["RUST_LOG"]
  /\ Positive(env, "JWKS_CACHE_TTL_SECONDS", 300)
  /\ Positive(env, "JWT_CLOCK_SKEW_SECONDS", 60)
  /\ Positive(env, "JWT_MAX_ADMIN_TOKEN_LIFETIME_SECONDS", 3600)
  /\ RetryAccepted(env)
  /\ OrDefault(env, "MAX_URL_LENGTH_BYTES", 8192) # NoNumber
  /\ OrDefault(env, "ADMIN_MAX_BODY_BYTES", 65536) # NoNumber
  /\ Positive(env, "PUBLIC_ROUTE_TIMEOUT_SECONDS", 5)
  /\ Positive(env, "ADMIN_ROUTE_TIMEOUT_SECONDS", 15)
  /\ Positive(env, "HEALTH_ROUTE_TIMEOUT_SECONDS", 2)

\* The gateway's AppConfig, where others depend on it.
Gateway(env) ==
  [runtime_environment |-> RuntimeEnvironment(env),
   backend |-> RateLimitBackend(env),
   database |-> env["DATABASE_URL"],
   account |-> env["AZURE_STORAGE_ACCOUNT"],
   emulator |-> env["AZURE_STORAGE_EMULATOR_HOST"],
   tile_manifest_storage |-> TileManifestStorage(env),
   ingest_admin |-> env["INGEST_SERVICE_BASE_URL"],
   internal_service_auth |-> ServiceAuth(env),
   processing_queue |-> ProcessingQueue(env)]

\* The parts of the gateway that depend on another service.
Parts == {"database", "tile_manifest_storage", "ingest_admin", "processing_queue"}

\* service_endpoint: the account is the host's name, or a path of the emulator.
EndpointParses(config) ==
  IF config.emulator = {} THEN ~IsMalformed(config.account) ELSE ~IsMalformed(config.emulator)

\* AppState::new: the parts that have a client.  What the configuration did not
\* look at makes a client fail, and the gateway goes on without it.
Wired(config) ==
  {part \in Parts :
     /\ config[part] # {}
     /\ part = "database" => ~IsMalformed(config.database)
     /\ part \in {"tile_manifest_storage", "processing_queue"} => EndpointParses(config)
     /\ part = "ingest_admin" => \A auth \in config.internal_service_auth : auth.token # Unprintable
     /\ part = "processing_queue" => \A q \in config.processing_queue : q.queue # Malformed}

\* The variables with a value that a client turns down, and the parser does not.
Unfit(env) ==
  LET endpoint == IF IsSet(env, "AZURE_STORAGE_EMULATOR_HOST") THEN "AZURE_STORAGE_EMULATOR_HOST"
                  ELSE "AZURE_STORAGE_ACCOUNT"
  IN  {n \in {"DATABASE_URL", "AZURE_QUEUE_NAME", endpoint} : IsMalformed(env[n])}
        \cup {n \in {"INTERNAL_SERVICE_AUTH_TOKEN"} : Unprintable \in env[n]}

\* Defect: dev is taken for local.
UnavailableInDev(config, storeAnswers) ==
  IF RequiresMore(config.runtime_environment) THEN {p \in Parts : config[p] = {}} ELSE {}

\* ReadinessProbe::check: the checks that are not ready.
Unavailable(config, storeAnswers) ==
  {check \in {"rate_limit_store"} :
     IF config.backend = "redis" THEN ~storeAnswers
     ELSE RequiresMore(config.runtime_environment)}
  \cup (IF config.runtime_environment = "local" THEN {}
        ELSE {part \in Parts : config[part] = {}}
             \cup {check \in {"internal_service_auth"} :
                     config.ingest_admin # {} /\ config.internal_service_auth = {}})

-----------------------------------------------------------------------------
(* ingest-svc *)

IngestMissing(env) == Unset(env, Storage \cup {"DATABASE_URL"})

\* parse_bounding_box: any other text is malformed.
BoundingBoxAccepted(env) == Malformed \notin env["BOUNDING_BOX"]
\* parse_max_cloud_fraction, in percent
CloudFractionAccepted(env) == OrDefault(env, "MAX_CLOUD_FRACTION", 40) \in 0..100
MaxGranulesAccepted(env) == \A n \in env["INGEST_MAX_GRANULES"] : n >= 1

\* Defect: the header goes by another name.
InternalAdminAuthRenamed(env) ==
  {[header |-> OrDefault(env, "INTERNAL_SERVICE_AUTH_HEADER", "x-internal-token"),
    token |-> token] : token \in env["INTERNAL_SERVICE_AUTH_TOKEN"]}
\* parse_internal_admin_auth_config
InternalAdminAuth(env) ==
  {[header |-> OrDefault(env, "INTERNAL_SERVICE_AUTH_HEADER", "x-lumenhorizon-internal-token"),
    token |-> token] : token \in env["INTERNAL_SERVICE_AUTH_TOKEN"]}

\* AppConfig::from_lookup_for
IngestAccepts(env) ==
  /\ IngestMissing(env) = {}
  /\ PortAccepted(env, 8083)
  /\ Malformed \notin env["RUST_LOG"] \cup env["AZURE_STORAGE_ACCESS_KEY"]
  /\ BoundingBoxAccepted(env)
  /\ CloudFractionAccepted(env)
  /\ MaxGranulesAccepted(env)
  /\ \A auth \in InternalAdminAuth(env) : Malformed \notin {auth.header, auth.token}
  /\ Positive(env, "HTTP_REQUEST_TIMEOUT_SECONDS", 30)
  /\ RetryAccepted(env)

\* Raw blobs go to a container that is not configured.
Ingest(env) ==
  [queue |-> OrDefault(env, "AZURE_QUEUE_NAME", "viirs-processing"),
   raw_container |-> "raw-viirs",
   internal_admin_auth |-> InternalAdminAuth(env)]

-----------------------------------------------------------------------------
(* processing-svc *)

ProcessingMissing(env) == Unset(env, Storage \cup {"DATABASE_URL"})

\* parse_u8_range, from the zoom before on
ZoomsAccepted(env) ==
  LET min == OrDefault(env, "TILE_MIN_ZOOM", 3)
      native == OrDefault(env, "TILE_MAX_NATIVE_ZOOM", 10)
  IN  /\ min \in 0..22
      /\ native \in min..22
      /\ OrDefault(env, "TILE_MAX_DISPLAY_ZOOM", 12) \in native..22

\* parse_tile_bounds and parse_tile_format: any other text is malformed.
TilesAccepted(env) ==
  /\ Positive(env, "TILE_SIZE", 256)
  /\ Malformed \notin env["TILE_FORMAT"] \cup env["TILE_BOUNDS"]

RetentionAccepted(env) ==
  /\ Positive(env, "RAW_GRANULE_RETENTION_DAYS", 90)
  /\ Positive(env, "PROCESSED_TILE_SET_RETENTION_DAYS", 180)
  /\ OrDefault(env, "RETENTION_PROTECTED_PRIOR_TILE_SETS", 2) >= 0
  /\ Positive(env, "RETENTION_BATCH_LIMIT", 500)
  /\ OrDefault(env, "RETENTION_TILE_BLOB_LIMIT", 5000) \in 1..5000

\* AppConfig::from_lookup_for
ProcessingAccepts(env) ==
  /\ ProcessingMissing(env) = {}
  /\ ZoomsAccepted(env)
  /\ CloudFractionAccepted(env)
  /\ Positive(env, "PROCESSING_VISIBILITY_TIMEOUT_SECONDS", 900)
  /\ Positive(env, "PROCESSING_MAX_DEQUEUE_COUNT", 5)
  /\ Positive(env, "PROCESSING_MAX_PARALLELISM", 1)
  /\ Positive(env, "HTTP_REQUEST_TIMEOUT_SECONDS", 30)
  /\ RetryAccepted(env)
  /\ TilesAccepted(env)
  /\ RetentionAccepted(env)

Processing(env) ==
  [queue |-> OrDefault(env, "AZURE_QUEUE_NAME", "viirs-processing"),
   deadletter_queue |-> OrDefault(env, "AZURE_DEADLETTER_QUEUE_NAME", "viirs-processing-deadletter"),
   raw_container |-> OrDefault(env, "RAW_VIIRS_CONTAINER", "raw-viirs"),
   tiles_container |-> OrDefault(env, "PROCESSED_TILES_CONTAINER", "processed-tiles")]
=============================================================================
