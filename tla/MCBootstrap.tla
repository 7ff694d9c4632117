----------------------------- MODULE MCBootstrap -----------------------------
(* Instances of Bootstrap for TLC: the environments that differ in at most *)
(* two variables from a working development or production environment.     *)
EXTENDS Bootstrap

Values ==
  [APP_ENV |-> {"blank", "development", "production", "garbage"},
   POSTGRES |-> {"unset", "blank", "garbage"},
   DB_LOG_LEVEL |-> {"garbage"},
   DB_MAX_CONNS |-> {"zero"},
   DB_MIN_CONNS |-> {"over"},
   REDIS_ADDR |-> {"unset", "blank"},
   JWT_SECRET |-> {"unset", "blank", "placeholder", "short", "strong"},
   JWT_ISSUER |-> {"blank"},
   JWT_TTL |-> {"zero", "garbage"},
   AUTH_DEV_TOKEN_ENABLED |-> {"true", "garbage"},
   GIN_MODE |-> {"blank", "debug", "test", "garbage"},
   LOG_FORMAT |-> {"console", "garbage"},
   LOG_LEVEL |-> {"garbage"},
   REQUEST_TIMEOUT |-> {"zero"},
   GRACEFUL_DRAIN |-> {"negative"},
   TRUSTED_PROXIES |-> {"garbage"},
   RATE_LIMIT_PER_MINUTE |-> {"positive", "negative"},
   METRICS_ENABLED |-> {"false"},
   WORKER_CONCURRENCY |-> {"zero"},
   WORKER_QUEUES |-> {"garbage"},
   DOCS_THEME |-> {"garbage"},
   DOCS_LAYOUT |-> {"garbage"},
   LOG_STACKTRACE_LEVEL |-> {"garbage"},
   OTHERS |-> {"garbage"}]

Development ==
  [v \in Variable |-> IF v \in {"POSTGRES", "REDIS_ADDR"} THEN "set" ELSE "unset"]

InProduction ==
  [Development EXCEPT !["APP_ENV"] = "production", !["JWT_SECRET"] = "strong"]

Change(E) ==
  E \union {[e EXCEPT ![v] = x] : <<e, v, x>> \in
              {t \in E \X Variable \X UNION {Values[w] : w \in Variable} :
                 t[3] \in Values[t[2]]}}

MCEnvironments == Change(Change({Development, InProduction}))
=============================================================================
