------------------------------ MODULE Bootstrap ------------------------------
(***************************************************************************)
(* How a process is put together and taken apart: the environment is read  *)
(* and validated, the clients of PostgreSQL and Redis are opened one after *)
(* the other, the two pools are probed, the HTTP server and the worker are *)
(* assembled.  Anything may fail; what is already open must then be        *)
(* closed.  A value of an environment variable is "unset", "blank" (only   *)
(* spaces), "garbage" (it does not parse) or what it means.                *)
(***************************************************************************)
EXTENDS Integers, Sequences

CONSTANT Environments   \* the environments a process may be started in

Blank == {"unset", "blank"}

(* "OTHERS" stands for the numbers, durations and booleans that are parsed *)
(* like the rest and that nothing here looks at: STARTUP_PROBE_TIMEOUT,    *)
(* BODY_MAX_BYTES, WATCHDOG_INTERVAL, DB_CONN_MAX_*, REDIS_*_DB, the sizes *)
(* of the Redis pool, WORKER_RETRY_*, and the switches of pprof, the       *)
(* security headers, the docs page, the audit log and CORS credentials.  A *)
(* text that is taken as it comes (ports, addresses, titles) is left out.  *)
Variable ==
  {"APP_ENV", "POSTGRES", "DB_LOG_LEVEL", "DB_MAX_CONNS", "DB_MIN_CONNS",
   "REDIS_ADDR", "JWT_SECRET", "JWT_ISSUER", "JWT_TTL",
   "AUTH_DEV_TOKEN_ENABLED", "GIN_MODE", "LOG_FORMAT", "LOG_LEVEL",
   "REQUEST_TIMEOUT", "GRACEFUL_DRAIN", "TRUSTED_PROXIES",
   "RATE_LIMIT_PER_MINUTE", "METRICS_ENABLED", "WORKER_CONCURRENCY",
   "WORKER_QUEUES", "DOCS_THEME", "DOCS_LAYOUT", "LOG_STACKTRACE_LEVEL",
   "OTHERS"}

(* What a variable may mean, one value for those the code tells apart:     *)
(* "30" and "0" are numbers in range, "info", "warn" and "error" levels    *)
(* that are known.                                                         *)
Meanings ==
  [APP_ENV |-> {"development", "production"}, POSTGRES |-> {"set"},
   DB_LOG_LEVEL |-> {"warn"}, DB_MAX_CONNS |-> {"30", "zero", "negative", "over"},
   DB_MIN_CONNS |-> {"0", "negative", "over"}, REDIS_ADDR |-> {"set"},
   JWT_SECRET |-> {"placeholder", "short", "strong"}, JWT_ISSUER |-> {"default"},
   JWT_TTL |-> {"positive", "zero", "negative"},
   AUTH_DEV_TOKEN_ENABLED |-> {"true", "false"},
   GIN_MODE |-> {"debug", "release", "test"}, LOG_FORMAT |-> {"json", "console"},
   LOG_LEVEL |-> {"info"}, REQUEST_TIMEOUT |-> {"positive", "zero", "negative"},
   GRACEFUL_DRAIN |-> {"positive", "zero", "negative"}, TRUSTED_PROXIES |-> {"set"},
   RATE_LIMIT_PER_MINUTE |-> {"positive", "zero", "negative"},
   METRICS_ENABLED |-> {"true", "false"},
   WORKER_CONCURRENCY |-> {"positive", "zero", "negative"},
   WORKER_QUEUES |-> {"weights"}, DOCS_THEME |-> {"light", "dark", "system"},
   DOCS_LAYOUT |-> {"sidebar", "stacked"}, LOG_STACKTRACE_LEVEL |-> {"error"},
   OTHERS |-> {"parsed"}]

ASSUME EnvironmentsAssumption ==
  \A e \in Environments :
    /\ DOMAIN e = Variable
    /\ \A v \in Variable : e[v] \in Blank \union {"garbage"} \union Meanings[v]

Client == {"migration_pool", "db", "cache", "queue_client", "inspector"}

VARIABLES
  mode, env,    \* how the process was started, never changed
  phase,        \* starting, cleaning up, serving, closing, exited
  at,           \* the next step of the start
  open,         \* clients that are open
  cleanups,     \* InitAPI's and InitWorker's cleanups, in opening order
  probed,       \* clients that answered the startup probe
  held,         \* what the Registry holds
  goroutines,   \* background goroutines of the HTTP server
  processor,    \* what handles example tasks
  refused,      \* the step of the start that failed; "run" for a later failure
  faults        \* history: a service failed

startVars == <<mode, env>>
vars == <<startVars, phase, at, open, cleanups, probed, held, goroutines,
          processor, refused, faults>>

-----------------------------------------------------------------------------
(* The configuration (config.Load).                                        *)

(* The fallback of a variable that is not set; the others have none.       *)
Fallback ==
  [APP_ENV |-> "development", JWT_ISSUER |-> "default", JWT_TTL |-> "positive",
   GIN_MODE |-> "release", LOG_FORMAT |-> "json", LOG_LEVEL |-> "info",
   DB_LOG_LEVEL |-> "warn", DB_MAX_CONNS |-> "30", DB_MIN_CONNS |-> "0",
   AUTH_DEV_TOKEN_ENABLED |-> "false", REQUEST_TIMEOUT |-> "positive",
   GRACEFUL_DRAIN |-> "positive", RATE_LIMIT_PER_MINUTE |-> "zero",
   METRICS_ENABLED |-> "true", WORKER_CONCURRENCY |-> "positive",
   WORKER_QUEUES |-> "weights", DOCS_THEME |-> "system", DOCS_LAYOUT |-> "sidebar",
   LOG_STACKTRACE_LEVEL |-> "error", OTHERS |-> "parsed"]

(* Variables that are parsed as a number, a duration, a boolean, queue     *)
(* weights or an environment name.                                         *)
Parsed == {"APP_ENV", "DB_MAX_CONNS", "DB_MIN_CONNS", "JWT_TTL",
           "AUTH_DEV_TOKEN_ENABLED", "REQUEST_TIMEOUT", "GRACEFUL_DRAIN",
           "RATE_LIMIT_PER_MINUTE", "METRICS_ENABLED", "WORKER_CONCURRENCY",
           "WORKER_QUEUES", "OTHERS"}

(* What Load puts into the Config for each variable.                       *)
Cfg ==
  [v \in Variable |->
     IF env[v] \in Blank /\ v \in DOMAIN Fallback THEN Fallback[v] ELSE env[v]]

ParseFails == \E v \in Parsed : Cfg[v] = "garbage"

Production == Cfg["APP_ENV"] = "production"
HasDsn == Cfg["POSTGRES"] \notin Blank
HasRedis == Cfg["REDIS_ADDR"] \notin Blank
HasSecret == Cfg["JWT_SECRET"] \notin Blank

ValidPostgres ==
  HasDsn => /\ Cfg["DB_MAX_CONNS"] = "30"
            /\ Cfg["DB_MIN_CONNS"] = "0"
            /\ Cfg["DB_LOG_LEVEL"] = "warn"

(* What production insists on.                                             *)
ProductionSecrets ==
  /\ Cfg["JWT_SECRET"] = "strong"
  /\ Cfg["AUTH_DEV_TOKEN_ENABLED"] = "false"
  /\ Cfg["GIN_MODE"] = "release"
  /\ Cfg["LOG_FORMAT"] = "json"

BugValid ==
  /\ Cfg["REQUEST_TIMEOUT"] = "positive"
  /\ Cfg["GIN_MODE"] \in {"debug", "release", "test"}
  /\ Cfg["GRACEFUL_DRAIN"] # "negative"
  /\ ValidPostgres
  /\ Cfg["WORKER_CONCURRENCY"] = "positive"
  /\ Cfg["RATE_LIMIT_PER_MINUTE"] # "negative"
  /\ Cfg["DOCS_THEME"] \in {"light", "dark", "system"}
  /\ Cfg["DOCS_LAYOUT"] \in {"sidebar", "stacked"}
  /\ HasSecret => Cfg["JWT_ISSUER"] \notin Blank
  /\ Production => ProductionSecrets /\ Cfg["JWT_TTL"] = "positive"

(* The constraints between variables that validate checks all at once.     *)
Valid ==
  /\ Cfg["REQUEST_TIMEOUT"] = "positive"
  /\ Cfg["GIN_MODE"] \in {"debug", "release", "test"}
  /\ Cfg["GRACEFUL_DRAIN"] # "negative"
  /\ ValidPostgres
  /\ Cfg["WORKER_CONCURRENCY"] = "positive"
  /\ Cfg["RATE_LIMIT_PER_MINUTE"] # "negative"
  /\ Cfg["DOCS_THEME"] \in {"light", "dark", "system"}
  /\ Cfg["DOCS_LAYOUT"] \in {"sidebar", "stacked"}
  /\ HasSecret => Cfg["JWT_ISSUER"] \notin Blank
  /\ HasSecret => Cfg["JWT_TTL"] = "positive"
  /\ Production => ProductionSecrets

(* applog.Init knows both levels and the format.                           *)
LoggerReady ==
  /\ Cfg["LOG_LEVEL"] = "info"
  /\ Cfg["LOG_STACKTRACE_LEVEL"] = "error"
  /\ Cfg["LOG_FORMAT"] \in {"json", "console"}

-----------------------------------------------------------------------------
(* The start of each mode, as the steps it goes through.                   *)

(* InitAPI, then NewServer.                                                *)
ApiSteps ==
  <<"load", "db", "cache", "probe_db", "probe_cache", "auth", "queue", "server">>

(* InitWorker, then NewWorker.                                             *)
WorkerSteps ==
  <<"load", "redis", "cache", "db", "probe_db", "probe_cache", "queue", "worker">>

(* The migrations before, the worker after what the API does.              *)
AllSteps ==
  <<"load", "migration_pool", "migrate", "db", "cache", "probe_db", "probe_cache",
    "auth", "queue", "server", "worker">>

Steps ==
  CASE mode = "api" -> ApiSteps
    [] mode = "worker" -> WorkerSteps
    [] mode = "all" -> AllSteps

HasApi == mode \in {"api", "all"}
HasWorker == mode \in {"worker", "all"}

Init ==
  /\ mode \in {"api", "worker", "all"}
  /\ env \in Environments
  /\ phase = "starting" /\ at = 1
  /\ open = {} /\ cleanups = <<>> /\ probed = {}
  /\ held = {} /\ goroutines = {} /\ processor = "none"
  /\ refused = "none" /\ faults = FALSE

At(step) == phase = "starting" /\ Steps[at] = step

(* The step succeeds.                                                      *)
Advance ==
  /\ at' = at + 1
  /\ phase' = IF at = Len(Steps) THEN "serving" ELSE "starting"
  /\ UNCHANGED <<startVars, refused>>

(* The step returns an error: runCleanups, then the process exits.         *)
Refuse ==
  /\ refused' = Steps[at]
  /\ phase' = "cleaning_up"
  /\ UNCHANGED <<startVars, at>>

(* The step fails in the middle of a running process: log.Fatal leaves     *)
(* everything to the exit.                                                 *)
Fatal ==
  /\ refused' = Steps[at]
  /\ phase' = "exited"
  /\ UNCHANGED <<startVars, at>>

(* The two groups of variables most steps leave alone.                     *)
OpenVars == <<open, cleanups>>
BuiltVars == <<held, goroutines, processor>>

LoadConfig ==
  /\ At("load")
  /\ IF ~ParseFails /\ Valid /\ LoggerReady THEN Advance ELSE Refuse
  /\ UNCHANGED <<OpenVars, BuiltVars, probed, faults>>

(* migrate opens a pool of its own ...                                     *)
OpenMigrationPool ==
  /\ At("migration_pool")
  /\ IF HasDsn /\ Cfg["POSTGRES"] # "garbage"
     THEN Advance /\ open' = open \union {"migration_pool"}
     ELSE Refuse /\ UNCHANGED open
  /\ UNCHANGED <<cleanups, BuiltVars, probed, faults>>

(* ... and closes it, whatever came of the migrations.                     *)
Migrate ==
  /\ At("migrate")
  /\ \/ Advance /\ UNCHANGED faults
     \/ Refuse /\ faults' = TRUE
  /\ open' = open \ {"migration_pool"}
  /\ UNCHANGED <<cleanups, BuiltVars, probed>>

(* InitWorker wants Redis before anything else.                            *)
RequireRedis ==
  /\ At("redis")
  /\ IF HasRedis THEN Advance ELSE Refuse
  /\ UNCHANGED <<OpenVars, BuiltVars, probed, faults>>

Opened(client) ==
  /\ Advance
  /\ open' = open \union {client}
  /\ cleanups' = Append(cleanups, client)

BugOpenDb ==
  /\ At("db")
  /\ IF HasDsn /\ Cfg["POSTGRES"] # "garbage"
     THEN Advance /\ open' = open \union {"db"} /\ UNCHANGED cleanups
     ELSE /\ IF mode = "worker" /\ ~HasDsn THEN Advance ELSE Refuse
          /\ UNCHANGED OpenVars
  /\ UNCHANGED <<BuiltVars, probed, faults>>

(* The pool connects lazily: only a DSN that does not parse is an error.   *)
(* A worker may do without a database.                                     *)
OpenDb ==
  /\ At("db")
  /\ IF HasDsn /\ Cfg["POSTGRES"] # "garbage"
     THEN Opened("db")
     ELSE /\ IF mode = "worker" /\ ~HasDsn THEN Advance ELSE Refuse
          /\ UNCHANGED OpenVars
  /\ UNCHANGED <<BuiltVars, probed, faults>>

OpenCache ==
  /\ At("cache")
  /\ IF HasRedis THEN Opened("cache") ELSE Advance /\ UNCHANGED OpenVars
  /\ UNCHANGED <<BuiltVars, probed, faults>>

BugProbe(client) ==
  /\ At(IF client = "db" THEN "probe_db" ELSE "probe_cache")
  /\ IF client \in open
     THEN \/ Advance /\ probed' = probed \union {client} /\ UNCHANGED faults
          \/ Refuse /\ faults' = TRUE /\ UNCHANGED probed
     ELSE Refuse /\ UNCHANGED <<probed, faults>>
  /\ UNCHANGED <<OpenVars, BuiltVars>>

(* probeDependencies pings what was opened and skips a nil client.         *)
Probe(client) ==
  /\ At(IF client = "db" THEN "probe_db" ELSE "probe_cache")
  /\ IF client \in open
     THEN \/ Advance /\ probed' = probed \union {client} /\ UNCHANGED faults
          \/ Refuse /\ faults' = TRUE /\ UNCHANGED probed
     ELSE Advance /\ UNCHANGED <<probed, faults>>
  /\ UNCHANGED <<OpenVars, BuiltVars>>

(* Without a secret there is no manager, and every token is refused.       *)
InitAuth ==
  /\ At("auth")
  /\ Advance
  /\ held' = held \union (IF HasSecret THEN {"auth"} ELSE {})
  /\ UNCHANGED <<OpenVars, goroutines, processor, probed, faults>>

(* The queue client and, for the API, the inspector; neither can fail.     *)
(* The Registry takes over what is open.                                   *)
OpenQueue ==
  /\ At("queue")
  /\ Advance
  /\ open' = open \union
       (IF ~HasRedis THEN {}
        ELSE {"queue_client"} \union (IF HasApi THEN {"inspector"} ELSE {}))
  /\ held' = held \union open'
  /\ cleanups' = <<>>
  /\ UNCHANGED <<goroutines, processor, probed, faults>>

(* NewServer: the limiter starts its goroutine before newEngine can fail,  *)
(* the collector after it.                                                 *)
BuildServer ==
  /\ At("server")
  /\ LET limiter == IF Cfg["RATE_LIMIT_PER_MINUTE"] = "positive"
                    THEN {"limiter"} ELSE {}
         collector == IF Cfg["METRICS_ENABLED"] = "true" /\ "inspector" \in held
                      THEN {"collector"} ELSE {}
     IN IF Cfg["TRUSTED_PROXIES"] # "garbage"
        THEN Advance /\ goroutines' = limiter \union collector
        ELSE Fatal /\ goroutines' = limiter
  /\ UNCHANGED <<OpenVars, held, processor, probed, faults>>

(* RequiredProcessors: the one that is not there.                          *)
MissingProcessor == "db" \notin held

BugBuildWorker ==
  /\ At("worker")
  /\ IF Cfg["REDIS_ADDR"] = "unset" THEN Fatal ELSE Advance
  /\ processor' = IF MissingProcessor THEN "noop" ELSE "real"
  /\ UNCHANGED <<OpenVars, held, goroutines, probed, faults>>

(* NewWorker compares the address with "", without trimming it.            *)
BuildWorker ==
  /\ At("worker")
  /\ IF \/ Cfg["REDIS_ADDR"] = "unset"
        \/ Production /\ MissingProcessor
     THEN Fatal /\ UNCHANGED processor
     ELSE /\ Advance
          /\ processor' = IF MissingProcessor THEN "noop" ELSE "real"
  /\ UNCHANGED <<OpenVars, held, goroutines, probed, faults>>

-----------------------------------------------------------------------------
(* The end.                                                                *)

(* One cleanup of runCleanups; its error is dropped.                       *)
RunCleanup ==
  /\ phase = "cleaning_up"
  /\ IF cleanups = <<>>
     THEN phase' = "exited" /\ UNCHANGED OpenVars
     ELSE /\ open' = open \ {cleanups[Len(cleanups)]}
          /\ cleanups' = SubSeq(cleanups, 1, Len(cleanups) - 1)
          /\ UNCHANGED phase
  /\ UNCHANGED <<startVars, at, probed, BuiltVars, refused, faults>>

(* A component fails while the process serves: runAll, runAPI or runWorker *)
(* call log.Fatal, which leaves everything to the exit.                    *)
RunFails ==
  /\ phase = "serving"
  /\ phase' = "exited"
  /\ refused' = "run" /\ faults' = TRUE
  /\ UNCHANGED <<startVars, at, OpenVars, probed, BuiltVars>>

(* The components return; Shutdown has waited for the limiter's goroutine  *)
(* and cancelled the collector's.                                          *)
Stop ==
  /\ phase = "serving"
  /\ phase' = "closing"
  /\ goroutines' = goroutines \ {"limiter"}
  /\ UNCHANGED <<startVars, at, OpenVars, probed, held, processor, refused,
                 faults>>

(* The collector sees that it was cancelled, after the round it is in: the *)
(* inspector may have been closed under it by then.                        *)
CollectorEnds ==
  /\ phase = "closing"
  /\ "collector" \in goroutines
  /\ goroutines' = goroutines \ {"collector"}
  /\ UNCHANGED <<startVars, phase, at, OpenVars, probed, held, processor,
                 refused, faults>>

CloseOrder == <<"inspector", "queue_client", "cache", "db">>

(* The clients Registry.Close has yet to close when it comes to client i.  *)
ClosedBefore(i) == \A j \in 1..(i - 1) : CloseOrder[j] \notin open

BugClose(i) ==
  /\ phase = "closing"
  /\ CloseOrder[i] \in held \intersect open
  /\ ClosedBefore(i)
  /\ open' = open \ {CloseOrder[i]}
  /\ \E failed \in BOOLEAN : phase' = IF failed THEN "exited" ELSE phase
  /\ UNCHANGED <<startVars, at, cleanups, probed, BuiltVars, refused, faults>>

(* One part of Registry.Close.  A client whose Close returns an error is   *)
(* closed all the same, and the rest still follows.                        *)
Close(i) ==
  /\ phase = "closing"
  /\ CloseOrder[i] \in held \intersect open
  /\ ClosedBefore(i)
  /\ open' = open \ {CloseOrder[i]}
  /\ UNCHANGED <<startVars, phase, at, cleanups, probed, BuiltVars, refused,
                 faults>>

Closed ==
  /\ phase = "closing"
  /\ \A i \in DOMAIN CloseOrder : CloseOrder[i] \notin held \intersect open
  /\ phase' = "exited"
  /\ UNCHANGED <<startVars, at, OpenVars, probed, BuiltVars, refused, faults>>

Exited == phase = "exited" /\ UNCHANGED vars

Next ==
  \/ LoadConfig \/ OpenMigrationPool \/ Migrate \/ RequireRedis
  \/ OpenDb \/ OpenCache \/ Probe("db") \/ Probe("cache")
  \/ InitAuth \/ OpenQueue \/ BuildServer \/ BuildWorker
  \/ RunCleanup \/ RunFails \/ Stop \/ CollectorEnds
  \/ (\E i \in DOMAIN CloseOrder : Close(i)) \/ Closed \/ Exited

Spec == Init /\ [][Next]_vars

-----------------------------------------------------------------------------
(* Properties.                                                             *)

(* Every variable keeps to its values; only clients are opened.            *)
TypeOK ==
  /\ mode \in {"api", "worker", "all"} /\ DOMAIN env = Variable
  /\ phase \in {"starting", "cleaning_up", "serving", "closing", "exited"}
  /\ at \in 1..(Len(Steps) + 1)
  /\ open \subseteq Client /\ probed \subseteq {"db", "cache"}
  /\ cleanups \in Seq(Client)
  /\ held \subseteq Client \union {"auth"}
  /\ goroutines \subseteq {"limiter", "collector"}
  /\ processor \in {"none", "noop", "real"}
  /\ refused \in {"none", "run"} \union {Steps[i] : i \in DOMAIN Steps}
  /\ faults \in BOOLEAN

(* A start that is given up, by InitAPI, InitWorker or migrate, leaves no  *)
(* client open, whatever had been opened by then; neither does             *)
(* Registry.Close, although each of its closes may fail.  The limiter's    *)
(* goroutine has ended; of the collector's a start that is given up leaves *)
(* nothing, while Shutdown only cancels it.  (When NewServer, NewWorker or *)
(* a running component fails, the process exits with everything it holds.) *)
NothingLeaks ==
  phase = "exited" /\ refused \notin {"server", "worker", "run"} =>
    /\ open = {}
    /\ goroutines \subseteq (IF refused = "none" THEN {"collector"} ELSE {})

(* The environment names another environment than development, if only by  *)
(* a misspelling.                                                          *)
MeantForProduction == env["APP_ENV"] \notin Blank \union {"development"}

(* A process meant for production serves only with a real secret, without  *)
(* the endpoint that hands out tokens, in release mode, with JSON logs,    *)
(* and never acknowledges tasks with the processor that does nothing.      *)
ProductionIsGuarded ==
  phase = "serving" /\ MeantForProduction =>
    /\ env["JWT_SECRET"] = "strong"
    /\ env["AUTH_DEV_TOKEN_ENABLED"] \in Blank \union {"false"}
    /\ env["GIN_MODE"] \in Blank \union {"release"}
    /\ env["LOG_FORMAT"] \in Blank \union {"json"}
    /\ processor # "noop"

(* A process serves only with what its mode and its environment call for:  *)
(* an API has a database; both pools have answered; a configured database  *)
(* means that tasks are really processed, a configured secret that tokens  *)
(* are checked, and their issuer with them.                                *)
ServingIsBacked ==
  phase = "serving" =>
    /\ HasApi => "db" \in held
    /\ held \intersect {"db", "cache"} \subseteq probed
    /\ HasWorker /\ HasDsn => processor = "real"
    /\ HasApi /\ HasSecret =>
         "auth" \in held /\ Cfg["JWT_ISSUER"] \notin Blank
                         /\ Cfg["JWT_TTL"] = "positive"

(* The variables a process of this mode cannot do without.                 *)
Needed ==
  (IF HasApi \/ MeantForProduction THEN {"POSTGRES"} ELSE {})
  \union (IF HasWorker THEN {"REDIS_ADDR"} ELSE {})
  \union (IF MeantForProduction THEN {"JWT_SECRET"} ELSE {})

(* What an operator can be told to correct about a variable.               *)
Objectionable(v) ==
  \/ env[v] \in {"garbage", "negative", "over"}
  \/ v \in {"JWT_TTL", "REQUEST_TIMEOUT", "DB_MAX_CONNS", "WORKER_CONCURRENCY"}
     /\ env[v] = "zero"
  \/ v \in Needed /\ env[v] \in Blank
  \/ MeantForProduction
     /\ env[v] \in {"placeholder", "short", "debug", "test", "console"}
  \/ MeantForProduction /\ v = "AUTH_DEV_TOKEN_ENABLED" /\ env[v] = "true"

(* A process refuses to start only for a cause: a service that fails, or a *)
(* variable someone can be told to correct.  In particular a worker needs  *)
(* no database in development, an API no Redis and no secret.              *)
RefusedForCause ==
  refused # "none" /\ ~faults => \E v \in Variable : Objectionable(v)
=============================================================================
