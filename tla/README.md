# A verification development for go-skeleton

TLA+ models of the service's own logic, TLC runs that check them on small
instances, and TLAPS proofs of the properties that matter most.  Source paths
are relative to `src/`.

## 1. The system

One binary (`cmd/go-skeleton`) with the subcommands `api`, `worker`, `all` and
`migrate`.  `api` is a gin HTTP server over PostgreSQL (pgx) and, optionally,
Redis; `worker` consumes asynq tasks from Redis; `all` is both in one process
after the migrations.

| component | state it keeps | operations | talks to |
|---|---|---|---|
| Task pipeline (`internal/task`, `taskqueue`, `worker`, `service/example.go`, `repository/example.go`) | a task's message in Redis (queue, retry count, lease), rows in `examples` with a unique `task_key` | EnqueueTask, HandleExampleTask, ProcessExample, CreateWithTaskKey, metrics middleware; asynq's dequeue, retry, archive, recover, requeue | HTTP handler → queue → worker → database |
| Process lifecycle (`internal/cli`, `server.go`, `worker.go`, `bootstrap/registry.go`) | goroutines of main, API and worker; `runCtx`; `errCh`, `workerErr`; the registry; READY | start, listen, ready, drain, shutdown, join, close, exit | signals, systemd, supervisor |
| HTTP request pipeline (`middleware`, `handler`, `pkg/response`, `pkg/errcode`, `pkg/metrics`) | per request: context, answer, metrics key; the in-flight gauge | the chain of `newEngine`, WriteSuccess / WriteError / AbortError | service, database, queue |
| Rate limiter (`middleware/rate_limit.go`) | map of address → token bucket and last use; cleanup goroutine | allow, cleanup, Stop | request pipeline, Shutdown |
| Health probe (`handler/health.go`, `taskqueue.Ping`) | draining flag; per call the checks and their deadline | Health, Live, SetDraining, Ping | database, Redis, load balancer |
| Registry and bootstrap (`internal/bootstrap`) | the opened clients, the cleanups of a start | InitAPI, InitWorker, probes, runCleanups, Registry.Close | everything |
| Repository and transactions (`repository`) | rows | Create, CreateWithTaskKey, List, InTx | PostgreSQL |
| Migrations (`internal/cli/migrate.go`) | schema version, session lock | up, down, status | PostgreSQL |
| JWT (`pkg/auth`) | none | GenerateToken, ParseToken | handlers |
| Configuration (`config`) | none after start | Load, validate | everything |
| Queue collector (`pkg/metrics/asynq.go`) | gauges per queue | collect every interval | Redis, Shutdown |
| Scaffolding (`scripts/new-endpoint.go`, `scripts/new-endpoint-check.go`) | none; the source tree, which many runs and hands write | generate the layers of a resource from the OpenAPI document and inject them into shared files; report where tree and document disagree | developer, oapi-codegen, compiler |

Also there, and without logic of its own that a model would say something
about: logging, validator, build information, cache wrapper, OpenAPI documents,
pprof, generated code, the other scripts for developers.  `PROJECT.json` gives the
status of each part.

### What is hard

- *A processor that does nothing.*  A worker without a database is legal outside
  production and runs the example task as a no-op: the task is acknowledged and
  counted as a success without a row.  In production it must not start.
- *At-least-once delivery.*  asynq delivers a task again after a crash, a lost
  lease or a shutdown, and the earlier handler may still be running; the effect
  must happen once all the same, no acknowledged task may be without it, and
  each attempt must be charged to the retry budget once.
- *Rolling upgrades.*  Messages of a newer schema reach older workers.
- *Three goroutines and one exit.*  Failure of the API, failure of the worker,
  a signal, a shutdown that runs out of time: any order, one exit code, nobody
  left waiting, nothing closed under work in progress.
- *Deadlines.*  The deadline of a request races the failure of the call it cuts,
  the write of the answer and the client's departure.
- *Forgetting.*  The limiter drops idle clients; this must not hand out tokens.
- *Half a start.*  The start opens five clients one after the other; any step
  may fail, and what is open must be closed.  Two guards that keep a production
  process from harm are far from each other.
- *Migrations by everybody.*  Replicas of two releases migrate at once, are
  killed in between, or find a schema that is newer than they are.
- *Clients without a context.*  asynq's Ping cannot be cancelled, and the cache's
  client looks at the context between its attempts only.
- *Two statements, one answer.*  A list counts rows and reads a page while
  others insert.
- *A generator without a transaction.*  A run makes some twenty writes to eleven
  files and may die at any of them; a second program with its own copy of the
  naming rules judges the result, after people have edited it.

What makes a component correct, in a line each:

- Task pipeline: an accepted task leaves exactly one row, or was run as a no-op
  outside production; every attempt is charged once, every task is settled in
  the end.
- Lifecycle: READY means ready, exit 0 means success, nothing is closed under
  work in progress, whatever fails the process ends.
- Request pipeline: one answer, counted as sent, that blames the right party
  and claims no effect that did not happen; a list is of one moment.
- Limiter: exactly the requests that fit the rate, with bounded memory.
- Health probe: a 503 has a reason, an answer comes in time, or at most one
  attempt of the cache's client later.
- Bootstrap and configuration: nothing leaks, production is guarded, whoever
  serves has what it needs, nobody is refused without a cause.
- Migrations: the table tells the truth about the schema; up means up.
- JWT: a token is good from the moment it is signed until it expires.
- Scaffolding: a clean report means that requests arrive, as far as the detector
  can read the code.

`PROJECT.json` lists the hazards one by one, at their lines, with the
properties that cover them.

## 2. Modules

| module | what it is |
|---|---|
| `ExampleEffect` | abstract: a request for an effect is accepted or not; an accepted one is applied at most once, and acknowledged only after it was applied or waived (run as a no-op) |
| `TaskPipeline` | the queue, workers, handlers, leases, retries; implements `ExampleEffect` |
| `TaskPipeline_proofs` | proofs about it |
| `RetryDelay` | the delay before a retry, on integers that wrap around |
| `ProcessLifecycle` | main, API goroutine, worker goroutine of the modes api, worker, all |
| `ProcessLifecycle_proofs` | proofs about it |
| `RequestPipeline` | requests through the middleware chain and back, with the list transaction |
| `Tokens` | what GenerateToken signs and ParseToken accepts at a moment |
| `RequestPipeline_proofs` | proofs about both |
| `TokenBucket` | abstract: one bucket per address that fills for ever |
| `RateLimiter` | the map, the lazy refill and the cleanup goroutine; implements `TokenBucket` |
| `RateLimiterHistory` | the same with the history of its answers, to compare them with the definition of a rate limit |
| `RateLimiter_proofs` | proofs about both |
| `HealthProbe` | calls of `/health` with their parallel checks |
| `HealthProbe_proofs` | proofs about it |
| `Bootstrap` | configuration, assembly, cleanup and close of one process |
| `Bootstrap_proofs` | proofs about it |
| `Migration` | several processes that migrate one database up and down |
| `Migration_proofs` | proofs about it |
| `ScaffoldNaming` | what generator and detector derive from the OpenAPI document |
| `Scaffold` | the developer, the runs of the generator, and what the compiler says of the tree |
| `ScaffoldCheck` | the drift detector and the routes of the server, judging what `Scaffold` leaves |
| `Scaffold_proofs` | proofs about the three |
| `MC…` | instances for TLC |

An operator `BugX` next to `X` is the form a plausible slip in the code would
have.  No specification uses it; it documents which property would notice (the
`mutants` of `PROJECT.json`).

### TaskPipeline

State of a task as asynq keeps it (`absent`, `pending`, `active`, `retry`,
`archived`, `done`), its payload, its count of retries and the holder of its
lease; the answer the API gave; for every worker whether it runs, stops or is
down; for every handler goroutine its task, the state of its database statement
and of its result; the rows per task; the labels counted by the metrics
middleware.

`EnqueueTask` / `RedisAccepts` / `EnqueueReturns` are the client's call, which
may fail after Redis executed it.  `HandleExampleTask` is the handler with the
header check and the insert (`Contains`, `InsertExample`, `ProcessResult`), or,
on a worker without a database, with `noopExampleProcessor`: ok, no row, the
task in the history `consumed`.  `HandlerReturns` is the metrics middleware
around it (`TaskStatus`).  What a worker is started with is its `deployed`, one
of the `Deployments` (production or not, database or not) that
`buildWorkerDeps` lets start (`MayStart`); a restart may bring another one.  A
handler goroutine survives the processor that gave it up, by timeout, lost lease
or shutdown: it is then an orphan and may commit at any time.  What asynq does
is external and modelled from the version in `go.mod` as the code relies on it.
Time is not in the model: a task in `retry` may become due at any moment.
`RetryDelay` has the arithmetic of the delay by itself, since the function is
pure: the doubling on integers of `Width` bits in two's complement, with the
code's two guards (`Threshold` is its 30) and the cap.

### ProcessLifecycle

One action per statement at which another goroutine can get in between: the
migration, assembly, the `select` of `serveAPI` (two actions when both channels
are ready), the drain delay, `Shutdown` and its timeout with `Close`,
`waitForServerExit`, the join of the worker, `Registry.Close`, exit; for the
API goroutine `Listen` on one or two ports, `onReady`, `Serve`; for the worker
the start, the observability port, ready, `Stop`, `Shutdown`, the send of its
result and the cancel.  Each may fail where the code handles a failure.

### RequestPipeline

A request passes `limit`, `route`, `bind`, `service`, `reply`, and on the way
back `return` (Timeout), `recovery` and `count` (metrics).  Its context ends by
the deadline or by the client's departure at any moment in between.  The
service call takes effect, answers, fails, hangs or is cut; the effect may come
after the call was given up.  Answers carry the status, the envelopes written
(so that a second one would be seen) and the metrics key.

A list is one repeatable read transaction of two statements.  `rows` is what the
table holds, `read` how far the list of a request has come, the number of rows
of its snapshot, its count and its page; `CountExamples` takes the snapshot,
`ListExamples` reads in it, and rows are inserted in between by the requests
that create one.  Whether a bearer token is accepted is a free choice here;
`Tokens` says which are, in milliseconds against the whole seconds of a
NumericDate.

### RateLimiter

Time in ticks, tokens in fractions (`Sub` per token).  `Allow` is `allow` with
rate.Limiter's lazy refill; `TakeTick` computes the cutoff, `Cleanup` takes the
lock later, so that requests come in between; `Stop`, `LoopEnds`, `StopReturns`
are the handshake of `Stop`.  `RateLimiterHistory` adds `grants`, for every address
and tick the requests granted since then; `Conforms` is the definition of a rate
limit in these terms.

### HealthProbe

Pings start, return, or are given up at the deadline; the queue's PING has no
context and goes on in the background.  The cache's client has no
ContextTimeoutEnabled (`pkg/cache/redis.go:46`): on a hung connection an attempt
ends by go-redis' read timeout, `AttemptLimit`, 3 s by default, and only then
the context is looked at and a further attempt made (`RetryPing`) or not.
`attempt` is the tick in which the current one began; `wg.Wait` waits for it.
Dependencies fail, hang and recover during the call, the client may go away, and
the instance may begin to drain.

### Bootstrap

An environment maps each variable to `unset`, `blank` (spaces only), `garbage`
or a meaning of its value, one of those the code tells apart (`Meanings`);
`Cfg`, `ParseFails` and `Valid` are `config.Load` and `validate`, whose
constraints hold between variables.  `Steps` is the order in which a mode is put
together, one action per step; an action advances, refuses (the step returned an
error: `RunCleanup` closes, last opened first, what the branch had registered)
or is fatal (`NewServer`, `NewWorker`: the process leaves with everything open).
The Registry takes over from the cleanups at the end of InitAPI and InitWorker;
`Close` closes its clients one by one.  A component that fails while the process
serves ends it on the spot (`RunFails`); `ProcessLifecycle` has what goes on
among the goroutines there.  The steps of a mode are spelled out in `ApiSteps`,
`WorkerSteps` and `AllSteps`.  The variables that are parsed but that nothing in
the start looks at (`STARTUP_PROBE_TIMEOUT`, `BODY_MAX_BYTES`, `WORKER_RETRY_*`
and the like: a value that does not parse refuses the start; what a library
makes of one out of range, such as a negative pool size, is not modelled) are
the one variable `OTHERS`; the texts that are taken as they come are left out.
Shutdown waits for the limiter's goroutine but only cancels the collector's,
which ends when its round is over (`CollectorEnds`).

### Migration

`Open` is the pool and the ping, `Peek` goose's look at the version table
without the lock, `TryLock` one attempt at the advisory lock, `Decide` what up
or down finds to do under it, `RunFile` the transaction of one file with its
row, `FileFails` the same rolled back, `Unlock` the end of the operation,
`Kill` the end of a session.  goose and PostgreSQL are external and modelled as
`migrate` configures them: files in order, none out of order, one transaction
each, the lock of the session.

### ScaffoldNaming, Scaffold, ScaffoldCheck

An operation of the document is what the two scripts read of it: x-resource,
x-handler-method, the resource names its id contains and what is left of the id
without them, verb, path, security, parameters and schema.  A path is a sequence
of pieces with different first bytes, so that the byte-wise common prefix of the
code is the common prefix of the pieces.  `DeriveMethod` and `CheckMethod` are
the generator's and the detector's copies of the same rule; they differ as the
code's do.

`NewEndpoint` is a run up to its refusals, `WriteFile` one layer file (in any
order: the code ranges over a map), `InsertLine`, `AppendRouterFunc` and
`InsertForward` the injections in the order of `Patches`, each one write; the
fixture of the router's test is left out when its file or marker is missing.
`Die` ends a run between any two.  A registered call has its `way`: whether it
is behind the authentication, and what the detector can read of that and of its
path.  A generated call shows both; an edit by hand may hide them (`HandWays`: a
constant, a helper that returns the group, a `Use` on it).  `EditYaml`,
`MakeOapi`, `RemoveFiles`, `Wire` and the edits by hand are the developer.
`Builds` is what the Go compiler says of the tree (unused variables, names
declared twice or not at all, arguments that do not match, `APIServer`
implementing `oapi.ServerInterface`): it is external, and modelled for the code
that the generator writes.  `Clean` has the six checks of the detector, which
collects the calls of five verbs (`Collected`) and compares the path only where
it can read it, `Served` what gin makes of the registered routes.

## 3. Runs

| run | instance | shows |
|---|---|---|
| `pipeline_safety` | 1 task, 2 workers with 1 slot, in production or without a database, MaxRetry 1, 2 disruptions, foreign payloads | safety of delivery, the refinement of `ExampleEffect`, every acknowledged task is settled |
| `pipeline_failure_label` | MaxRetry 1, 1 disruption | finding: the label `failure` is not final |
| `lifecycle` | all modes and ports, 2 requests, 1 task | order of READY, exit codes, nothing closed under work, termination |
| `lifecycle_exit_code` | mode all | finding: a failure next to a signal exits 0 |
| `lifecycle_ready` | mode api | finding: READY=1 after Shutdown |
| `limiter` | 1 address, burst 2, 9 ticks, no lag | a request passes exactly when every window has room, the map is bounded, eviction is invisible, Stop returns |
| `health` | 1 call, deadline 2, attempts of 3, 2 changes of dependencies | what a 503 means, isolation of the checks, the deadline and what may exceed it, no leaked goroutine |
| `requests` | 1 request of any kind and 1 list request, 3 configurations | gauge, one answer, labels, blame, honesty, a list of one moment, termination |
| `bootstrap` | 3 modes, every environment at most two variables away from a working one | no leak of a failed start or a failing close, production guards, what a serving process has, no refusal without a cause |
| `migration` | 4 processes (up and down of a release with 3 files and of one with 2), 2 tries | one at a time, table and schema agree, no gaps, up means migrated |
| `scaffold` | 2 resources whose names contain one another, 5 documents, 2 edits, 2 runs, 1 edit by hand | a tree that builds is complete, where generator and detector agree, what a clean report vouches for |
| `scaffold_served` | the same | finding: a finished run whose resource is not served |

Each module with variables but the scaffold's has a type invariant `TypeOK`.
Those of `TaskPipeline`, `RateLimiter`, `RequestPipeline`, `ProcessLifecycle`,
`HealthProbe` and `Migration` are proved, so the runs spend nothing on them;
that of `Bootstrap` documents the variables.

Two more questions are asked of pure functions, as assumptions that TLC
evaluates: `RetryDelayAssumption` (run `pipeline_safety`, 16 bits, threshold 7,
bases around the one whose last doubling wraps) and `TokensAssumption` (run
`requests`, every millisecond of a token's life).

### Bounds

- `MaxRetry` and `MaxDisruptions` (crashes, lost leases, lost Redis answers,
  shutdowns) bound `TaskPipeline`.  Two workers are what a second delivery
  needs; one retry lets a message fail, be requeued, run a last time and be
  archived; the two disruptions can fall on the same attempt or on two of them.
  Of the four deployments one must not start, and outside production a worker
  with a database does what a production worker does.  The theorems
  have no such bound.
- `MaxTime` bounds the clock of the limiter: 9 ticks hold a full life of an
  entry (eviction after 3 ticks and one period) and its return.  One
  address, because addresses meet in the lock only; the theorems hold for any
  number, any burst and resolution, and with a lag.
- `Deadline`, `AttemptLimit`, `Horizon` and `MaxChanges` bound the health probe: a
  tick is a second of the code's 2 s and 3 s, a ping may end before, at and after
  the deadline, a dependency may fail and recover, and a call can be followed
  past the longest it takes.
- `MaxEdits`, `MaxRuns` and `MaxHand` bound the scaffold: two documents one
  after the other, a run that dies and the one that repeats it, or two
  resources, and a correction by hand, written in one of three ways.
- Requests and tasks of `ProcessLifecycle` happen once each; two requests
  suffice for one to be drained and one to be cut.
- The requests of `RequestPipeline` meet in the gauge and in the rows only, so
  that one of every kind (`MCSends`) next to a list request, which can hang,
  fail, panic and be cut like any other, is enough.
- `Bootstrap` looks at pairs of changes: no condition of the code relates more
  than two variables to the environment's name, and both names are a start.
- `MaxTries` is 2 for the code's 60; the theorems about `Migration` hold for
  any number, any processes and any releases.

Deadlock checking is on in `bootstrap`, whose last state stutters explicitly,
and off in the other runs: programs stop, tasks are settled, clocks reach their
bound.

### Fairness

- `TaskPipeline`: asynq's loops (dequeue, forward, recover), the return of a
  handler and the restart of a worker by its supervisor.  None for commits,
  crashes and errors.
- `ProcessLifecycle`: the scheduler runs goroutines that can run, and timers
  fire.  None for signals, requests and tasks: requests may hang, and the
  shutdown timeout is what ends them.
- `RateLimiter`: the goroutines are scheduled.  None for time or requests.
- `HealthProbe`: time passes, a ping that can answer does, go-redis ends a PING
  by its own read timeout.
- `RequestPipeline`: the goroutine of a request runs, deadlines come, and a
  call whose context has ended returns (pgx watches the context; go-redis
  without ContextTimeoutEnabled has a read timeout of its own).  None for a
  database or Redis that would answer.

## 4. Proofs

### TaskPipeline_proofs

For any sets of tasks, workers and slots, any retry budget and any foreign
payloads: `TypeCorrect`, `AtMostOnce`, `NoLostEffect`, `SuccessIsTrue`,
`UnreadableIsKept`, `BudgetIsExact` and `Refinement` (every step of the
pipeline is a step of `ExampleEffect` or a stutter), for any deployments.
`NoLostEffect` and `SuccessIsTrue` have the one exception the code has: a task in
`consumed`, which only a worker outside production puts there.

The properties are not inductive alone; `IInv` adds what they rest on:

- `EnqueuedFirst`, `HandlersHaveTasks`: a row or a handler exists only for a
  task that was enqueued, so that its payload is never replaced once it matters;
- `LeaseIsActive`: only an active task has a lease, so that a result is charged
  to the attempt it belongs to and to no later one (`BudgetIsExact`);
- `RowIsReadable`: a row stands on a payload that passed the header check
  (`UnreadableIsKept`);
- `ResultIsTrue`: a handler about to return ok, an orphan included, stands on a
  row, or its task was consumed (`NoLostEffect`, `SuccessIsTrue`);
- `WaitingIsLive`: a processor waits only for a handler that exists.

`HandleEffect` says once what a run of the handler may do to the rows; the step
lemmas `TypeStep`, `StatusStep`, … have one step per action.

`CalmInv`, next to `IInv`, follows a task while nothing is disrupted: what the
middleware has read as the retry count is what the message says, and an archived
task left a label at its last attempt.  `ArchivedCorrect` follows.

### ProcessLifecycle_proofs

For any configurations, requests and tasks: `TypeCorrect`, `ReadyCorrect`,
`ExitCorrect`, `RegistryCorrect`, `TasksCorrect`.  `Phases` relates where main
is to what it has started and holds; `ApiInv` says that without a Shutdown the
API's result is an error, `WorkInv` that a worker which has sent its result has
no task in its hands, and `EndInv` that nobody reaches the deferred functions
without a reason and before everybody is done.  `ReadyInv` counts what each of
the two callbacks can have contributed, which is why READY=1 cannot come from
one component twice.

### RateLimiter_proofs

`TypeCorrect` and `Refinement`, for any burst, resolution, lag and set of
addresses.  The refinement maps an address without an entry to a full bucket;
the step that evicts an entry is a stutter only because the bucket has filled
up by then.  That is what the invariant is for: `SeenInv` (an entry was seen no
earlier than its last grant), `CutoffInv` (a cutoff in use is at least three
minutes old) and `Sizes` (an empty bucket fills up within those three minutes).
`MapCorrect` (`MapIsBounded`) assumes `Late < SweepEvery`: a ticker drops ticks
for a goroutine that is a whole period late, and the bound with them.

`AnswersCorrect` (`AnswersAreExact`) is the limiter against the definition of a
rate limit.  `WindowInv` relates the bucket to the history: what was granted in
any window that ends now and what is left in the bucket fit into the burst and
the refill of the window, and one window they fill.  The first half makes a
granted request conform, the second a rejected one not; a cleanup changes
neither, since the level of the everlasting bucket stands in both.

### HealthProbe_proofs

For any number of calls and changes: `TypeCorrect` and, by `PromptInv` (a
goroutine that can go on does so before time passes), `TimeCorrect`: past the
deadline a call waits for nothing but an attempt of the cache's client that
began before it.  `CalmInv`
follows one dependency that is up through one call: its ping starts at once and
is answered in the next tick.  `ReportCorrect` and `VerdictCorrect` therefore
assume that `Deadline` and `AttemptLimit` are at least 2; with limits as short as
the time a healthy dependency takes, the claims are false.

### RequestPipeline_proofs

For any number of requests at once, any kinds and configurations:
`TypeCorrect`, `GaugeCorrect` (the gauge is the cardinality of the requests
between entry and return, so that a panic must pass the decrement),
`OneAnswerCorrect`, `CountCorrect`, `BlameCorrect`, `HonestyCorrect` and
`ListCorrect`.  The invariant says stage by stage what may be written
(`EarlyIsSilent`, `SilentIsBare`), why the service returned what it returned
(`ResultIsCaused`), how an answer, its cause and the end of the context go
together (`AnswerIsCaused`), and what an answer claims (`AnswerIsTrue`).

The same module proves of `Tokens`, for any manager, subject and moments:
`IssuedIsAccepted` (from the moment of signing for the lifetime less a second,
whatever NumericDate rounds off), `ExpiredIsRefused` and
`ForeignIssuerIsRefused`.

### Bootstrap_proofs

For any set of environments: `LeaksCorrect`, `BackedCorrect`, `GuardedCorrect`
and `CauseCorrect`.  The invariant is positional: `OpenInv` and `BuiltInv` say
what holds before and after each step of the start in every mode (what is open
is registered for cleanup until the Registry takes over, what is behind was
probed, `Valid` held at the load), `EndInv` follows a process that gives up or
closes.  `CauseCorrect` goes through the places where a start is refused
(`CauseStep`): the parse errors, every clause of `Valid`, and the clients that
cannot be made; each leads back to a variable (`ValueCause`, `SecretCause`,
`ClientCause`).  A probe refuses only a client that was opened and did not answer.

The only assumption is that an environment gives every variable a value of
`Meanings`, a blank one or garbage.  TLC's run has every environment at most two
variables away from a working one; the theorems have all of them.

### Migration_proofs

`TypeCorrect`, `LockCorrect`, `TableCorrect`, `NoGapsCorrect` and
`MigratedCorrect`, for any processes, commands, releases and tries.  `IInv` adds
`Contiguous` (the version table is 1 to n: then the last row is n and the next
file n + 1), `KnowsTable` (what the holder of the lock has decided is still what
the table calls for, because nobody else is at work) and `TriesLeft`.

### Scaffold_proofs

For any names, documents, operations and numbers of edits and runs:
`BuiltIsComplete` (`BuildMeansComplete`), `FirstRunIsClean` (`GeneratedIsClean`)
and `CleanIsServed` (`CleanMeansServed`).

None of the three is inductive.  `ScaffoldInvariant` is the invariant they share:

- `Progress` says how far the run under way has come: which layer files are
  written and with which methods, which of the patches are injected, what the
  register function calls, and for which operations a forwarder is still to
  come.  `Running` has it of the run under way, `Finished` of the one that has
  just ended.
- `LineOrder` is what a run that died leaves: the call of the register function
  comes after the field it needs, and the function after the call.
- `ForwardsLast`: a forwarder, of whichever run, has every line and the route it
  needs.  This is why a tree that builds is complete.  The compiler asks for a
  forwarder per operation, and the forwarders are the last write of a run.

`FirstRunIsClean` is an equivalence, since generator and detector do differ: a
first run is clean exactly when the fixture went in and every verb is one the
detector collects.  It compares the two copies of the naming rules (`SameMethod`:
where the generator finds a method, the detector finds the same) and the order
of the routes in the file with the first match the detector stops at; the latter
is why the methods of a resource must differ.

`CleanIsServed` says of every operation what its call vouches for (`Vouched`): a
path that cannot be read is not promised.  It rests on `RouteIsPath`: when the
common prefix of a resource ends where a segment ends and holds no parameter,
the route below the group, joined as gin joins, is the path of the document.
Its lemmas take the path apart (`LongestExists`, `PrefixLeads`, `PathParts`).
That the server starts follows from uniqueness in the document: two calls with
one verb and path would be calls of one operation (`StartsStep`).

Two conditions in `CleanMeansServed` name what the detector does not see:
`WholeSegments` (a prefix that ends inside a segment gives a wrong route, in both
programs) and `NothingLeftOver` (calls that no operation of the document
accounts for can make gin panic).  So the two hazards of `PROJECT.json` about
them have no property; the program does not meet the one they would need.

Assumed of a document: paths begin with a slash and have a first segment, a
parameter is one piece (`NamingAssumption`); operations are finitely many, and in
one document ids, and paths with their verbs, are unique (`ScaffoldAssumption`),
which oapi-codegen and the YAML map demand.

Assumed everywhere are the named assumptions on the constants, which TLC
evaluates in the runs.

### Model-checked only

Every invariant and every action property of the passing runs is stated by a
theorem.  What TLC alone checks:

- liveness (`QueuedIsSettled`, `StopsWhenTold`, `FailureEndsProcess`,
  `StopIsAnswered`, `NoPingLeaks`, `RequestEnds`), which needs fairness and
  ENABLED and is out of the prover's reach;
- the arithmetic of `RetryDelay`: the provers know nothing of powers with a
  variable exponent (not even that 2^n is a number), and what a power is for
  every n would be an induction over data.  TLC evaluates `DelayIsRight` for
  every retry around the threshold.

## 5. Findings

1. `internal/worker/metrics.go:49`: the label `failure` promises that the task
   will not be executed again; a worker that shuts down gives the last attempt
   back, and it is.
2. `internal/cli/api.go:132`: when the API fails and a signal has come as well,
   the error is logged and the process exits with 0.
3. `internal/server.go:177`: a signal during the start lets `Shutdown` overtake
   `Listen`; READY=1 is then sent for a server that never serves.
4. `scripts/new-endpoint.go:1571`: a finished run says that the resource is
   generated, assembled and injected, but nothing puts its handler into
   `newEngine`; the resource is 404, and the injected fixture keeps the test of
   the routes green.

Observations from the modelling that no run of its own shows:

- `internal/handler/example.go:34`: `ShouldBindJSON` knows no context.  A body
  that stalls past the deadline is ended by the server's ReadTimeout and
  answered 400 INVALID_PARAMS, where `middleware/timeout.go:14` promises
  REQUEST_TIMEOUT.  The model has it (cause `readTimeout`).
- `internal/handler/health.go:105` says that the worst latency of the concurrent
  checks is that of one timeout, 2 s; with a hung Redis the cache's client keeps
  the answer until its read timeout of 3 s ends, and if that attempt began just
  before the deadline until almost 5 s.  `AnswersInTime` has the bound that holds.
- `internal/worker.go:183`: in mode all a blank `REDIS_ADDR` passes `NewWorker`,
  which compares without trimming, although `internal/cli/all.go:48` expects an
  error.
- `pkg/metrics/asynq.go:59` says that cancelling leaves no goroutine after
  Shutdown; Shutdown does not wait, and the inspector may be closed under the
  collector's round, which then deletes the series of its queues.
- `config/validate.go`: a `JWT_TTL` below a second is valid; since `exp` is cut to
  whole seconds, a token signed earlier in its second than the lifetime reaches
  past is refused at once.  `IssuedIsAccepted` says nothing of such lifetimes.
- `internal/worker/server.go:74`: from a base of about 17 s the product wraps
  before the guard at 30; the delay stays between 1 and max.  With a tiny base
  the guard makes the delay jump to max.
- A cleanup goroutine that lags a whole minute loses ticks, and idle addresses
  live longer.
- Scaffolding: the common prefix is byte-wise, so that /orders and /order-items
  get the group /order and the route /order/s (`new-endpoint.go:773`), and the
  detector's copy agrees; the generator writes HEAD and OPTIONS routes
  (`new-endpoint.go:286`), which the detector does not collect
  (`new-endpoint-check.go:613`) and reports as missing; it does not compare a
  path that it cannot read (`new-endpoint-check.go:424`), so that the tree of
  its own test (`new_endpoint_check_test.go:125`) is clean with a route on an
  unknown group; a resource that the document lost stays registered unseen, and
  gin panics when another takes over its path; nor does the detector see a
  handler method or a forwarder that is left over, or a known handler under
  another verb, although `docs/development.md:83` has the detector find routes
  and handler methods of removed operations; x-resource is matched in any case
  by the generator and exactly by the detector; a schema beyond the generator
  gives a request struct that handler and service do not agree on; Get, Update
  and Delete without a path parameter do not parse; an operation with path and
  query parameters gets a forwarder with one of them.

## 6. Not modelled

- The rounds of the queue collector: one answer of Redis per queue, set or
  deleted, read by no later step.
- Variables of the configuration that are taken as they come (ports, addresses,
  titles), .env files, and the warnings about a production configuration.
- Nested transactions, which reuse the outer one: no caller has one.
- `migrate status`, which only reads.
- HTTP headers, trace ids, audit logs, messages, formatting.
- The watchdog of systemd, the database pool, the cache wrapper: one library
  call each.
- A file torn in the middle of one write by the generator: `WriteFile` of Go is
  not atomic, and a torn file does not compile.
- `drop-example`, `mod-upgrade` and the other scripts: one pass over the source
  text each, run by hand once or in the build, with nobody next to them.
- Generated code.
