-------------------------- MODULE ProcessLifecycle --------------------------
(***************************************************************************)
(* One process of the binary, from its start to its exit code, in the      *)
(* three modes that serve: api, worker and all (both in one process).      *)
(* Three goroutines matter: main (runAPI, runWorker, runAll and serveAPI), *)
(* the one that runs Server.Run and the one that runs Worker.Run.  They    *)
(* are tied together by a signal context, a cancel function and two        *)
(* channels; requests and tasks are in flight while they stop.             *)
(***************************************************************************)
EXTENDS Naturals, FiniteSets

CONSTANTS
  Configs,   \* configurations of the process
  Requests,  \* HTTP requests
  Tasks      \* tasks dequeued by the worker

Config == [mode : {"api", "worker", "all"},
           metricsPort : BOOLEAN,   \* METRICS_ADDR is set
           obsPort : BOOLEAN]       \* WORKER_METRICS_ADDR is set

ASSUME ConfigsAssumption == Configs \subseteq Config

VARIABLES
  conf,        \* the configuration, never changed
  main,        \* where the main goroutine is
  exit,        \* how the process ended
  sig,         \* the signal context is done
  cancelled,   \* runAll's cancel() was called
  api,         \* where the goroutine of Server.Run is
  errCh,       \* the channel Server.Run's result goes to
  apiErr,      \* serveAPI returned an error
  inShutdown,  \* http.Server.Shutdown or Close was called
  forced,      \* Shutdown timed out, connections were cut
  work,        \* where the goroutine of Worker.Run is
  failed,      \* components whose Run returned an error
  requests, tasks,
  readyCalls,  \* calls of the onReady callbacks
  readySent,   \* READY=1 notifications
  opened,      \* history: what was migrated, bound or started successfully
  registry     \* the connections of the Registry

mainVars == <<conf, exit, apiErr, registry>>
ctxVars  == <<sig, cancelled>>
apiVars  == <<api, errCh, inShutdown, forced, requests>>
workVars == <<work, tasks>>
readyVars == <<readyCalls, readySent>>
vars == <<main, mainVars, ctxVars, apiVars, workVars, readyVars, opened, failed>>

Init ==
  /\ conf \in Configs
  /\ main = IF conf.mode = "all" THEN "migrate" ELSE "assemble"
  /\ exit = "none"
  /\ sig = FALSE /\ cancelled = FALSE
  /\ api = "off" /\ errCh = "empty" /\ apiErr = FALSE
  /\ inShutdown = FALSE /\ forced = FALSE
  /\ work = "off"
  /\ failed = {}
  /\ requests = [r \in Requests |-> "none"]
  /\ tasks = [t \in Tasks |-> "none"]
  /\ readyCalls = 0 /\ readySent = 0
  /\ opened = {}
  /\ registry = "none"

-----------------------------------------------------------------------------
(* Decisions the actions are made of, each after a plausible mistake in it *)
(* (Bug...), which nothing uses: it is swapped in to see that the          *)
(* properties notice.                                                      *)

Running == exit = "none"
HasApi == conf.mode \in {"api", "all"}
HasWorker == conf.mode \in {"worker", "all"}

(* asynq is started and not stopped: it dequeues.                          *)
Consuming == work \in {"listen", "ready", "wait"}

BugStopRequested == cancelled

(* The context serveAPI and Worker.Run wait for is done.                   *)
StopRequested == sig \/ cancelled

BugReadyThreshold == 1

(* How many onReady calls it takes to send READY=1.                        *)
ReadyThreshold == IF conf.mode = "all" THEN 2 ELSE 1

BugOnReady ==
  /\ readyCalls' = readyCalls + 1
  /\ readySent' = readySent + 1

(* The callback that sdnotify.Ready is wrapped in.                         *)
OnReady ==
  /\ readyCalls' = readyCalls + 1
  /\ readySent' = IF readyCalls' = ReadyThreshold THEN readySent + 1 ELSE readySent

BugRequestsIdle == TRUE

(* http.Server.Shutdown returns nil: no connection has a request.          *)
RequestsIdle == \A r \in Requests : requests[r] # "active"

BugWorkerSent == apiErr \/ work \in {"cancel", "returned"}

(* Worker.Run has returned; in mode all, its result is in workerErr.       *)
WorkerSent == work \in {"cancel", "returned"}

BugRuntimeError == apiErr

(* errors.Join(apiErr, <-workerErr).                                       *)
RuntimeError == apiErr \/ "worker" \in failed

(* log.Fatal: os.Exit(1), no deferred function runs.                       *)
Fatal == main' = "exited" /\ exit' = "failure"

-----------------------------------------------------------------------------
(* The main goroutine.                                                     *)

(* runAll migrates first.                                                  *)
Migrate ==
  /\ Running /\ main = "migrate"
  /\ \/ /\ main' = "assemble"
        /\ opened' = opened \union {"schema"}
        /\ UNCHANGED exit
     \/ Fatal /\ UNCHANGED opened
  /\ UNCHANGED <<conf, apiErr, registry, ctxVars, apiVars, workVars, readyVars, failed>>

(* The Registry, the server and the worker are built, the signal context   *)
(* is installed and the goroutines are started.                            *)
Assemble ==
  /\ Running /\ main = "assemble"
  /\ \/ /\ registry' = "open"
        /\ api' = IF HasApi THEN "listen" ELSE "off"
        /\ work' = IF HasWorker THEN "start" ELSE "off"
        /\ main' = IF HasApi THEN "select" ELSE "join"
        /\ UNCHANGED exit
     \/ /\ registry' \in {"none", "open"}
        /\ Fatal
        /\ UNCHANGED <<api, work>>
  /\ UNCHANGED <<conf, apiErr, ctxVars, errCh, inShutdown, forced, requests, tasks,
                 readyVars, opened, failed>>

(* serveAPI returned: runAPI ends, runAll cancels the worker and joins it. *)
ServeAPIReturns(err) ==
  /\ apiErr' = err
  /\ CASE conf.mode = "all" ->
            /\ cancelled' = TRUE /\ main' = "join"
            /\ UNCHANGED exit
       [] conf.mode = "api" /\ err -> Fatal /\ UNCHANGED cancelled
       [] OTHER -> main' = "close" /\ UNCHANGED <<exit, cancelled>>

(* The select of serveAPI takes the result of Server.Run ...               *)
SelectErr ==
  /\ Running /\ main = "select" /\ errCh = "full"
  /\ errCh' = "taken"
  /\ ServeAPIReturns("api" \in failed)
  /\ UNCHANGED <<conf, registry, sig, api, inShutdown, forced, requests, workVars,
                 readyVars, opened, failed>>

(* ... or sees the context done, also when both are there, and drains.     *)
SelectDone ==
  /\ Running /\ main = "select" /\ StopRequested
  /\ main' = "drain"
  /\ UNCHANGED <<mainVars, ctxVars, apiVars, workVars, readyVars, opened, failed>>

(* The drain window is over, http.Server.Shutdown closes the listener.     *)
DrainEnds ==
  /\ Running /\ main = "drain"
  /\ main' = "shutdown"
  /\ inShutdown' = TRUE
  /\ UNCHANGED <<mainVars, ctxVars, api, errCh, forced, requests, workVars,
                 readyVars, opened, failed>>

ShutdownReturns ==
  /\ Running /\ main = "shutdown"
  /\ RequestsIdle
  /\ main' = "waitExit"
  /\ UNCHANGED <<mainVars, ctxVars, apiVars, workVars, readyVars, opened, failed>>

(* The 10 s are over; Close cuts what is still in flight.  The handlers    *)
(* themselves are not stopped.                                             *)
ShutdownTimesOut ==
  /\ Running /\ main = "shutdown"
  /\ ~RequestsIdle
  /\ forced' = TRUE
  /\ requests' = [r \in Requests |-> IF requests[r] = "active" THEN "cut" ELSE requests[r]]
  /\ main' = "waitExit"
  /\ UNCHANGED <<mainVars, ctxVars, api, errCh, inShutdown, workVars,
                 readyVars, opened, failed>>

(* waitForServerExit takes the result or gives up after 2 s; serveAPI logs *)
(* either and returns nil.                                                 *)
WaitForServerExit ==
  /\ Running /\ main = "waitExit"
  /\ \/ errCh = "full" /\ errCh' = "taken"
     \/ UNCHANGED errCh
  /\ ServeAPIReturns(FALSE)
  /\ UNCHANGED <<conf, registry, sig, api, inShutdown, forced, requests, workVars,
                 readyVars, opened, failed>>

(* runAll receives from workerErr; in mode worker Worker.Run returns.      *)
JoinWorker ==
  /\ Running /\ main = "join"
  /\ WorkerSent
  /\ IF RuntimeError THEN Fatal ELSE main' = "close" /\ UNCHANGED exit
  /\ UNCHANGED <<conf, apiErr, registry, ctxVars, apiVars, workVars, readyVars,
                 opened, failed>>

(* The deferred functions: the signal handler goes first (a signal now     *)
(* kills the process, see Signal), then Registry.Close; the process ends.  *)
CloseRegistry ==
  /\ Running /\ main = "close"
  /\ IF registry = "open"
       THEN registry' = "closed" /\ UNCHANGED <<main, exit>>
       ELSE main' = "exited" /\ exit' = "ok" /\ UNCHANGED registry
  /\ UNCHANGED <<conf, apiErr, ctxVars, apiVars, workVars, readyVars, opened, failed>>

(* SIGTERM or SIGINT.  Where signal.NotifyContext is not in force the      *)
(* default action ends the process.                                        *)
Signal ==
  /\ Running /\ ~sig
  /\ IF main \in {"migrate", "assemble", "close"}
       THEN main' = "exited" /\ exit' = "killed" /\ UNCHANGED sig
       ELSE sig' = TRUE /\ UNCHANGED <<main, exit>>
  /\ UNCHANGED <<conf, apiErr, registry, cancelled, apiVars, workVars, readyVars,
                 opened, failed>>

-----------------------------------------------------------------------------
(* The goroutine of Server.Run.                                            *)

ApiReturns(err) ==
  /\ api' = "done"
  /\ errCh' = "full"
  /\ failed' = IF err THEN failed \union {"api"} ELSE failed

ApiListen ==
  /\ Running /\ api = "listen"
  /\ \/ /\ api' = IF conf.metricsPort THEN "listenMetrics" ELSE "ready"
        /\ opened' = opened \union {"http"}
        /\ UNCHANGED <<errCh, failed>>
     \/ ApiReturns(TRUE) /\ UNCHANGED opened
  /\ UNCHANGED <<main, mainVars, ctxVars, inShutdown, forced, requests, workVars, readyVars>>

ApiListenMetrics ==
  /\ Running /\ api = "listenMetrics"
  /\ \/ /\ api' = "ready"
        /\ opened' = opened \union {"metrics"}
        /\ UNCHANGED <<errCh, failed>>
     \/ ApiReturns(TRUE) /\ UNCHANGED opened
  /\ UNCHANGED <<main, mainVars, ctxVars, inShutdown, forced, requests, workVars, readyVars>>

ApiReady ==
  /\ Running /\ api = "ready"
  /\ OnReady
  /\ api' = "serve"
  /\ UNCHANGED <<main, mainVars, ctxVars, errCh, inShutdown, forced, requests, workVars,
                 opened, failed>>

(* http.Server.Serve returns ErrServerClosed once Shutdown was called,     *)
(* even when it was called before Serve, and any other error before.       *)
ApiServeReturns ==
  /\ Running /\ api = "serve"
  /\ ApiReturns(~inShutdown)
  /\ UNCHANGED <<main, mainVars, ctxVars, inShutdown, forced, requests, workVars,
                 readyVars, opened>>

RequestStarts(r) ==
  /\ Running /\ api = "serve" /\ ~inShutdown
  /\ requests[r] = "none"
  /\ requests' = [requests EXCEPT ![r] = "active"]
  /\ UNCHANGED <<main, mainVars, ctxVars, api, errCh, inShutdown, forced, workVars,
                 readyVars, opened, failed>>

RequestEnds(r) ==
  /\ Running /\ requests[r] = "active"
  /\ requests' = [requests EXCEPT ![r] = "done"]
  /\ UNCHANGED <<main, mainVars, ctxVars, api, errCh, inShutdown, forced, workVars,
                 readyVars, opened, failed>>

-----------------------------------------------------------------------------
(* The goroutine of Worker.Run.                                            *)

(* asynq's Start; it fails when Redis cannot be reached.                   *)
WorkerStart ==
  /\ Running /\ work = "start"
  /\ \/ /\ work' = "listen"
        /\ opened' = opened \union {"tasks"}
        /\ UNCHANGED failed
     \/ /\ work' = "send"
        /\ failed' = failed \union {"worker"}
        /\ UNCHANGED opened
  /\ UNCHANGED <<main, mainVars, ctxVars, apiVars, tasks, readyVars>>

(* The observability port: when it cannot be bound asynq is stopped again. *)
WorkerListen ==
  /\ Running /\ work = "listen"
  /\ \/ /\ work' = "ready"
        /\ opened' = IF conf.obsPort THEN opened \union {"obs"} ELSE opened
        /\ UNCHANGED failed
     \/ /\ conf.obsPort
        /\ work' = "shutdown"
        /\ failed' = failed \union {"worker"}
        /\ UNCHANGED opened
  /\ UNCHANGED <<main, mainVars, ctxVars, apiVars, tasks, readyVars>>

WorkerReady ==
  /\ Running /\ work = "ready"
  /\ OnReady
  /\ work' = "wait"
  /\ UNCHANGED <<main, mainVars, ctxVars, apiVars, tasks, opened, failed>>

(* asynq's Stop: nothing is dequeued any more.                             *)
WorkerStop ==
  /\ Running /\ work = "wait"
  /\ StopRequested
  /\ work' = "shutdown"
  /\ UNCHANGED <<main, mainVars, ctxVars, apiVars, tasks, readyVars, opened, failed>>

(* asynq's Shutdown waits for the tasks in flight, or gives them back to   *)
(* the queue when its timeout is over.                                     *)
WorkerShutdown ==
  /\ Running /\ work = "shutdown"
  /\ tasks' = [t \in Tasks |-> IF tasks[t] = "active" THEN "requeued" ELSE tasks[t]]
  /\ work' = "send"
  /\ UNCHANGED <<main, mainVars, ctxVars, apiVars, readyVars, opened, failed>>

WorkerSends ==
  /\ Running /\ work = "send"
  /\ work' = IF conf.mode = "all" THEN "cancel" ELSE "returned"
  /\ UNCHANGED <<main, mainVars, ctxVars, apiVars, tasks, readyVars, opened, failed>>

BugWorkerCancels ==
  /\ Running /\ work = "cancel"
  /\ work' = "returned"
  /\ UNCHANGED <<main, mainVars, ctxVars, apiVars, tasks, readyVars, opened, failed>>

(* runAll's goroutine cancels the context of the API.                      *)
WorkerCancels ==
  /\ Running /\ work = "cancel"
  /\ work' = "returned"
  /\ cancelled' = TRUE
  /\ UNCHANGED <<main, mainVars, sig, apiVars, tasks, readyVars, opened, failed>>

TaskStarts(t) ==
  /\ Running /\ Consuming
  /\ tasks[t] = "none"
  /\ tasks' = [tasks EXCEPT ![t] = "active"]
  /\ UNCHANGED <<main, mainVars, ctxVars, apiVars, work, readyVars, opened, failed>>

TaskEnds(t) ==
  /\ Running /\ tasks[t] = "active"
  /\ tasks' = [tasks EXCEPT ![t] = "done"]
  /\ UNCHANGED <<main, mainVars, ctxVars, apiVars, work, readyVars, opened, failed>>

-----------------------------------------------------------------------------
MainNext ==
  \/ Migrate \/ Assemble \/ SelectErr \/ SelectDone \/ DrainEnds
  \/ ShutdownReturns \/ ShutdownTimesOut \/ WaitForServerExit
  \/ JoinWorker \/ CloseRegistry

ApiNext == ApiListen \/ ApiListenMetrics \/ ApiReady \/ ApiServeReturns

WorkerNext ==
  \/ WorkerStart \/ WorkerListen \/ WorkerReady \/ WorkerStop
  \/ WorkerShutdown \/ WorkerSends \/ WorkerCancels

Next ==
  \/ Signal \/ MainNext \/ ApiNext \/ WorkerNext
  \/ \E r \in Requests : RequestStarts(r) \/ RequestEnds(r)
  \/ \E t \in Tasks : TaskStarts(t) \/ TaskEnds(t)

Spec == Init /\ [][Next]_vars

(* The Go scheduler runs a goroutine that can run, timers fire, and a call *)
(* that binds a port or reaches Redis returns.  Nothing is assumed of      *)
(* signals, requests and tasks, nor of Serve: main does not depend on its  *)
(* return after Shutdown, because waitForServerExit gives up.              *)
Fairness ==
  /\ WF_vars(MainNext)
  /\ WF_vars(ApiListen \/ ApiListenMetrics \/ ApiReady)
  /\ WF_vars(WorkerNext)

FairSpec == Spec /\ Fairness
-----------------------------------------------------------------------------
(* Properties.                                                             *)

(* Types of the variables.                                                 *)
TypeOK ==
  /\ conf \in Configs
  /\ main \in {"migrate", "assemble", "select", "drain", "shutdown", "waitExit",
               "join", "close", "exited"}
  /\ exit \in {"none", "ok", "failure", "killed"}
  /\ sig \in BOOLEAN /\ cancelled \in BOOLEAN
  /\ api \in {"off", "listen", "listenMetrics", "ready", "serve", "done"}
  /\ errCh \in {"empty", "full", "taken"}
  /\ apiErr \in BOOLEAN /\ inShutdown \in BOOLEAN /\ forced \in BOOLEAN
  /\ work \in {"off", "start", "listen", "ready", "wait", "shutdown", "send", "cancel",
               "returned"}
  /\ failed \subseteq {"api", "worker"}
  /\ requests \in [Requests -> {"none", "active", "done", "cut"}]
  /\ tasks \in [Tasks -> {"none", "active", "done", "requeued"}]
  /\ readyCalls \in 0..2 /\ readySent \in 0..1
  /\ opened \subseteq {"schema", "http", "metrics", "tasks", "obs"}
  /\ registry \in {"none", "open", "closed"}

(* READY=1 is sent once, and only after everything this configuration      *)
(* needs was up: the schema (mode all), each port it binds, asynq.         *)
NeededForReady ==
  (IF conf.mode = "all" THEN {"schema"} ELSE {})
    \union (IF HasApi THEN {"http"} ELSE {})
    \union (IF HasApi /\ conf.metricsPort THEN {"metrics"} ELSE {})
    \union (IF HasWorker THEN {"tasks"} ELSE {})
    \union (IF HasWorker /\ conf.obsPort THEN {"obs"} ELSE {})

ReadyAfterAll == readySent > 0 => readySent = 1 /\ NeededForReady \subseteq opened

(* A supervisor may trust exit code 0: the worker did not fail, and the    *)
(* API did not fail by itself, that is without a signal next to it.        *)
CleanExit ==
  exit = "ok" => "worker" \notin failed /\ ("api" \in failed => sig)

(* The connections are closed under nobody who is still being waited for:  *)
(* no request that Shutdown should have waited for, no task that asynq's   *)
(* Shutdown neither finished nor gave back, no worker that still runs.     *)
RegistryOutlivesWork ==
  registry = "closed" =>
    /\ \A r \in Requests : requests[r] # "active"
    /\ \A t \in Tasks : tasks[t] # "active"
    /\ work \in {"off", "cancel", "returned"}

(* Unless it is killed, no process ends with a task in its hands that is   *)
(* neither done nor back in the queue, not even when the API failed.       *)
NoTaskAbandoned ==
  exit \in {"ok", "failure"} => \A t \in Tasks : tasks[t] # "active"

(* A signal ends the process.                                              *)
StopsWhenTold == sig ~> exit # "none"

(* When one component fails the other one stops and the process ends.      *)
FailureEndsProcess == failed # {} ~> exit # "none"

(* What the comment of runAll says: a component that fails makes the       *)
(* process exit with a code that is not zero.                              *)
FailureIsReported == exit = "ok" => failed = {}

(* What the comment of Server.Run says of onReady: the port is bound and   *)
(* requests can be accepted right away.                                    *)
ReadyMeansAccepting == [][readySent' > readySent /\ HasApi => ~inShutdown]_vars
=============================================================================
