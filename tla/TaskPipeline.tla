---------------------------- MODULE TaskPipeline ----------------------------
(***************************************************************************)
(* The example task from the API request that enqueues it to the row it    *)
(* leaves in PostgreSQL: EnqueueTask in the API, the states of the task in *)
(* Redis, the worker processes with their handler goroutines, and the      *)
(* examples table.                                                         *)
(*                                                                         *)
(* asynq delivers at least once.  A handler goroutine is started for a     *)
(* leased task; the processor that started it stops waiting when the       *)
(* handler returns, the task times out, the lease runs out or the worker   *)
(* is shut down.  In the last three cases the handler goroutine lives on   *)
(* ("orphan") and may still commit, next to a later attempt of the same    *)
(* task.  What keeps the effect exactly-once is the task_key in the        *)
(* payload and the unique index it is inserted under.                      *)
(*                                                                         *)
(* A worker without a database runs the task with noopExampleProcessor,    *)
(* which only logs.  Outside production that is a deployment like another; *)
(* in production such a worker does not start.                             *)
(***************************************************************************)
EXTENDS Naturals, FiniteSets

CONSTANTS
  Tasks,            \* enqueue attempts; a task is also its own task_key
  Workers,          \* worker processes
  Slots,            \* goroutines of one worker that can be alive at a time
  MaxRetry,         \* DefaultMaxRetry
  Deployments,      \* what a worker may be started with
  OtherPayloads,    \* payloads of producers other than NewExampleTask
  MaxDisruptions,   \* bound: shutdowns, crashes and lost leases together
  NoTask, NoHandler \* not a task, not a handler

(* A payload is what the consumer can tell about it: whether it is JSON of *)
(* the right shape, its schema version, whether it carries a task_key.     *)
Payload == [decodes : BOOLEAN, v : Nat, keyed : BOOLEAN]
NoPayload == [decodes |-> FALSE, v |-> 0, keyed |-> FALSE]

(* What the configuration of a worker decides here: APP_ENV, and whether   *)
(* there is a database to build the ExampleService on.                     *)
Deployment == [production : BOOLEAN, database : BOOLEAN]

(* A handler goroutine is known by the worker that runs it and a slot.     *)
Handlers == Workers \X Slots

ASSUME ConstantsAssumption ==
  /\ NoTask \notin Tasks
  /\ NoHandler \notin Handlers
  /\ MaxRetry \in Nat
  /\ MaxDisruptions \in Nat
  /\ OtherPayloads \subseteq Payload
  /\ Deployments \subseteq Deployment

PayloadSchemaVersion == 1
CurrentSupported == [Min |-> PayloadSchemaVersion, Max |-> PayloadSchemaVersion]

NewExampleTask ==
  [decodes |-> TRUE, v |-> PayloadSchemaVersion, keyed |-> TRUE]

NoKeyTask == [NewExampleTask EXCEPT !.keyed = FALSE]

(* What a handler goroutine knows: how far it is, its task, the retry      *)
(* count in its context, what it returns.                                  *)
Goroutine == [phase : {"running", "ran", "returned"}, task : Tasks,
              seen : 0..MaxRetry, result : {"none", "ok", "error", "skip"}]
NoGoroutine == [phase |-> "idle", task |-> NoTask, seen |-> 0, result |-> "none"]

VARIABLES
  reply,        \* the API's answer to the request that enqueues the task
  payload,      \* the payload of the task
  status,       \* the state of the task in Redis
  retried,      \* msg.Retried: the retry budget used up
  lease,        \* the handler that holds a valid lease on the task
  rows,         \* rows of table examples that the task inserted
  consumed,     \* history: tasks a worker outside production ran as a no-op
  wstate,       \* the worker processes
  deployed,     \* what each of them was started with
  go,           \* the handler goroutines
  waiting,      \* handlers whose processor goroutine still waits for them
  labels,       \* status labels counted for the task by MetricsMiddleware
  starts,       \* history: attempts started
  requeued,     \* history: attempts given back at a shutdown
  disruptions   \* history: bounded number of disruptions

apiVars    == <<reply, payload>>
redisVars  == <<status, retried, lease>>
effectVars == <<rows, consumed>>
workerVars == <<wstate, deployed>>
goVars     == <<go, waiting>>
histVars   == <<starts, requeued>>
vars == <<apiVars, redisVars, effectVars, workerVars, goVars, labels, histVars, disruptions>>

-----------------------------------------------------------------------------
BugMayStart(d) == TRUE

(* buildWorkerDeps: in production every processor RequiredProcessors names *)
(* must be the real one, and there is no ExampleService without a pool.    *)
MayStart(d) == d.production => d.database

-----------------------------------------------------------------------------
Init ==
  /\ reply = [t \in Tasks |-> "none"]
  /\ payload = [t \in Tasks |-> NoPayload]
  /\ status = [t \in Tasks |-> "absent"]
  /\ retried = [t \in Tasks |-> 0]
  /\ lease = [t \in Tasks |-> NoHandler]
  /\ rows = [t \in Tasks |-> 0]
  /\ consumed = {}
  /\ wstate = [w \in Workers |-> "up"]
  /\ deployed \in [Workers -> {d \in Deployments : MayStart(d)}]
  /\ go = [h \in Handlers |-> NoGoroutine]
  /\ waiting = {}
  /\ labels = [t \in Tasks |-> {}]
  /\ starts = [t \in Tasks |-> 0]
  /\ requeued = [t \in Tasks |-> 0]
  /\ disruptions = 0

-----------------------------------------------------------------------------
(* Decisions the actions are made of.  A definition named Bug... is a      *)
(* plausible mistake in the one that follows it; nothing uses it, it is    *)
(* swapped in to see that the properties notice.                           *)

BugContains(v) == v >= CurrentSupported.Min

(* SupportedVersions.Contains, the test of CheckHeader.                    *)
Contains(v) == v >= CurrentSupported.Min /\ v <= CurrentSupported.Max

BugInsertExample(t) == [rows EXCEPT ![t] = @ + 1]

(* CreateWithTaskKey for a keyed payload: the statement inserts nothing    *)
(* when the key is there already.  Create for a payload without a key.     *)
InsertExample(t) ==
  [rows EXCEPT ![t] = IF payload[t].keyed /\ @ > 0 THEN @ ELSE @ + 1]

BugProcessResult(db) == IF db = "answer_lost" THEN "error" ELSE "ok"

(* ExampleService.ProcessExample: created and duplicate are both nil, any  *)
(* database error is passed on, also the one of a commit whose answer was  *)
(* lost.                                                                   *)
ProcessResult(db) == IF db = "committed" THEN "ok" ELSE "error"

BugTaskStatus(res, n) ==
  CASE res = "ok" -> "success"
    [] res = "skip" \/ (res = "error" /\ n > MaxRetry) -> "failure"
    [] OTHER -> "retry"

(* taskStatus of the metrics middleware.                                   *)
TaskStatus(res, n) ==
  CASE res = "ok" -> "success"
    [] res = "skip" \/ (res = "error" /\ n >= MaxRetry) -> "failure"
    [] OTHER -> "retry"

BugHoldsLease(h) == h \in waiting

(* base.Lease.IsValid: a processor goroutine writes to Redis only while    *)
(* its own lease on the task is valid.                                     *)
HoldsLease(h) == lease[go[h].task] = h

BugArchives(t, res) == res = "skip" \/ retried[t] > MaxRetry

(* handleFailedMessage and the recoverer: archive once the budget is used  *)
(* up or the error is SkipRetry, else retry and count it.                  *)
Archives(t, res) == res = "skip" \/ retried[t] >= MaxRetry

BugFailTask(t, res) ==
  /\ status' = [status EXCEPT ![t] = IF Archives(t, res) THEN "archived" ELSE "retry"]
  /\ UNCHANGED retried

FailTask(t, res) ==
  IF Archives(t, res)
    THEN /\ status' = [status EXCEPT ![t] = "archived"]
         /\ UNCHANGED retried
    ELSE /\ status' = [status EXCEPT ![t] = "retry"]
         /\ retried' = [retried EXCEPT ![t] = @ + 1]

(* The processor goroutine of h stops waiting.  A handler that has not     *)
(* returned by then lives on as an orphan.                                 *)
StopWaiting(h) ==
  /\ waiting' = waiting \ {h}
  /\ go' = [go EXCEPT ![h] = IF @.phase = "returned" THEN NoGoroutine ELSE @]

Release(t) == lease' = [lease EXCEPT ![t] = NoHandler]

Disrupt ==
  /\ disruptions < MaxDisruptions
  /\ disruptions' = disruptions + 1

-----------------------------------------------------------------------------
(* The API process.                                                        *)

(* ExampleService.EnqueueTask up to the call of Enqueue.  Whether this API *)
(* instance has a queue depends on its configuration.                      *)
EnqueueTask(t) ==
  /\ reply[t] = "none"
  /\ \/ /\ reply' = [reply EXCEPT ![t] = "QUEUE_UNAVAILABLE"]
        /\ UNCHANGED payload
     \/ /\ reply' = [reply EXCEPT ![t] = "sending"]
        /\ payload' = [payload EXCEPT ![t] = NewExampleTask]
  /\ UNCHANGED <<redisVars, effectVars, workerVars, goVars, labels, histVars, disruptions>>

(* Redis executes the enqueue command.  It may do so after the client gave *)
(* up on it: the command was already on the wire.                          *)
RedisAccepts(t) ==
  /\ reply[t] \in {"sending", "QUEUE_ERROR"}
  /\ status[t] = "absent"
  /\ status' = [status EXCEPT ![t] = "pending"]
  /\ UNCHANGED <<apiVars, retried, lease, effectVars, workerVars,
                 goVars, labels, histVars, disruptions>>

BugEnqueueReturns(t) ==
  /\ reply[t] = "sending"
  /\ reply' = [reply EXCEPT ![t] = "queued"]
  /\ UNCHANGED <<payload, redisVars, effectVars, workerVars,
                 goVars, labels, histVars, disruptions>>

(* EnqueueTask returns: nil only after Redis executed the command, an      *)
(* error whether or not it did.                                            *)
EnqueueReturns(t) ==
  /\ reply[t] = "sending"
  /\ \/ /\ status[t] # "absent"
        /\ reply' = [reply EXCEPT ![t] = "queued"]
     \/ reply' = [reply EXCEPT ![t] = "QUEUE_ERROR"]
  /\ UNCHANGED <<payload, redisVars, effectVars, workerVars,
                 goVars, labels, histVars, disruptions>>

(* A producer of another release, or something that is no producer of this *)
(* program at all, left a message of type example:run in the queue.        *)
OtherProducer(t) ==
  /\ reply[t] = "none"
  /\ \E p \in OtherPayloads : payload' = [payload EXCEPT ![t] = p]
  /\ reply' = [reply EXCEPT ![t] = "queued"]
  /\ status' = [status EXCEPT ![t] = "pending"]
  /\ UNCHANGED <<retried, lease, effectVars, workerVars, goVars, labels, histVars, disruptions>>

-----------------------------------------------------------------------------
(* Redis and the processor of asynq.                                       *)

(* A worker takes the task and a lease on it and starts a handler.         *)
Dequeue(h, t) ==
  /\ wstate[h[1]] = "up"
  /\ go[h].phase = "idle"
  /\ status[t] = "pending"
  /\ status' = [status EXCEPT ![t] = "active"]
  /\ lease' = [lease EXCEPT ![t] = h]
  /\ go' = [go EXCEPT ![h] = [phase |-> "running", task |-> t,
                              seen |-> retried[t], result |-> "none"]]
  /\ waiting' = waiting \union {h}
  /\ starts' = [starts EXCEPT ![t] = @ + 1]
  /\ UNCHANGED <<apiVars, retried, effectVars, workerVars, labels, requeued, disruptions>>

(* The handler returned before anything else happened.                     *)
ResultArrives(h) ==
  /\ h \in waiting
  /\ go[h].phase = "returned"
  /\ StopWaiting(h)
  /\ IF ~HoldsLease(h)
       THEN UNCHANGED redisVars
       ELSE /\ Release(go[h].task)
            /\ IF go[h].result = "ok"
                 THEN /\ status' = [status EXCEPT ![go[h].task] = "done"]
                      /\ UNCHANGED retried
                 ELSE FailTask(go[h].task, go[h].result)
  /\ UNCHANGED <<apiVars, effectVars, workerVars, labels, histVars, disruptions>>

(* The 30 s of DefaultTimeout are over; the handler may still be running.  *)
TaskTimesOut(h) ==
  /\ h \in waiting
  /\ StopWaiting(h)
  /\ IF ~HoldsLease(h)
       THEN UNCHANGED redisVars
       ELSE Release(go[h].task) /\ FailTask(go[h].task, "error")
  /\ UNCHANGED <<apiVars, effectVars, workerVars, labels, histVars, disruptions>>

(* The lease ran out under a live processor: it writes nothing any more.   *)
LeaseLost(h) ==
  /\ h \in waiting
  /\ ~HoldsLease(h)
  /\ StopWaiting(h)
  /\ UNCHANGED <<apiVars, redisVars, effectVars, workerVars, labels, histVars, disruptions>>

(* The lease of t runs out: its holder is gone, or could not reach Redis   *)
(* to extend it.                                                           *)
LeaseExpires(t) ==
  /\ status[t] = "active"
  /\ lease[t] # NoHandler
  /\ IF lease[t] \in waiting /\ go[lease[t]].task = t THEN Disrupt ELSE UNCHANGED disruptions
  /\ Release(t)
  /\ UNCHANGED <<apiVars, status, retried, effectVars, workerVars, goVars, labels, histVars>>

(* The recoverer of any running worker finds the expired lease.            *)
Recover(t) ==
  /\ \E w \in Workers : wstate[w] = "up"
  /\ status[t] = "active"
  /\ lease[t] = NoHandler
  /\ FailTask(t, "error")
  /\ UNCHANGED <<apiVars, lease, effectVars, workerVars, goVars, labels, histVars, disruptions>>

(* The retry delay is over.                                                *)
Forward(t) ==
  /\ status[t] = "retry"
  /\ status' = [status EXCEPT ![t] = "pending"]
  /\ UNCHANGED <<apiVars, retried, lease, effectVars, workerVars,
                 goVars, labels, histVars, disruptions>>

-----------------------------------------------------------------------------
(* The handler goroutine.                                                  *)

(* Deps.HandleExampleTask: decode, check the header, process with what     *)
(* RegisterHandlers installed.  The service's insert is one statement: it  *)
(* commits and answers, commits with its answer lost, or fails.  The no-op *)
(* processor returns nil and leaves nothing behind.                        *)
HandleExampleTask(h) ==
  LET t == go[h].task
      p == payload[t]
      worker == deployed[h[1]]
      Returns(res) ==
        go' = [go EXCEPT ![h] = [@ EXCEPT !.phase = "ran", !.result = res]]
  IN
  /\ go[h].phase = "running"
  /\ \/ ~p.decodes /\ Returns("skip") /\ UNCHANGED effectVars
     \/ p.decodes /\ ~Contains(p.v) /\ Returns("error") /\ UNCHANGED effectVars
     \/ /\ p.decodes /\ Contains(p.v) /\ worker.database
        /\ \E db \in {"committed", "answer_lost", "failed"} :
             /\ Returns(ProcessResult(db))
             /\ rows' = IF db = "failed" THEN rows ELSE InsertExample(t)
        /\ UNCHANGED consumed
     \/ /\ p.decodes /\ Contains(p.v) /\ ~worker.database
        /\ Returns("ok")
        /\ consumed' = IF worker.production THEN consumed ELSE consumed \union {t}
        /\ UNCHANGED rows
  /\ UNCHANGED <<apiVars, redisVars, workerVars, waiting, labels, histVars, disruptions>>

(* The deferred function of MetricsMiddleware counts the attempt, then the *)
(* handler goroutine ends: its result goes to the processor, or nowhere    *)
(* when the processor stopped waiting.                                     *)
HandlerReturns(h) ==
  /\ go[h].phase = "ran"
  /\ labels' = [labels EXCEPT ![go[h].task] =
                  @ \union {TaskStatus(go[h].result, go[h].seen)}]
  /\ go' = [go EXCEPT ![h] = IF h \in waiting THEN [@ EXCEPT !.phase = "returned"]
                                             ELSE NoGoroutine]
  /\ UNCHANGED <<apiVars, redisVars, effectVars, workerVars, waiting, histVars, disruptions>>

-----------------------------------------------------------------------------
(* The worker process.                                                     *)

(* SIGTERM: Worker.Run calls server.Stop, no task is dequeued any more.    *)
StopWorker(w) ==
  /\ wstate[w] = "up"
  /\ Disrupt
  /\ wstate' = [wstate EXCEPT ![w] = "stopping"]
  /\ UNCHANGED <<deployed, apiVars, redisVars, effectVars, goVars, labels, histVars>>

(* server.Shutdown ran into its timeout: the task goes back to the queue,  *)
(* at no cost to its retry budget.                                         *)
AbortTask(h) ==
  /\ wstate[h[1]] = "stopping"
  /\ h \in waiting
  /\ StopWaiting(h)
  /\ IF ~HoldsLease(h)
       THEN UNCHANGED <<status, lease, requeued>>
       ELSE /\ status' = [status EXCEPT ![go[h].task] = "pending"]
            /\ requeued' = [requeued EXCEPT ![go[h].task] = @ + 1]
            /\ Release(go[h].task)
  /\ UNCHANGED <<apiVars, retried, effectVars, workerVars, labels, starts, disruptions>>

(* Every goroutine of a process that ends is gone, orphans included.       *)
Vanish(w) ==
  /\ wstate' = [wstate EXCEPT ![w] = "down"]
  /\ go' = [h \in Handlers |-> IF h[1] = w THEN NoGoroutine ELSE go[h]]
  /\ waiting' = {h \in waiting : h[1] # w}
  /\ UNCHANGED <<deployed, apiVars, redisVars, effectVars, labels, histVars>>

(* server.Shutdown returned: nothing is in flight, Worker.Run returns.     *)
WorkerExits(w) ==
  /\ wstate[w] = "stopping"
  /\ \A h \in waiting : h[1] # w
  /\ Vanish(w)
  /\ UNCHANGED disruptions

WorkerCrashes(w) ==
  /\ wstate[w] # "down"
  /\ Disrupt
  /\ Vanish(w)

(* systemd or Kubernetes starts the process again, perhaps with another    *)
(* configuration; buildWorkerDeps, server.Start.                           *)
WorkerStarts(w) ==
  /\ wstate[w] = "down"
  /\ wstate' = [wstate EXCEPT ![w] = "up"]
  /\ \E d \in Deployments :
       MayStart(d) /\ deployed' = [deployed EXCEPT ![w] = d]
  /\ UNCHANGED <<apiVars, redisVars, effectVars, goVars, labels, histVars, disruptions>>

-----------------------------------------------------------------------------
ApiNext(t) ==
  EnqueueTask(t) \/ RedisAccepts(t) \/ EnqueueReturns(t) \/ OtherProducer(t)

RedisNext(t) ==
  LeaseExpires(t) \/ Recover(t) \/ Forward(t) \/ (\E h \in Handlers : Dequeue(h, t))

HandlerNext(h) ==
  \/ HandleExampleTask(h) \/ HandlerReturns(h)
  \/ ResultArrives(h) \/ TaskTimesOut(h) \/ LeaseLost(h) \/ AbortTask(h)

WorkerNext(w) ==
  StopWorker(w) \/ WorkerExits(w) \/ WorkerCrashes(w) \/ WorkerStarts(w)

Next ==
  \/ \E t \in Tasks : ApiNext(t) \/ RedisNext(t)
  \/ \E h \in Handlers : HandlerNext(h)
  \/ \E w \in Workers : WorkerNext(w)

Spec == Init /\ [][Next]_vars

(* What the scheduling of the code justifies: Redis answers the enqueue    *)
(* call, the loops of asynq (processor, heartbeater, recoverer, forwarder) *)
(* come round, a handler returns because pgx honours its context, Shutdown *)
(* returns, and a process that ended is started again by its supervisor.   *)
(* Nothing is assumed of timeouts, failures, crashes or shutdowns.         *)
OrphanExpires(t) == LeaseExpires(t) /\ UNCHANGED disruptions

Fairness ==
  /\ \A t \in Tasks :
       /\ WF_vars(EnqueueReturns(t))
       /\ WF_vars(OrphanExpires(t))
       /\ WF_vars(Recover(t))
       /\ WF_vars(Forward(t))
       /\ SF_vars(\E h \in Handlers : Dequeue(h, t))
  /\ \A h \in Handlers :
       /\ WF_vars(HandleExampleTask(h))
       /\ WF_vars(HandlerReturns(h))
       /\ WF_vars(ResultArrives(h))
       /\ WF_vars(LeaseLost(h))
  /\ \A w \in Workers : WF_vars(WorkerExits(w)) /\ WF_vars(WorkerStarts(w))

FairSpec == Spec /\ Fairness
-----------------------------------------------------------------------------
(* Properties.                                                             *)

(* Types of the variables.                                                 *)
TypeOK ==
  /\ reply \in [Tasks -> {"none", "sending", "queued", "QUEUE_ERROR", "QUEUE_UNAVAILABLE"}]
  /\ payload \in [Tasks -> Payload]
  /\ status \in [Tasks -> {"absent", "pending", "active", "retry", "done", "archived"}]
  /\ retried \in [Tasks -> 0..MaxRetry]
  /\ lease \in [Tasks -> Handlers \union {NoHandler}]
  /\ rows \in [Tasks -> Nat]
  /\ consumed \subseteq Tasks
  /\ wstate \in [Workers -> {"up", "stopping", "down"}]
  /\ deployed \in [Workers -> Deployments]
  /\ go \in [Handlers -> Goroutine \union {NoGoroutine}]
  /\ waiting \subseteq Handlers
  /\ labels \in [Tasks -> SUBSET {"success", "retry", "failure"}]
  /\ starts \in [Tasks -> Nat]
  /\ requeued \in [Tasks -> Nat]
  /\ disruptions \in 0..MaxDisruptions

(* The unique index and ON CONFLICT DO NOTHING leave one row per task_key, *)
(* whatever attempts, orphans and restarts interleave.                     *)
AtMostOneRowPerKey == \A t \in Tasks : payload[t].keyed => rows[t] <= 1

(* A task that asynq acknowledged (and forgot) has left its row: no error  *)
(* of the database is swallowed between ProcessExample and the processor,  *)
(* and the no-op processor takes tasks of workers outside production only. *)
DoneLeavesRow ==
  \A t \in Tasks : status[t] = "done" => rows[t] > 0 \/ t \in consumed

(* A message this release must not interpret (no JSON, or a schema version *)
(* outside CurrentSupported) is neither processed nor silently dropped: it *)
(* ends up archived, where it is seen.                                     *)
UnreadableNeverProcessed ==
  \A t \in Tasks :
    ~payload[t].decodes \/ ~(payload[t].v \in CurrentSupported.Min..CurrentSupported.Max)
      => rows[t] = 0 /\ t \notin consumed /\ status[t] # "done" /\ "success" \notin labels[t]

(* The attempts a task has had are those its retry budget paid for, those  *)
(* a shutdown gave back, and the current one: no attempt is free otherwise *)
(* and none is counted twice, so MaxRetry bounds the executions.           *)
AttemptsAccounted ==
  \A t \in Tasks :
    starts[t] = retried[t] + requeued[t]
                + (IF status[t] \in {"active", "done", "archived"} THEN 1 ELSE 0)

(* A success counted by the metrics stands for a row in the table, even    *)
(* when the attempt was an orphan's, unless a worker outside production    *)
(* ran the task without a database.                                        *)
SuccessLabelIsTrue ==
  \A t \in Tasks : "success" \in labels[t] => rows[t] > 0 \/ t \in consumed

(* Without shutdowns, crashes and lost leases every archived task shows up *)
(* in the metrics as something other than a retry, once its handlers have  *)
(* returned: an alert on failures misses no dead letter but one whose last *)
(* attempt ran past its timeout and succeeded.                             *)
ArchivedIsVisible ==
  \A t \in Tasks :
    /\ status[t] = "archived"
    /\ disruptions = 0
    /\ \A h \in Handlers : go[h].task # t
    => labels[t] \intersect {"success", "failure"} # {}

(* What the comment on TaskStatusFailure says of the label: after it the   *)
(* task is not executed again.                                             *)
FailureLabelIsFinal ==
  [][\A t \in Tasks :
       "failure" \in labels[t] /\ status[t] = "pending" => status'[t] = "pending"]_vars

(* A task whose enqueue was acknowledged to the client is done or archived *)
(* in the end.                                                             *)
QueuedIsSettled ==
  \A t \in Tasks : reply[t] = "queued" ~> status[t] \in {"done", "archived"}

(* How the pipeline is seen through ExampleEffect: a task is open while    *)
(* Redis still means to run it.                                            *)
KeyedTasks == {t \in Tasks : status[t] # "absent" /\ payload[t].keyed}

Verdict ==
  [t \in Tasks |->
     CASE status[t] = "absent" -> "absent"
       [] status[t] = "done" -> "done"
       [] status[t] = "archived" -> "dead"
       [] OTHER -> "open"]

Effect == INSTANCE ExampleEffect
            WITH keyed <- KeyedTasks, effects <- rows, waived <- consumed, verdict <- Verdict

(* The pipeline implements the promise of ExampleEffect: every step of it  *)
(* is a step of the promise or invisible to it.                            *)
EffectSpec == Effect!Spec
=============================================================================
