------------------------- MODULE TaskPipeline_proofs -------------------------
(***************************************************************************)
(* Proofs about TaskPipeline, for any number of tasks, workers, goroutines *)
(* and retries.  IInv is TypeOK and the safety properties of the module    *)
(* with what makes them inductive: a row or a handler exists only for a    *)
(* task that was enqueued (so a payload is never replaced once it matters),*)
(* a lease only for an active task, and a handler that is about to return  *)
(* ok stands on a row of a readable payload, or was the no-op of a worker  *)
(* outside production (DeployedMayRun).  CalmInv adds what holds while     *)
(* nothing is disrupted.                                                   *)
(***************************************************************************)
EXTENDS TaskPipeline, TLAPS

Readable(t) == payload[t].decodes /\ Contains(payload[t].v)

EnqueuedFirst ==
  \A t \in Tasks :
    reply[t] = "none" => status[t] = "absent" /\ rows[t] = 0 /\ t \notin consumed

HandlersHaveTasks ==
  \A h \in Handlers :
    go[h].phase # "idle" => status[go[h].task] # "absent"

WaitingIsLive == \A h \in waiting : go[h].phase # "idle"

LeaseIsActive ==
  \A t \in Tasks : lease[t] # NoHandler => status[t] = "active"

RowIsReadable == \A t \in Tasks : rows[t] > 0 => Readable(t)

ResultIsTrue ==
  \A h \in Handlers :
    go[h].result = "ok" => rows[go[h].task] > 0 \/ go[h].task \in consumed

ConsumedIsReadable == \A t \in consumed : Readable(t)

(* No worker runs that buildWorkerDeps refuses.                            *)
DeployedMayRun == \A w \in Workers : MayStart(deployed[w])

TypeInv   == TypeOK /\ WaitingIsLive /\ DeployedMayRun
StatusInv == EnqueuedFirst /\ HandlersHaveTasks /\ LeaseIsActive
RowInv    == /\ RowIsReadable /\ ConsumedIsReadable /\ ResultIsTrue
             /\ AtMostOneRowPerKey /\ DoneLeavesRow /\ SuccessLabelIsTrue

IInv == TypeInv /\ StatusInv /\ RowInv /\ AttemptsAccounted

(* What FailTask does to the state of a task and to its budget.            *)
LEMMA FailTaskType ==
  ASSUME TypeOK, NEW t \in Tasks, NEW res, FailTask(t, res)
  PROVE  /\ status' \in [Tasks -> {"absent", "pending", "active", "retry", "done", "archived"}]
         /\ retried' \in [Tasks -> 0..MaxRetry]
BY ConstantsAssumption DEF TypeOK, FailTask, Archives

(* What a run of the handler does: it touches the rows of its own task only *)
(* and only when the payload is readable, adds at most one, none to a key   *)
(* that has one, and returns ok only on top of a row, or as the no-op of a  *)
(* worker that is not in production.                                        *)
LEMMA HandleEffect ==
  ASSUME TypeInv, NEW h \in Handlers, HandleExampleTask(h)
  PROVE  /\ go[h] \in Goroutine
         /\ go[h].phase = "running"
         /\ go'[h] \in Goroutine
         /\ go'[h].phase = "ran"
         /\ go'[h].task = go[h].task
         /\ go' \in [Handlers -> Goroutine \union {NoGoroutine}]
         /\ \A g \in Handlers \ {h} : go'[g] = go[g]
         /\ rows' \in [Tasks -> Nat]
         /\ \A t \in Tasks \ {go[h].task} : rows'[t] = rows[t]
         /\ rows'[go[h].task] >= rows[go[h].task]
         /\ rows'[go[h].task] > rows[go[h].task] =>
              /\ Readable(go[h].task)
              /\ payload[go[h].task].keyed => rows'[go[h].task] = 1
         /\ go'[h].result = "ok" => rows'[go[h].task] > 0 \/ go[h].task \in consumed'
         /\ consumed \subseteq consumed' /\ consumed' \subseteq Tasks
         /\ \A t \in consumed' : t \in consumed \/ (t = go[h].task /\ Readable(t))
<1> USE DEF TypeInv, TypeOK
<1> DEFINE t == go[h].task
<1>1. go[h] \in Goroutine /\ t \in Tasks /\ go[h].phase = "running"
  BY DEF HandleExampleTask, Goroutine, NoGoroutine
<1>2. ASSUME NEW res \in {"ok", "error", "skip"},
             go' = [go EXCEPT ![h] = [@ EXCEPT !.phase = "ran", !.result = res]]
      PROVE  /\ go'[h] \in Goroutine /\ go'[h].phase = "ran" /\ go'[h].task = t
             /\ go'[h].result = res
             /\ go' \in [Handlers -> Goroutine \union {NoGoroutine}]
             /\ \A g \in Handlers \ {h} : go'[g] = go[g]
  <2>1. /\ go'[h] = [go[h] EXCEPT !.phase = "ran", !.result = res]
        /\ \A g \in Handlers \ {h} : go'[g] = go[g]
        /\ go' = [g \in Handlers |-> go'[g]]
    BY <1>2
  <2>2. go'[h] \in Goroutine /\ go'[h].phase = "ran" /\ go'[h].task = t /\ go'[h].result = res
    BY <1>1, <2>1 DEF Goroutine
  <2>3. QED
    BY <2>1, <2>2
<1>3. CASE UNCHANGED effectVars /\ \E res \in {"error", "skip"} :
            go' = [go EXCEPT ![h] = [@ EXCEPT !.phase = "ran", !.result = res]]
  <2>1. PICK res \in {"error", "skip"} :
            go' = [go EXCEPT ![h] = [@ EXCEPT !.phase = "ran", !.result = res]]
    BY <1>3
  <2>2. /\ go'[h] \in Goroutine /\ go'[h].phase = "ran" /\ go'[h].task = t
        /\ go'[h].result = res
        /\ go' \in [Handlers -> Goroutine \union {NoGoroutine}]
        /\ \A g \in Handlers \ {h} : go'[g] = go[g]
    BY <1>2, <2>1
  <2>3. QED
    BY <1>1, <1>3, <2>1, <2>2 DEF effectVars
<1>4. ASSUME Readable(t), NEW db \in {"committed", "answer_lost", "failed"},
             go' = [go EXCEPT ![h] = [@ EXCEPT !.phase = "ran", !.result = ProcessResult(db)]],
             rows' = IF db = "failed" THEN rows ELSE InsertExample(t)
      PROVE  /\ rows' \in [Tasks -> Nat]
             /\ \A u \in Tasks \ {t} : rows'[u] = rows[u]
             /\ rows'[t] >= rows[t]
             /\ rows'[t] > rows[t] => (payload[t].keyed => rows'[t] = 1)
             /\ ProcessResult(db) = "ok" => rows'[t] > 0
             /\ ProcessResult(db) \in {"ok", "error"}
  BY <1>1, <1>4 DEF InsertExample, ProcessResult
<1>5. QED
  <2>1. CASE ~payload[t].decodes
    BY <1>3, <2>1 DEF HandleExampleTask
  <2>2. CASE payload[t].decodes /\ ~Contains(payload[t].v)
    BY <1>3, <2>2 DEF HandleExampleTask
  <2>3. CASE Readable(t) /\ deployed[h[1]].database
    <3>1. PICK db \in {"committed", "answer_lost", "failed"} :
             /\ go' = [go EXCEPT ![h] = [@ EXCEPT !.phase = "ran", !.result = ProcessResult(db)]]
             /\ rows' = IF db = "failed" THEN rows ELSE InsertExample(t)
             /\ UNCHANGED consumed
      BY <2>3 DEF HandleExampleTask, Readable
    <3>2. QED
      BY <1>1, <1>2, <1>4, <2>3, <3>1
  <2>4. CASE Readable(t) /\ ~deployed[h[1]].database
    <3>1. /\ go' = [go EXCEPT ![h] = [@ EXCEPT !.phase = "ran", !.result = "ok"]]
          /\ consumed' = IF deployed[h[1]].production THEN consumed ELSE consumed \union {t}
          /\ UNCHANGED rows
      BY <2>4 DEF HandleExampleTask, Readable
    <3>2. ~deployed[h[1]].production
      BY <2>4 DEF DeployedMayRun, MayStart, Handlers
    <3>3. consumed' = consumed \union {t}
      BY <3>1, <3>2
    <3>4. QED
      BY <1>1, <1>2, <2>4, <3>1, <3>3
  <2>5. QED
    BY <2>1, <2>2, <2>3, <2>4 DEF Readable

(* Every step preserves the types; a processor waits only for a live       *)
(* goroutine, which is what types the task it writes.                      *)
LEMMA TypeStep ==
  TypeInv /\ [Next]_vars => TypeInv'
<1> SUFFICES ASSUME TypeInv, [Next]_vars PROVE TypeInv'
  OBVIOUS
<1> USE ConstantsAssumption DEF TypeInv, TypeOK, WaitingIsLive, DeployedMayRun,
        apiVars, redisVars, effectVars, workerVars, goVars, histVars
<1>1. ASSUME NEW t \in Tasks, EnqueueTask(t) PROVE TypeInv'
  <2>1. NewExampleTask \in Payload
    BY DEF NewExampleTask, Payload, PayloadSchemaVersion
  <2>2. QED
    BY <1>1, <2>1 DEF EnqueueTask
<1>2. ASSUME NEW t \in Tasks, RedisAccepts(t) PROVE TypeInv'
  BY <1>2 DEF RedisAccepts
<1>3. ASSUME NEW t \in Tasks, EnqueueReturns(t) PROVE TypeInv'
  BY <1>3 DEF EnqueueReturns
<1>4. ASSUME NEW t \in Tasks, OtherProducer(t) PROVE TypeInv'
  BY <1>4 DEF OtherProducer
<1>5. ASSUME NEW t \in Tasks, LeaseExpires(t) PROVE TypeInv'
  BY <1>5 DEF LeaseExpires, Release, Disrupt
<1>6. ASSUME NEW t \in Tasks, Recover(t) PROVE TypeInv'
  BY <1>6, FailTaskType DEF Recover
<1>7. ASSUME NEW t \in Tasks, Forward(t) PROVE TypeInv'
  BY <1>7 DEF Forward
<1>8. ASSUME NEW t \in Tasks, NEW h \in Handlers, Dequeue(h, t) PROVE TypeInv'
  BY <1>8 DEF Dequeue, Goroutine, NoGoroutine
<1>9. ASSUME NEW h \in Handlers, HandleExampleTask(h) PROVE TypeInv'
  <2>1. /\ go' \in [Handlers -> Goroutine \union {NoGoroutine}]
        /\ rows' \in [Tasks -> Nat] /\ consumed' \subseteq Tasks
        /\ \A g \in waiting : go'[g].phase # "idle"
    BY <1>9, HandleEffect
  <2>2. QED
    BY <1>9, <2>1 DEF HandleExampleTask
<1>10. ASSUME NEW h \in Handlers, HandlerReturns(h) PROVE TypeInv'
  BY <1>10 DEF HandlerReturns, Goroutine, NoGoroutine, TaskStatus
<1>11. ASSUME NEW h \in Handlers, ResultArrives(h) PROVE TypeInv'
  BY <1>11, FailTaskType DEF ResultArrives, StopWaiting, Release, Goroutine, NoGoroutine
<1>12. ASSUME NEW h \in Handlers, TaskTimesOut(h) PROVE TypeInv'
  BY <1>12, FailTaskType DEF TaskTimesOut, StopWaiting, Release, Goroutine, NoGoroutine
<1>13. ASSUME NEW h \in Handlers, LeaseLost(h) PROVE TypeInv'
  BY <1>13 DEF LeaseLost, StopWaiting, Goroutine, NoGoroutine
<1>14. ASSUME NEW h \in Handlers, AbortTask(h) PROVE TypeInv'
  BY <1>14 DEF AbortTask, StopWaiting, Release, Goroutine, NoGoroutine
<1>15. ASSUME NEW w \in Workers, StopWorker(w) PROVE TypeInv'
  BY <1>15 DEF StopWorker, Disrupt
<1>16. ASSUME NEW w \in Workers, WorkerExits(w) PROVE TypeInv'
  BY <1>16 DEF WorkerExits, Vanish
<1>17. ASSUME NEW w \in Workers, WorkerCrashes(w) PROVE TypeInv'
  BY <1>17 DEF WorkerCrashes, Vanish, Disrupt
<1>18. ASSUME NEW w \in Workers, WorkerStarts(w) PROVE TypeInv'
  BY <1>18 DEF WorkerStarts
<1>19. CASE UNCHANGED vars
  BY <1>19 DEF vars
<1>20. QED
  BY <1>1, <1>2, <1>3, <1>4, <1>5, <1>6, <1>7, <1>8, <1>9, <1>10, <1>11, <1>12, <1>13,
     <1>14, <1>15, <1>16, <1>17, <1>18, <1>19
     DEF Next, ApiNext, RedisNext, HandlerNext, WorkerNext

(* A step leaves a task in Redis once it is there, and a lease only on an   *)
(* active task.                                                             *)
LEMMA StatusStep ==
  TypeInv /\ StatusInv /\ [Next]_vars => StatusInv'
<1> SUFFICES ASSUME TypeInv, StatusInv, [Next]_vars PROVE StatusInv'
  OBVIOUS
<1> USE ConstantsAssumption DEF TypeInv, TypeOK, WaitingIsLive, StatusInv, EnqueuedFirst,
        HandlersHaveTasks, LeaseIsActive, Goroutine, NoGoroutine,
        apiVars, redisVars, effectVars, workerVars, goVars, histVars
<1>1. ASSUME NEW t \in Tasks, EnqueueTask(t) PROVE StatusInv'
  BY <1>1 DEF EnqueueTask, NewExampleTask
<1>2. ASSUME NEW t \in Tasks, RedisAccepts(t) PROVE StatusInv'
  BY <1>2 DEF RedisAccepts
<1>3. ASSUME NEW t \in Tasks, EnqueueReturns(t) PROVE StatusInv'
  BY <1>3 DEF EnqueueReturns
<1>4. ASSUME NEW t \in Tasks, OtherProducer(t) PROVE StatusInv'
  BY <1>4 DEF OtherProducer
<1>5. ASSUME NEW t \in Tasks, LeaseExpires(t) PROVE StatusInv'
  BY <1>5 DEF LeaseExpires, Release
<1>6. ASSUME NEW t \in Tasks, Recover(t) PROVE StatusInv'
  BY <1>6 DEF Recover, FailTask, Archives
<1>7. ASSUME NEW t \in Tasks, Forward(t) PROVE StatusInv'
  BY <1>7 DEF Forward
<1>8. ASSUME NEW t \in Tasks, NEW h \in Handlers, Dequeue(h, t) PROVE StatusInv'
  BY <1>8 DEF Dequeue
<1>9. ASSUME NEW h \in Handlers, HandleExampleTask(h) PROVE StatusInv'
  <2>1. UNCHANGED <<reply, status, lease>>
    BY <1>9 DEF HandleExampleTask
  <2>2. \A g \in Handlers : /\ go'[g].task = go[g].task
                            /\ go'[g].phase # "idle" => go[g].phase # "idle"
    BY <1>9, HandleEffect
  <2>3. \A t \in Tasks :
          rows'[t] # rows[t] \/ (t \in consumed' /\ t \notin consumed) => reply[t] # "none"
    BY <1>9, HandleEffect
  <2>4. QED
    BY <2>1, <2>2, <2>3
<1>10. ASSUME NEW h \in Handlers, HandlerReturns(h) PROVE StatusInv'
  BY <1>10 DEF HandlerReturns, TaskStatus
<1>11. ASSUME NEW h \in Handlers, ResultArrives(h) PROVE StatusInv'
  BY <1>11 DEF ResultArrives, StopWaiting, HoldsLease, Release, FailTask, Archives
<1>12. ASSUME NEW h \in Handlers, TaskTimesOut(h) PROVE StatusInv'
  BY <1>12 DEF TaskTimesOut, StopWaiting, HoldsLease, Release, FailTask, Archives
<1>13. ASSUME NEW h \in Handlers, LeaseLost(h) PROVE StatusInv'
  BY <1>13 DEF LeaseLost, StopWaiting
<1>14. ASSUME NEW h \in Handlers, AbortTask(h) PROVE StatusInv'
  BY <1>14 DEF AbortTask, StopWaiting, HoldsLease, Release
<1>15. ASSUME NEW w \in Workers, StopWorker(w) PROVE StatusInv'
  BY <1>15 DEF StopWorker
<1>16. ASSUME NEW w \in Workers, WorkerExits(w) PROVE StatusInv'
  BY <1>16 DEF WorkerExits, Vanish
<1>17. ASSUME NEW w \in Workers, WorkerCrashes(w) PROVE StatusInv'
  BY <1>17 DEF WorkerCrashes, Vanish
<1>18. ASSUME NEW w \in Workers, WorkerStarts(w) PROVE StatusInv'
  BY <1>18 DEF WorkerStarts
<1>19. CASE UNCHANGED vars
  BY <1>19 DEF vars
<1>20. QED
  BY <1>1, <1>2, <1>3, <1>4, <1>5, <1>6, <1>7, <1>8, <1>9, <1>10, <1>11, <1>12, <1>13,
     <1>14, <1>15, <1>16, <1>17, <1>18, <1>19
     DEF Next, ApiNext, RedisNext, HandlerNext, WorkerNext

(* Rows, results and labels: a payload is fixed before its first row, rows  *)
(* are only added, and only the handler that adds one (or finds it) returns *)
(* ok, is acknowledged and counted a success.                               *)
LEMMA RowStep ==
  TypeInv /\ StatusInv /\ RowInv /\ [Next]_vars => RowInv'
<1> SUFFICES ASSUME TypeInv, StatusInv, RowInv, [Next]_vars PROVE RowInv'
  OBVIOUS
<1> USE ConstantsAssumption DEF TypeInv, TypeOK, WaitingIsLive, StatusInv, EnqueuedFirst,
        HandlersHaveTasks, LeaseIsActive, RowInv, RowIsReadable, ConsumedIsReadable,
        ResultIsTrue, Readable,
        AtMostOneRowPerKey, DoneLeavesRow, SuccessLabelIsTrue,
        apiVars, redisVars, effectVars, workerVars, goVars, histVars, Goroutine, NoGoroutine
<1>1. ASSUME NEW t \in Tasks, EnqueueTask(t) PROVE RowInv'
  BY <1>1 DEF EnqueueTask, NewExampleTask
<1>2. ASSUME NEW t \in Tasks, RedisAccepts(t) PROVE RowInv'
  BY <1>2 DEF RedisAccepts
<1>3. ASSUME NEW t \in Tasks, EnqueueReturns(t) PROVE RowInv'
  BY <1>3 DEF EnqueueReturns
<1>4. ASSUME NEW t \in Tasks, OtherProducer(t) PROVE RowInv'
  BY <1>4 DEF OtherProducer
<1>5. ASSUME NEW t \in Tasks, LeaseExpires(t) PROVE RowInv'
  BY <1>5 DEF LeaseExpires, Release
<1>6. ASSUME NEW t \in Tasks, Recover(t) PROVE RowInv'
  BY <1>6 DEF Recover, FailTask, Archives
<1>7. ASSUME NEW t \in Tasks, Forward(t) PROVE RowInv'
  BY <1>7 DEF Forward
<1>8. ASSUME NEW t \in Tasks, NEW h \in Handlers, Dequeue(h, t) PROVE RowInv'
  BY <1>8 DEF Dequeue
<1>9. ASSUME NEW h \in Handlers, HandleExampleTask(h) PROVE RowInv'
  <2>1. UNCHANGED <<payload, status, labels>>
    BY <1>9 DEF HandleExampleTask
  <2>2. ASSUME NEW t \in Tasks
        PROVE  /\ rows[t] \in Nat /\ rows'[t] \in Nat
               /\ rows'[t] = rows[t] \/ rows'[t] > rows[t]
               /\ rows'[t] > rows[t] => Readable(t)
               /\ rows'[t] > rows[t] => (payload[t].keyed => rows'[t] = 1)
    <3>1. CASE t = go[h].task
      BY <1>9, <3>1, HandleEffect
    <3>2. CASE t # go[h].task
      BY <1>9, <3>2, HandleEffect
    <3>3. QED
      BY <3>1, <3>2
  <2>3. \A t \in Tasks : rows[t] > 0 => rows'[t] > 0
    BY <2>2
  <2>9. /\ \A t \in consumed : t \in consumed'
        /\ \A t \in consumed' : Readable(t)
    BY <1>9, HandleEffect
  <2>4. ResultIsTrue'
    <3>1. SUFFICES ASSUME NEW g \in Handlers, go'[g].result = "ok"
                   PROVE  rows'[go'[g].task] > 0 \/ go'[g].task \in consumed'
      OBVIOUS
    <3>2. CASE g = h
      BY <1>9, <3>1, <3>2, HandleEffect
    <3>3. CASE g # h
      <4>1. /\ go'[g] = go[g] /\ go[g].task \in Tasks
            /\ rows[go[g].task] > 0 \/ go[g].task \in consumed
        BY <1>9, <3>1, <3>3, HandleEffect
      <4>2. QED
        BY <2>3, <2>9, <4>1
    <3>4. QED
      BY <3>2, <3>3
  <2>5. RowIsReadable' /\ ConsumedIsReadable'
    BY <2>1, <2>2, <2>9
  <2>6. AtMostOneRowPerKey'
    BY <2>1, <2>2
  <2>7. DoneLeavesRow' /\ SuccessLabelIsTrue'
    BY <2>1, <2>3, <2>9
  <2>8. QED
    BY <2>4, <2>5, <2>6, <2>7
<1>10. ASSUME NEW h \in Handlers, HandlerReturns(h) PROVE RowInv'
  BY <1>10 DEF HandlerReturns, TaskStatus
<1>11. ASSUME NEW h \in Handlers, ResultArrives(h) PROVE RowInv'
  BY <1>11 DEF ResultArrives, StopWaiting, HoldsLease, Release, FailTask, Archives
<1>12. ASSUME NEW h \in Handlers, TaskTimesOut(h) PROVE RowInv'
  BY <1>12 DEF TaskTimesOut, StopWaiting, HoldsLease, Release, FailTask, Archives
<1>13. ASSUME NEW h \in Handlers, LeaseLost(h) PROVE RowInv'
  BY <1>13 DEF LeaseLost, StopWaiting
<1>14. ASSUME NEW h \in Handlers, AbortTask(h) PROVE RowInv'
  BY <1>14 DEF AbortTask, StopWaiting, HoldsLease, Release
<1>15. ASSUME NEW w \in Workers, StopWorker(w) PROVE RowInv'
  BY <1>15 DEF StopWorker
<1>16. ASSUME NEW w \in Workers, WorkerExits(w) PROVE RowInv'
  BY <1>16 DEF WorkerExits, Vanish
<1>17. ASSUME NEW w \in Workers, WorkerCrashes(w) PROVE RowInv'
  BY <1>17 DEF WorkerCrashes, Vanish
<1>18. ASSUME NEW w \in Workers, WorkerStarts(w) PROVE RowInv'
  BY <1>18 DEF WorkerStarts
<1>19. CASE UNCHANGED vars
  BY <1>19 DEF vars
<1>20. QED
  BY <1>1, <1>2, <1>3, <1>4, <1>5, <1>6, <1>7, <1>8, <1>9, <1>10, <1>11, <1>12, <1>13,
     <1>14, <1>15, <1>16, <1>17, <1>18, <1>19
     DEF Next, ApiNext, RedisNext, HandlerNext, WorkerNext

(* The three terms of AttemptsAccounted move together.                      *)
LEMMA AttemptsStep ==
  TypeInv /\ StatusInv /\ AttemptsAccounted /\ [Next]_vars => AttemptsAccounted'
<1> SUFFICES ASSUME TypeInv, StatusInv, AttemptsAccounted, [Next]_vars PROVE AttemptsAccounted'
  OBVIOUS
<1> USE ConstantsAssumption DEF TypeInv, TypeOK, WaitingIsLive, StatusInv, EnqueuedFirst,
        HandlersHaveTasks, LeaseIsActive, AttemptsAccounted,
        apiVars, redisVars, effectVars, workerVars, goVars, histVars, Goroutine, NoGoroutine
<1>1. ASSUME NEW t \in Tasks, EnqueueTask(t) PROVE AttemptsAccounted'
  BY <1>1 DEF EnqueueTask, NewExampleTask
<1>2. ASSUME NEW t \in Tasks, RedisAccepts(t) PROVE AttemptsAccounted'
  BY <1>2 DEF RedisAccepts
<1>3. ASSUME NEW t \in Tasks, EnqueueReturns(t) PROVE AttemptsAccounted'
  BY <1>3 DEF EnqueueReturns
<1>4. ASSUME NEW t \in Tasks, OtherProducer(t) PROVE AttemptsAccounted'
  BY <1>4 DEF OtherProducer
<1>5. ASSUME NEW t \in Tasks, LeaseExpires(t) PROVE AttemptsAccounted'
  BY <1>5 DEF LeaseExpires, Release
<1>6. ASSUME NEW t \in Tasks, Recover(t) PROVE AttemptsAccounted'
  BY <1>6 DEF Recover, FailTask, Archives
<1>7. ASSUME NEW t \in Tasks, Forward(t) PROVE AttemptsAccounted'
  BY <1>7 DEF Forward
<1>8. ASSUME NEW t \in Tasks, NEW h \in Handlers, Dequeue(h, t) PROVE AttemptsAccounted'
  BY <1>8 DEF Dequeue
<1>9. ASSUME NEW h \in Handlers, HandleExampleTask(h) PROVE AttemptsAccounted'
  BY <1>9 DEF HandleExampleTask, InsertExample, ProcessResult
<1>10. ASSUME NEW h \in Handlers, HandlerReturns(h) PROVE AttemptsAccounted'
  BY <1>10 DEF HandlerReturns, TaskStatus
<1>11. ASSUME NEW h \in Handlers, ResultArrives(h) PROVE AttemptsAccounted'
  BY <1>11 DEF ResultArrives, StopWaiting, HoldsLease, Release, FailTask, Archives
<1>12. ASSUME NEW h \in Handlers, TaskTimesOut(h) PROVE AttemptsAccounted'
  BY <1>12 DEF TaskTimesOut, StopWaiting, HoldsLease, Release, FailTask, Archives
<1>13. ASSUME NEW h \in Handlers, LeaseLost(h) PROVE AttemptsAccounted'
  BY <1>13 DEF LeaseLost, StopWaiting
<1>14. ASSUME NEW h \in Handlers, AbortTask(h) PROVE AttemptsAccounted'
  BY <1>14 DEF AbortTask, StopWaiting, HoldsLease, Release
<1>15. ASSUME NEW w \in Workers, StopWorker(w) PROVE AttemptsAccounted'
  BY <1>15 DEF StopWorker
<1>16. ASSUME NEW w \in Workers, WorkerExits(w) PROVE AttemptsAccounted'
  BY <1>16 DEF WorkerExits, Vanish
<1>17. ASSUME NEW w \in Workers, WorkerCrashes(w) PROVE AttemptsAccounted'
  BY <1>17 DEF WorkerCrashes, Vanish
<1>18. ASSUME NEW w \in Workers, WorkerStarts(w) PROVE AttemptsAccounted'
  BY <1>18 DEF WorkerStarts
<1>19. CASE UNCHANGED vars
  BY <1>19 DEF vars
<1>20. QED
  BY <1>1, <1>2, <1>3, <1>4, <1>5, <1>6, <1>7, <1>8, <1>9, <1>10, <1>11, <1>12, <1>13,
     <1>14, <1>15, <1>16, <1>17, <1>18, <1>19
     DEF Next, ApiNext, RedisNext, HandlerNext, WorkerNext

-----------------------------------------------------------------------------
LEMMA InitIInv == Init => IInv
<1> SUFFICES ASSUME Init PROVE IInv
  OBVIOUS
<1> USE ConstantsAssumption DEF Init
<1>1. TypeInv
  <2>1. TypeOK
    BY DEF TypeOK, Payload, NoPayload, NoGoroutine
  <2>2. WaitingIsLive /\ DeployedMayRun
    BY DEF WaitingIsLive, DeployedMayRun
  <2>3. QED
    BY <2>1, <2>2 DEF TypeInv
<1>2. StatusInv
  BY DEF StatusInv, EnqueuedFirst, HandlersHaveTasks, LeaseIsActive, NoGoroutine
<1>3. RowInv
  BY DEF RowInv, RowIsReadable, ConsumedIsReadable, ResultIsTrue, AtMostOneRowPerKey, DoneLeavesRow,
         SuccessLabelIsTrue, NoGoroutine
<1>4. AttemptsAccounted
  BY DEF AttemptsAccounted
<1>5. QED
  BY <1>1, <1>2, <1>3, <1>4 DEF IInv

LEMMA NextIInv == IInv /\ [Next]_vars => IInv'
BY TypeStep, StatusStep, RowStep, AttemptsStep DEF IInv

(* The invariant, for any number of tasks, workers and goroutines, any      *)
(* retry budget and any number of shutdowns, crashes and lost leases.       *)
THEOREM Invariance == Spec => []IInv
BY InitIInv, NextIInv, PTL DEF Spec

(* The variables keep their types.                                          *)
THEOREM TypeCorrect == Spec => []TypeOK
<1>1. IInv => TypeOK
  BY DEF IInv, TypeInv
<1>2. QED
  BY <1>1, Invariance, PTL

(* Exactly-once, first half: never a second row for a task_key.             *)
THEOREM AtMostOnce == Spec => []AtMostOneRowPerKey
<1>1. IInv => AtMostOneRowPerKey
  BY DEF IInv, RowInv
<1>2. QED
  BY <1>1, Invariance, PTL

(* Exactly-once, second half: no acknowledged task without its row, but one *)
(* that a worker outside production consumed with no database.              *)
THEOREM NoLostEffect == Spec => []DoneLeavesRow
<1>1. IInv => DoneLeavesRow
  BY DEF IInv, RowInv
<1>2. QED
  BY <1>1, Invariance, PTL

(* A success in the metrics is a row, or the no-op of a worker outside      *)
(* production.                                                              *)
THEOREM SuccessIsTrue == Spec => []SuccessLabelIsTrue
<1>1. IInv => SuccessLabelIsTrue
  BY DEF IInv, RowInv
<1>2. QED
  BY <1>1, Invariance, PTL

(* What this release cannot read it neither processes nor acknowledges.     *)
THEOREM UnreadableIsKept == Spec => []UnreadableNeverProcessed
<1>1. IInv => UnreadableNeverProcessed
  BY DEF IInv, TypeInv, TypeOK, Payload, RowInv, RowIsReadable, ConsumedIsReadable, Readable, Contains,
         CurrentSupported, PayloadSchemaVersion, DoneLeavesRow, SuccessLabelIsTrue,
         UnreadableNeverProcessed
<1>2. QED
  BY <1>1, Invariance, PTL

(* The retry budget pays for every attempt but the ones a shutdown gave     *)
(* back.                                                                    *)
THEOREM BudgetIsExact == Spec => []AttemptsAccounted
<1>1. IInv => AttemptsAccounted
  BY DEF IInv
<1>2. QED
  BY <1>1, Invariance, PTL

-----------------------------------------------------------------------------
(* The refinement.                                                          *)

AStep == [Effect!Next]_(Effect!avars)

(* A step that moves neither the rows nor the verdict, nor the payload of a *)
(* task that is in Redis, is invisible.                                     *)
LEMMA Invisible ==
  ASSUME TypeOK, UNCHANGED effectVars, UNCHANGED Verdict,
         \A t \in Tasks : status[t] # "absent" \/ status'[t] # "absent" =>
                            status'[t] # "absent" /\ status[t] # "absent" /\ payload'[t] = payload[t]
  PROVE  AStep
<1>1. UNCHANGED KeyedTasks
  BY DEF KeyedTasks
<1>2. QED
  BY <1>1 DEF AStep, Effect!avars, effectVars

(* Failing an active task is giving up on it, or invisible.                 *)
LEMMA FailTaskStep ==
  ASSUME TypeOK, TypeOK', NEW t \in Tasks, NEW res, status[t] = "active",
         FailTask(t, res), UNCHANGED <<payload, effectVars>>
  PROVE  AStep
<1> USE DEF TypeOK, effectVars
<1>1. CASE Archives(t, res)
  <2>1. status' = [status EXCEPT ![t] = "archived"]
    BY <1>1 DEF FailTask
  <2>2. \A u \in Tasks : status'[u] = IF u = t THEN "archived" ELSE status[u]
    BY <2>1
  <2>3. Verdict[t] = "open" /\ Verdict' = [Verdict EXCEPT ![t] = "dead"]
    BY <2>2 DEF Verdict
  <2>4. UNCHANGED KeyedTasks
    BY <2>1 DEF KeyedTasks
  <2>5. Effect!GiveUp(t)
    BY <2>3, <2>4 DEF Effect!GiveUp
  <2>6. QED
    BY <2>5 DEF AStep, Effect!Next
<1>2. CASE ~Archives(t, res)
  <2>1. status' = [status EXCEPT ![t] = "retry"]
    BY <1>2 DEF FailTask
  <2>2. \A u \in Tasks : status'[u] = IF u = t THEN "retry" ELSE status[u]
    BY <2>1
  <2>3. UNCHANGED Verdict
    BY <2>2 DEF Verdict
  <2>4. QED
    BY <2>2, <2>3, Invisible
<1>3. QED
  BY <1>1, <1>2

LEMMA RefinementInit == Init => Effect!Init
BY DEF Init, Effect!Init, KeyedTasks, Verdict

LEMMA RefinementStep == IInv /\ IInv' /\ [Next]_vars => AStep
<1> SUFFICES ASSUME IInv, IInv', [Next]_vars PROVE AStep
  OBVIOUS
<1>0. /\ TypeOK /\ TypeOK' /\ WaitingIsLive /\ EnqueuedFirst /\ HandlersHaveTasks /\ LeaseIsActive
      /\ DoneLeavesRow /\ AtMostOneRowPerKey /\ ResultIsTrue
  BY DEF IInv, TypeInv, StatusInv, RowInv
<1>a. ASSUME NEW h \in waiting, HoldsLease(h)
      PROVE  go[h] \in Goroutine /\ go[h].task \in Tasks /\ status[go[h].task] = "active"
  BY <1>0, <1>a, ConstantsAssumption
     DEF HoldsLease, LeaseIsActive, WaitingIsLive, TypeOK, Goroutine, NoGoroutine
<1>b. ASSUME UNCHANGED <<payload, status, effectVars>> PROVE AStep
  <2>1. UNCHANGED Verdict
    BY <1>b DEF Verdict
  <2>2. QED
    BY <1>0, <1>b, <2>1, Invisible
<1> USE DEF apiVars, redisVars, effectVars, workerVars, goVars, histVars
<1>1. ASSUME NEW t \in Tasks, EnqueueTask(t) PROVE AStep
  <2>1. UNCHANGED effectVars /\ UNCHANGED Verdict
    BY <1>1 DEF EnqueueTask, Verdict
  <2>2. status[t] = "absent" /\ UNCHANGED status /\ \A u \in Tasks \ {t} : payload'[u] = payload[u]
    BY <1>0, <1>1 DEF EnqueueTask, EnqueuedFirst, TypeOK
  <2>3. QED
    BY <1>0, <2>1, <2>2, Invisible
<1>2. ASSUME NEW t \in Tasks, RedisAccepts(t) PROVE AStep
  <2>1. /\ Verdict[t] = "absent" /\ Verdict' = [Verdict EXCEPT ![t] = "open"]
        /\ UNCHANGED effectVars
    BY <1>0, <1>2 DEF RedisAccepts, Verdict, TypeOK
  <2>2. KeyedTasks' = IF payload[t].keyed THEN KeyedTasks \union {t} ELSE KeyedTasks
    BY <1>0, <1>2 DEF RedisAccepts, KeyedTasks, TypeOK
  <2>3. payload[t].keyed \in BOOLEAN
    BY <1>0 DEF TypeOK, Payload
  <2>4. Effect!Submit(t, payload[t].keyed)
    BY <2>1, <2>2 DEF Effect!Submit
  <2>5. QED
    BY <2>3, <2>4 DEF AStep, Effect!Next
<1>3. ASSUME NEW t \in Tasks, EnqueueReturns(t) PROVE AStep
  BY <1>3, <1>b DEF EnqueueReturns
<1>4. ASSUME NEW t \in Tasks, OtherProducer(t) PROVE AStep
  <2>0. /\ status[t] = "absent" /\ UNCHANGED effectVars
        /\ \A u \in Tasks : status'[u] = IF u = t THEN "pending" ELSE status[u]
    BY <1>0, <1>4 DEF OtherProducer, TypeOK, EnqueuedFirst
  <2>1. Verdict[t] = "absent" /\ Verdict' = [Verdict EXCEPT ![t] = "open"]
    BY <2>0 DEF Verdict
  <2>2. PICK p \in OtherPayloads : payload' = [payload EXCEPT ![t] = p]
    BY <1>4 DEF OtherProducer
  <2>3. p.keyed \in BOOLEAN
    BY <2>2, ConstantsAssumption DEF Payload
  <2>4. KeyedTasks' = IF p.keyed THEN KeyedTasks \union {t} ELSE KeyedTasks
    BY <1>0, <1>4, <2>2 DEF OtherProducer, KeyedTasks, TypeOK, EnqueuedFirst
  <2>5. Effect!Submit(t, p.keyed)
    BY <2>0, <2>1, <2>4 DEF Effect!Submit
  <2>6. QED
    BY <2>3, <2>5 DEF AStep, Effect!Next
<1>5. ASSUME NEW t \in Tasks, LeaseExpires(t) PROVE AStep
  BY <1>5, <1>b DEF LeaseExpires
<1>6. ASSUME NEW t \in Tasks, Recover(t) PROVE AStep
  BY <1>0, <1>6, FailTaskStep DEF Recover
<1>7. ASSUME NEW t \in Tasks, Forward(t) PROVE AStep
  <2>1. UNCHANGED Verdict
    BY <1>0, <1>7 DEF Forward, Verdict, TypeOK
  <2>2. QED
    BY <1>0, <1>7, <2>1, Invisible DEF Forward, TypeOK
<1>8. ASSUME NEW t \in Tasks, NEW h \in Handlers, Dequeue(h, t) PROVE AStep
  <2>1. UNCHANGED Verdict
    BY <1>0, <1>8 DEF Dequeue, Verdict, TypeOK
  <2>2. QED
    BY <1>0, <1>8, <2>1, Invisible DEF Dequeue, TypeOK
<1>9. ASSUME NEW h \in Handlers, HandleExampleTask(h) PROVE AStep
  <2> DEFINE t == go[h].task
  <2>1. t \in Tasks /\ status[t] # "absent"
    BY <1>0, <1>9 DEF HandleExampleTask, HandlersHaveTasks, TypeOK, Goroutine, NoGoroutine
  <2>2. UNCHANGED <<payload, status>>
    BY <1>9 DEF HandleExampleTask
  <2>3. UNCHANGED KeyedTasks /\ UNCHANGED Verdict
    BY <2>2 DEF KeyedTasks, Verdict
  <2>4. CASE UNCHANGED effectVars
    BY <1>b, <2>2, <2>4
  <2>7. CASE UNCHANGED rows /\ consumed' = consumed \union {t}
    <3>1. Effect!Waive(t)
      BY <1>0, <2>1, <2>3, <2>7 DEF Effect!Waive, Verdict
    <3>2. QED
      BY <2>1, <3>1 DEF AStep, Effect!Next
  <2>5. CASE UNCHANGED consumed /\ rows' = [rows EXCEPT ![t] = @ + 1] /\ (payload[t].keyed => rows[t] = 0)
    <3>1. Effect!Apply(t)
      BY <1>0, <2>1, <2>3, <2>5 DEF Effect!Apply, KeyedTasks, Verdict, TypeOK
    <3>2. QED
      BY <2>1, <3>1 DEF AStep, Effect!Next
  <2>6. QED
    <3>1. \/ UNCHANGED effectVars
          \/ UNCHANGED consumed /\ rows' = InsertExample(t)
          \/ UNCHANGED rows /\ consumed' = consumed \union {t}
      BY <1>9 DEF HandleExampleTask
    <3>2. CASE UNCHANGED consumed /\ rows' = InsertExample(t)
      <4>1. CASE payload[t].keyed /\ rows[t] > 0
        BY <1>0, <2>1, <2>4, <3>2, <4>1 DEF InsertExample, TypeOK
      <4>2. CASE ~(payload[t].keyed /\ rows[t] > 0)
        <5>1. rows[t] \in Nat
          BY <1>0, <2>1 DEF TypeOK
        <5>2. payload[t].keyed => rows[t] = 0
          BY <4>2, <5>1
        <5>3. rows' = [rows EXCEPT ![t] = rows[t] + 1]
          BY <3>2, <4>2 DEF InsertExample
        <5>4. QED
          BY <2>5, <3>2, <5>2, <5>3
      <4>3. QED
        BY <4>1, <4>2
    <3>3. QED
      BY <2>4, <2>7, <3>1, <3>2
<1>10. ASSUME NEW h \in Handlers, HandlerReturns(h) PROVE AStep
  BY <1>10, <1>b DEF HandlerReturns
<1>11. ASSUME NEW h \in Handlers, ResultArrives(h) PROVE AStep
  <2> DEFINE t == go[h].task
  <2>0. h \in waiting /\ UNCHANGED <<payload, effectVars>>
    BY <1>11 DEF ResultArrives
  <2>1. CASE ~HoldsLease(h)
    BY <1>11, <1>b, <2>1 DEF ResultArrives
  <2>2. CASE HoldsLease(h) /\ go[h].result = "ok"
    <3>1. t \in Tasks /\ status[t] = "active" /\ status' = [status EXCEPT ![t] = "done"]
      BY <1>11, <1>a, <2>0, <2>2 DEF ResultArrives
    <3>2. Verdict[t] = "open" /\ Verdict' = [Verdict EXCEPT ![t] = "done"]
      BY <1>0, <3>1 DEF Verdict, TypeOK
    <3>3. (rows[t] > 0 \/ t \in consumed) /\ UNCHANGED KeyedTasks
      BY <1>0, <2>0, <2>2, <3>1 DEF KeyedTasks, ResultIsTrue, TypeOK
    <3>4. Effect!Complete(t)
      BY <2>0, <3>2, <3>3 DEF Effect!Complete
    <3>5. QED
      BY <3>1, <3>4 DEF AStep, Effect!Next
  <2>3. CASE HoldsLease(h) /\ go[h].result # "ok"
    <3>1. t \in Tasks /\ status[t] = "active" /\ FailTask(t, go[h].result)
      BY <1>11, <1>a, <2>0, <2>3 DEF ResultArrives
    <3>2. QED
      BY <1>0, <2>0, <3>1, FailTaskStep
  <2>4. QED
    BY <2>1, <2>2, <2>3
<1>12. ASSUME NEW h \in Handlers, TaskTimesOut(h) PROVE AStep
  <2>1. CASE ~HoldsLease(h)
    BY <1>12, <1>b, <2>1 DEF TaskTimesOut
  <2>2. CASE HoldsLease(h)
    <3>1. /\ go[h].task \in Tasks /\ status[go[h].task] = "active"
          /\ FailTask(go[h].task, "error") /\ UNCHANGED <<payload, effectVars>>
      BY <1>12, <1>a, <2>2 DEF TaskTimesOut
    <3>2. QED
      BY <1>0, <3>1, FailTaskStep
  <2>3. QED
    BY <2>1, <2>2
<1>13. ASSUME NEW h \in Handlers, LeaseLost(h) PROVE AStep
  BY <1>13, <1>b DEF LeaseLost
<1>14. ASSUME NEW h \in Handlers, AbortTask(h) PROVE AStep
  <2>1. CASE ~HoldsLease(h)
    BY <1>14, <1>b, <2>1 DEF AbortTask
  <2>2. CASE HoldsLease(h)
    <3>1. /\ go[h].task \in Tasks /\ status[go[h].task] = "active"
          /\ status' = [status EXCEPT ![go[h].task] = "pending"] /\ UNCHANGED <<payload, effectVars>>
      BY <1>14, <1>a, <2>2 DEF AbortTask
    <3>2. UNCHANGED Verdict
      BY <1>0, <3>1 DEF Verdict, TypeOK
    <3>3. QED
      BY <1>0, <3>1, <3>2, Invisible DEF TypeOK
  <2>3. QED
    BY <2>1, <2>2
<1>15. ASSUME NEW w \in Workers, WorkerNext(w) PROVE AStep
  BY <1>15, <1>b DEF WorkerNext, StopWorker, WorkerExits, WorkerCrashes, WorkerStarts, Vanish
<1>16. CASE UNCHANGED vars
  BY <1>16, <1>b DEF vars
<1>17. QED
  BY <1>1, <1>2, <1>3, <1>4, <1>5, <1>6, <1>7, <1>8, <1>9, <1>10, <1>11, <1>12, <1>13,
     <1>14, <1>15, <1>16 DEF Next, ApiNext, RedisNext, HandlerNext

(* The pipeline, with all its retries, leases and orphans, is the simple    *)
(* promise: an effect at most once per key, before the task is done unless  *)
(* it was waived.                                                           *)
THEOREM Refinement == Spec => EffectSpec
<1>1. Init => Effect!Init
  BY RefinementInit
<1>2. IInv /\ IInv' /\ [Next]_vars => [Effect!Next]_(Effect!avars)
  BY RefinementStep DEF AStep
<1>3. QED
  BY <1>1, <1>2, Invariance, PTL DEF Spec, EffectSpec, Effect!Spec

-----------------------------------------------------------------------------
(* That dead letters are visible, as long as nothing is disrupted.          *)

(* Nobody stops, and a processor that waits holds the lease, in the attempt *)
(* its handler was started for.                                             *)
Undisturbed ==
  /\ \A w \in Workers : wstate[w] = "up"
  /\ \A t \in Tasks :
       /\ status[t] = "active" => lease[t] # NoHandler
       /\ lease[t] # NoHandler => lease[t] \in waiting /\ go[lease[t]].task = t
  /\ \A h \in waiting : HoldsLease(h) /\ go[h].seen = retried[go[h].task]

(* A handler that returned was counted.                                     *)
CountedInv ==
  \A h \in Handlers :
    /\ go[h].phase \in {"ran", "returned"} => go[h].result \in {"ok", "error", "skip"}
    /\ go[h].phase = "returned" => TaskStatus(go[h].result, go[h].seen) \in labels[go[h].task]

Visible(t) == "success" \in labels[t] \/ "failure" \in labels[t]

(* An archived task was counted, or its last handler has yet to return.     *)
LastIsComing(t, h) ==
  go[h].task = t /\ go[h].phase \in {"running", "ran"} /\ go[h].seen >= MaxRetry

ArchivedInv ==
  \A t \in Tasks :
    status[t] = "archived" => Visible(t) \/ \E h \in Handlers : LastIsComing(t, h)

CalmInv == CountedInv /\ (disruptions = 0 => Undisturbed /\ ArchivedInv)

(* A run of the handler leaves the retry count in its context alone.        *)
LEMMA HandleSeen ==
  ASSUME TypeInv, NEW h \in Handlers, HandleExampleTask(h)
  PROVE  go'[h].seen = go[h].seen
<1>1. PICK res \in {"ok", "error", "skip"} :
          go' = [go EXCEPT ![h] = [@ EXCEPT !.phase = "ran", !.result = res]]
  BY DEF HandleExampleTask, ProcessResult
<1>2. go[h] \in Goroutine
  BY HandleEffect
<1>3. QED
  BY <1>1, <1>2 DEF TypeInv, TypeOK, Goroutine

(* Disruptions are only counted up.                                         *)
LEMMA DisruptionsStep ==
  TypeInv /\ [Next]_vars /\ disruptions' = 0 => disruptions = 0
<1> SUFFICES ASSUME TypeInv, [Next]_vars PROVE disruptions' \in {disruptions, disruptions + 1}
  BY DEF TypeInv, TypeOK
<1> USE DEF vars, apiVars, redisVars, effectVars, workerVars, goVars, histVars, Disrupt
<1>1. ASSUME NEW t \in Tasks, ApiNext(t) \/ RedisNext(t)
      PROVE  disruptions' \in {disruptions, disruptions + 1}
  BY <1>1 DEF ApiNext, RedisNext, EnqueueTask, RedisAccepts, EnqueueReturns, OtherProducer,
              LeaseExpires, Recover, Forward, Dequeue
<1>2. ASSUME NEW h \in Handlers, HandlerNext(h)
      PROVE  disruptions' \in {disruptions, disruptions + 1}
  BY <1>2 DEF HandlerNext, HandleExampleTask, HandlerReturns, ResultArrives, TaskTimesOut,
              LeaseLost, AbortTask
<1>3. ASSUME NEW w \in Workers, WorkerNext(w)
      PROVE  disruptions' \in {disruptions, disruptions + 1}
  BY <1>3 DEF WorkerNext, StopWorker, WorkerExits, WorkerCrashes, WorkerStarts, Vanish
<1>4. QED
  BY <1>1, <1>2, <1>3 DEF Next

(* A handler is counted as it returns, and what it returned stays.          *)
LEMMA CountedStep ==
  TypeInv /\ CountedInv /\ [Next]_vars => CountedInv'
<1> SUFFICES ASSUME TypeInv, CountedInv, [Next]_vars PROVE CountedInv'
  OBVIOUS
<1> USE ConstantsAssumption DEF TypeInv, TypeOK, WaitingIsLive, CountedInv, TaskStatus,
        apiVars, redisVars, effectVars, workerVars, goVars, histVars, Goroutine, NoGoroutine
<1>1. ASSUME NEW t \in Tasks, EnqueueTask(t) PROVE CountedInv'
  BY <1>1 DEF EnqueueTask, NewExampleTask
<1>2. ASSUME NEW t \in Tasks, RedisAccepts(t) PROVE CountedInv'
  BY <1>2 DEF RedisAccepts
<1>3. ASSUME NEW t \in Tasks, EnqueueReturns(t) PROVE CountedInv'
  BY <1>3 DEF EnqueueReturns
<1>4. ASSUME NEW t \in Tasks, OtherProducer(t) PROVE CountedInv'
  BY <1>4 DEF OtherProducer
<1>5. ASSUME NEW t \in Tasks, LeaseExpires(t) PROVE CountedInv'
  BY <1>5 DEF LeaseExpires, Release, Disrupt
<1>6. ASSUME NEW t \in Tasks, Recover(t) PROVE CountedInv'
  BY <1>6 DEF Recover, FailTask, Archives
<1>7. ASSUME NEW t \in Tasks, Forward(t) PROVE CountedInv'
  BY <1>7 DEF Forward
<1>8. ASSUME NEW t \in Tasks, NEW h \in Handlers, Dequeue(h, t) PROVE CountedInv'
  BY <1>8 DEF Dequeue
<1>9. ASSUME NEW h \in Handlers, HandleExampleTask(h) PROVE CountedInv'
  <2>1. PICK res \in {"ok", "error", "skip"} :
            go' = [go EXCEPT ![h] = [@ EXCEPT !.phase = "ran", !.result = res]]
    BY <1>9 DEF HandleExampleTask, ProcessResult
  <2>2. go[h] \in Goroutine /\ UNCHANGED labels
    BY <1>9 DEF HandleExampleTask
  <2>3. go'[h].phase = "ran" /\ go'[h].result = res /\ \A g \in Handlers \ {h} : go'[g] = go[g]
    BY <2>1, <2>2
  <2>4. QED
    BY <2>2, <2>3
<1>10. ASSUME NEW h \in Handlers, HandlerReturns(h) PROVE CountedInv'
  BY <1>10 DEF HandlerReturns, TaskStatus
<1>11. ASSUME NEW h \in Handlers, ResultArrives(h) PROVE CountedInv'
  BY <1>11 DEF ResultArrives, StopWaiting, Release, FailTask, Archives
<1>12. ASSUME NEW h \in Handlers, TaskTimesOut(h) PROVE CountedInv'
  BY <1>12 DEF TaskTimesOut, StopWaiting, Release, FailTask, Archives
<1>13. ASSUME NEW h \in Handlers, LeaseLost(h) PROVE CountedInv'
  BY <1>13 DEF LeaseLost, StopWaiting
<1>14. ASSUME NEW h \in Handlers, AbortTask(h) PROVE CountedInv'
  BY <1>14 DEF AbortTask, StopWaiting, Release
<1>15. ASSUME NEW w \in Workers, StopWorker(w) PROVE CountedInv'
  BY <1>15 DEF StopWorker, Disrupt
<1>16. ASSUME NEW w \in Workers, WorkerExits(w) PROVE CountedInv'
  BY <1>16 DEF WorkerExits, Vanish
<1>17. ASSUME NEW w \in Workers, WorkerCrashes(w) PROVE CountedInv'
  BY <1>17 DEF WorkerCrashes, Vanish, Disrupt
<1>18. ASSUME NEW w \in Workers, WorkerStarts(w) PROVE CountedInv'
  BY <1>18 DEF WorkerStarts
<1>19. CASE UNCHANGED vars
  BY <1>19 DEF vars
<1>20. QED
  BY <1>1, <1>2, <1>3, <1>4, <1>5, <1>6, <1>7, <1>8, <1>9, <1>10, <1>11, <1>12, <1>13,
     <1>14, <1>15, <1>16, <1>17, <1>18, <1>19
     DEF Next, ApiNext, RedisNext, HandlerNext, WorkerNext

(* While nothing is disrupted a lease ends only with the wait for its       *)
(* handler.                                                                 *)
LEMMA UndisturbedStep ==
  TypeInv /\ StatusInv /\ (disruptions = 0 => Undisturbed) /\ [Next]_vars
    => (disruptions' = 0 => Undisturbed')
<1> SUFFICES ASSUME TypeInv, StatusInv, Undisturbed,
                    disruptions = 0, disruptions' = 0, [Next]_vars
             PROVE  Undisturbed'
  BY DisruptionsStep
<1> USE ConstantsAssumption DEF TypeInv, TypeOK, WaitingIsLive, StatusInv, EnqueuedFirst,
        HandlersHaveTasks, LeaseIsActive, Undisturbed, HoldsLease,
        apiVars, redisVars, effectVars, workerVars, goVars, histVars, Goroutine, NoGoroutine
<1>1. ASSUME NEW t \in Tasks, EnqueueTask(t) PROVE Undisturbed'
  BY <1>1 DEF EnqueueTask, NewExampleTask
<1>2. ASSUME NEW t \in Tasks, RedisAccepts(t) PROVE Undisturbed'
  BY <1>2 DEF RedisAccepts
<1>3. ASSUME NEW t \in Tasks, EnqueueReturns(t) PROVE Undisturbed'
  BY <1>3 DEF EnqueueReturns
<1>4. ASSUME NEW t \in Tasks, OtherProducer(t) PROVE Undisturbed'
  BY <1>4 DEF OtherProducer
<1>5. ASSUME NEW t \in Tasks, LeaseExpires(t) PROVE Undisturbed'
  BY <1>5 DEF LeaseExpires, Release, Disrupt
<1>6. ASSUME NEW t \in Tasks, Recover(t) PROVE Undisturbed'
  BY <1>6 DEF Recover, FailTask, Archives
<1>7. ASSUME NEW t \in Tasks, Forward(t) PROVE Undisturbed'
  BY <1>7 DEF Forward
<1>8. ASSUME NEW t \in Tasks, NEW h \in Handlers, Dequeue(h, t) PROVE Undisturbed'
  BY <1>8 DEF Dequeue
<1>9. ASSUME NEW h \in Handlers, HandleExampleTask(h) PROVE Undisturbed'
  <2>1. /\ go'[h].task = go[h].task
        /\ \A g \in Handlers \ {h} : go'[g] = go[g]
    BY <1>9, HandleEffect
  <2>2. go'[h].seen = go[h].seen
    BY <1>9, HandleSeen
  <2>3. UNCHANGED <<wstate, status, lease, waiting, retried>>
    BY <1>9 DEF HandleExampleTask
  <2>4. \A g \in Handlers : go'[g].task = go[g].task /\ go'[g].seen = go[g].seen
    BY <2>1, <2>2
  <2>5. QED
    BY <2>3, <2>4
<1>10. ASSUME NEW h \in Handlers, HandlerReturns(h) PROVE Undisturbed'
  BY <1>10 DEF HandlerReturns, TaskStatus
<1>11. ASSUME NEW h \in Handlers, ResultArrives(h) PROVE Undisturbed'
  BY <1>11 DEF ResultArrives, StopWaiting, Release, FailTask, Archives
<1>12. ASSUME NEW h \in Handlers, TaskTimesOut(h) PROVE Undisturbed'
  BY <1>12 DEF TaskTimesOut, StopWaiting, Release, FailTask, Archives
<1>13. ASSUME NEW h \in Handlers, LeaseLost(h) PROVE Undisturbed'
  BY <1>13 DEF LeaseLost, StopWaiting
<1>14. ASSUME NEW h \in Handlers, AbortTask(h) PROVE Undisturbed'
  BY <1>14 DEF AbortTask, StopWaiting, Release
<1>15. ASSUME NEW w \in Workers, StopWorker(w) PROVE Undisturbed'
  BY <1>15 DEF StopWorker, Disrupt
<1>16. ASSUME NEW w \in Workers, WorkerExits(w) PROVE Undisturbed'
  BY <1>16 DEF WorkerExits, Vanish
<1>17. ASSUME NEW w \in Workers, WorkerCrashes(w) PROVE Undisturbed'
  BY <1>17 DEF WorkerCrashes, Vanish, Disrupt
<1>18. ASSUME NEW w \in Workers, WorkerStarts(w) PROVE Undisturbed'
  BY <1>18 DEF WorkerStarts
<1>19. CASE UNCHANGED vars
  BY <1>19 DEF vars
<1>20. QED
  BY <1>1, <1>2, <1>3, <1>4, <1>5, <1>6, <1>7, <1>8, <1>9, <1>10, <1>11, <1>12, <1>13,
     <1>14, <1>15, <1>16, <1>17, <1>18, <1>19
     DEF Next, ApiNext, RedisNext, HandlerNext, WorkerNext

(* A task is archived by its last attempt, which was counted before its     *)
(* result arrived or is still running.                                      *)
LEMMA ArchivedStep ==
  TypeInv /\ StatusInv /\ CountedInv /\ (disruptions = 0 => Undisturbed /\ ArchivedInv)
    /\ [Next]_vars => (disruptions' = 0 => ArchivedInv')
<1> SUFFICES ASSUME TypeInv, StatusInv, CountedInv, Undisturbed, ArchivedInv,
                    disruptions = 0, disruptions' = 0, [Next]_vars
             PROVE  ArchivedInv'
  BY DisruptionsStep
<1> USE ConstantsAssumption DEF TypeInv, TypeOK, WaitingIsLive, StatusInv, EnqueuedFirst,
        HandlersHaveTasks, LeaseIsActive, CountedInv, Undisturbed, HoldsLease,
        ArchivedInv, Visible, LastIsComing,
        apiVars, redisVars, effectVars, workerVars, goVars, histVars, Goroutine, NoGoroutine
<1>1. ASSUME NEW t \in Tasks, EnqueueTask(t) PROVE ArchivedInv'
  BY <1>1 DEF EnqueueTask, NewExampleTask
<1>2. ASSUME NEW t \in Tasks, RedisAccepts(t) PROVE ArchivedInv'
  BY <1>2 DEF RedisAccepts
<1>3. ASSUME NEW t \in Tasks, EnqueueReturns(t) PROVE ArchivedInv'
  BY <1>3 DEF EnqueueReturns
<1>4. ASSUME NEW t \in Tasks, OtherProducer(t) PROVE ArchivedInv'
  BY <1>4 DEF OtherProducer
<1>5. ASSUME NEW t \in Tasks, LeaseExpires(t) PROVE ArchivedInv'
  BY <1>5 DEF LeaseExpires, Release, Disrupt
<1>6. ASSUME NEW t \in Tasks, Recover(t) PROVE ArchivedInv'
  BY <1>6 DEF Recover, FailTask, Archives
<1>7. ASSUME NEW t \in Tasks, Forward(t) PROVE ArchivedInv'
  BY <1>7 DEF Forward
<1>8. ASSUME NEW t \in Tasks, NEW h \in Handlers, Dequeue(h, t) PROVE ArchivedInv'
  BY <1>8 DEF Dequeue
<1>9. ASSUME NEW h \in Handlers, HandleExampleTask(h) PROVE ArchivedInv'
  <2>1. /\ go[h] \in Goroutine /\ go'[h].phase = "ran" /\ go'[h].task = go[h].task
        /\ \A g \in Handlers \ {h} : go'[g] = go[g]
    BY <1>9, HandleEffect
  <2>2. go'[h].seen = go[h].seen /\ UNCHANGED <<status, labels>>
    BY <1>9, HandleSeen DEF HandleExampleTask
  <2>3. \A t \in Tasks, g \in Handlers : LastIsComing(t, g) => LastIsComing(t, g)'
    BY <2>1, <2>2
  <2>4. QED
    BY <2>2, <2>3
<1>10. ASSUME NEW h \in Handlers, HandlerReturns(h) PROVE ArchivedInv'
  <2>0. PICK u \in Tasks : u = go[h].task
    BY <1>10 DEF HandlerReturns
  <2>1. /\ go[h] \in Goroutine /\ u = go[h].task /\ go[h].phase = "ran" /\ UNCHANGED status
        /\ labels' = [labels EXCEPT ![u] = @ \union {TaskStatus(go[h].result, go[h].seen)}]
        /\ \A g \in Handlers \ {h} : go'[g] = go[g]
    BY <1>10, <2>0 DEF HandlerReturns
  <2>2. LastIsComing(u, h) => Visible(u)'
    <3>1. go[h].seen >= MaxRetry => TaskStatus(go[h].result, go[h].seen) \in {"success", "failure"}
      BY <2>1 DEF TaskStatus
    <3>2. TaskStatus(go[h].result, go[h].seen) \in labels'[u]
      BY <2>1
    <3>3. QED
      BY <3>1, <3>2
  <2>3. \A t \in Tasks : Visible(t) => Visible(t)'
    BY <2>1
  <2>4. \A t \in Tasks, g \in Handlers \ {h} : LastIsComing(t, g) => LastIsComing(t, g)'
    BY <2>1
  <2>5. \A t \in Tasks : LastIsComing(t, h) => t = u
    BY <2>1
  <2>6. SUFFICES ASSUME NEW t \in Tasks, status'[t] = "archived"
                 PROVE  Visible(t)' \/ \E g \in Handlers : LastIsComing(t, g)'
    OBVIOUS
  <2>7. CASE Visible(t) \/ LastIsComing(t, h)
    BY <2>2, <2>3, <2>5, <2>7
  <2>8. CASE \E g \in Handlers \ {h} : LastIsComing(t, g)
    BY <2>4, <2>8
  <2>9. QED
    BY <2>1, <2>6, <2>7, <2>8
<1>11. ASSUME NEW h \in Handlers, ResultArrives(h) PROVE ArchivedInv'
  <2>0. PICK u \in Tasks : u = go[h].task
    BY <1>11 DEF ResultArrives
  <2>1. /\ go[h] \in Goroutine /\ u = go[h].task /\ go[h].phase = "returned" /\ h \in waiting
        /\ go[h].seen = retried[u] /\ UNCHANGED labels
        /\ \A g \in Handlers \ {h} : go'[g] = go[g]
    BY <1>11, <2>0 DEF ResultArrives, StopWaiting
  <2>2. \A t \in Tasks : status'[t] = "archived" /\ t # u => status[t] = "archived"
    BY <1>11, <2>1 DEF ResultArrives, FailTask, Archives
  <2>3. status'[u] = "archived" => Visible(u)
    BY <1>11, <2>1 DEF ResultArrives, FailTask, Archives, TaskStatus
  <2>4. \A t \in Tasks, g \in Handlers : LastIsComing(t, g) => LastIsComing(t, g)'
    BY <2>1
  <2>5. QED
    BY <2>1, <2>2, <2>3, <2>4
<1>12. ASSUME NEW h \in Handlers, TaskTimesOut(h) PROVE ArchivedInv'
  <2>0. PICK u \in Tasks : u = go[h].task
    BY <1>12 DEF TaskTimesOut
  <2>1. /\ go[h] \in Goroutine /\ u = go[h].task /\ h \in waiting
        /\ go[h].seen = retried[u] /\ UNCHANGED labels
        /\ \A g \in Handlers \ {h} : go'[g] = go[g]
        /\ go[h].phase # "returned" => go'[h] = go[h]
    BY <1>12, <2>0 DEF TaskTimesOut, StopWaiting
  <2>2. \A t \in Tasks : status'[t] = "archived" /\ t # u => status[t] = "archived"
    BY <1>12, <2>1 DEF TaskTimesOut, FailTask, Archives
  <2>3. status'[u] = "archived" => go[h].seen >= MaxRetry
    BY <1>12, <2>1 DEF TaskTimesOut, FailTask, Archives
  <2>4. \A t \in Tasks, g \in Handlers : LastIsComing(t, g) => LastIsComing(t, g)'
    BY <2>1
  <2>5. CASE go[h].phase = "returned"
    <3>1. status'[u] = "archived" => Visible(u)
      BY <2>1, <2>3, <2>5 DEF TaskStatus
    <3>2. QED
      BY <2>1, <2>2, <2>4, <3>1
  <2>6. CASE go[h].phase # "returned"
    <3>1. status'[u] = "archived" => LastIsComing(u, h)'
      BY <2>1, <2>3, <2>6
    <3>2. SUFFICES ASSUME NEW t \in Tasks, status'[t] = "archived"
                   PROVE  Visible(t)' \/ \E g \in Handlers : LastIsComing(t, g)'
      OBVIOUS
    <3>3. CASE t = u
      BY <3>1, <3>2, <3>3
    <3>4. CASE t # u
      <4>1. Visible(t) \/ \E g \in Handlers : LastIsComing(t, g)
        BY <2>2, <3>2, <3>4
      <4>2. QED
        BY <2>1, <2>4, <4>1
    <3>5. QED
      BY <3>3, <3>4
  <2>7. QED
    BY <2>5, <2>6
<1>13. ASSUME NEW h \in Handlers, LeaseLost(h) PROVE ArchivedInv'
  BY <1>13 DEF LeaseLost, StopWaiting
<1>14. ASSUME NEW h \in Handlers, AbortTask(h) PROVE ArchivedInv'
  BY <1>14 DEF AbortTask, StopWaiting, Release
<1>15. ASSUME NEW w \in Workers, StopWorker(w) PROVE ArchivedInv'
  BY <1>15 DEF StopWorker, Disrupt
<1>16. ASSUME NEW w \in Workers, WorkerExits(w) PROVE ArchivedInv'
  BY <1>16 DEF WorkerExits, Vanish
<1>17. ASSUME NEW w \in Workers, WorkerCrashes(w) PROVE ArchivedInv'
  BY <1>17 DEF WorkerCrashes, Vanish, Disrupt
<1>18. ASSUME NEW w \in Workers, WorkerStarts(w) PROVE ArchivedInv'
  BY <1>18 DEF WorkerStarts
<1>19. CASE UNCHANGED vars
  BY <1>19 DEF vars
<1>20. QED
  BY <1>1, <1>2, <1>3, <1>4, <1>5, <1>6, <1>7, <1>8, <1>9, <1>10, <1>11, <1>12, <1>13,
     <1>14, <1>15, <1>16, <1>17, <1>18, <1>19
     DEF Next, ApiNext, RedisNext, HandlerNext, WorkerNext

LEMMA InitCalm == Init => CalmInv
BY DEF Init, CalmInv, CountedInv, Undisturbed, ArchivedInv, NoGoroutine

LEMMA NextCalm == IInv /\ CalmInv /\ [Next]_vars => CalmInv'
BY CountedStep, UndisturbedStep, ArchivedStep DEF IInv, CalmInv

(* While no worker is stopped or crashes and no lease is lost, no dead      *)
(* letter escapes the metrics.                                              *)
THEOREM ArchivedCorrect == Spec => []ArchivedIsVisible
<1>1. CalmInv => ArchivedIsVisible
  BY DEF CalmInv, ArchivedInv, Visible, LastIsComing, ArchivedIsVisible
<1>2. IInv /\ CalmInv /\ [Next]_vars => CalmInv'
  BY NextCalm
<1>3. QED
  BY <1>1, <1>2, InitCalm, Invariance, PTL DEF Spec

=============================================================================
