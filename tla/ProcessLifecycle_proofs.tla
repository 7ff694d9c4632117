----------------------- MODULE ProcessLifecycle_proofs -----------------------
(* Proofs about ProcessLifecycle, for any configurations and any number of *)
(* requests and tasks in flight.                                           *)
EXTENDS ProcessLifecycle, TLAPS

-----------------------------------------------------------------------------
(* The inductive invariant.                                                *)

(* Where main waits for the API.                                           *)
Serving == {"select", "drain", "shutdown", "waitExit"}

(* Where the worker takes no tasks any more, or is about to stop.          *)
Leaving == {"shutdown", "send", "cancel", "returned"}

NoRequestActive == \A r \in Requests : requests[r] # "active"
NoTaskActive == \A t \in Tasks : tasks[t] # "active"

(* Shutdown has been called and has waited for the requests or cut them.   *)
Drained == inShutdown /\ NoRequestActive

(* There was a reason to stop that is not a failure of the API.            *)
Told == sig \/ "worker" \in failed

(* Where main is says what it has started and what it still holds.         *)
Phases ==
  /\ exit = "none" <=> main # "exited"
  /\ main = "migrate" => conf.mode = "all"
  /\ main \in {"migrate", "assemble"} =>
       registry = "none" /\ api = "off" /\ work = "off" /\ ~sig /\ ~cancelled
  /\ main \in Serving => HasApi /\ registry = "open"
  /\ main = "join" => HasWorker /\ registry = "open"
  /\ main = "close" => registry # "none"
  /\ registry = "closed" => main \in {"close", "exited"}
  /\ ~HasApi => api = "off"
  /\ ~HasWorker => work = "off"

(* The API's result is in the channel when it has returned; without a      *)
(* Shutdown that result is an error.                                       *)
ApiInv ==
  /\ errCh = "empty" <=> api # "done"
  /\ "api" \in failed => api = "done"
  /\ api = "done" /\ ~inShutdown => "api" \in failed
  /\ api \notin {"serve", "done"} => NoRequestActive
  /\ main \in {"migrate", "assemble", "select", "drain"} => ~inShutdown
  /\ main = "shutdown" => inShutdown
  /\ main = "waitExit" => Drained

(* A worker that has sent its result has no task in its hands.             *)
WorkInv ==
  /\ "worker" \in failed => work \in Leaving
  /\ ~Consuming /\ work # "shutdown" => NoTaskActive

(* As long as main waits for the API, a worker leaves, and the context is  *)
(* cancelled, for a reason; nobody gets to the deferred functions without  *)
(* one, nor before everybody is done.                                      *)
EndInv ==
  /\ main \in Serving /\ (cancelled \/ work \in Leaving) => Told
  /\ main \in Serving \ {"select"} => Told
  /\ main = "join" /\ conf.mode = "all" => apiErr \/ (Told /\ Drained)
  /\ main = "close" \/ registry = "closed" \/ exit = "ok" =>
       /\ "worker" \notin failed
       /\ HasApi => sig /\ Drained
       /\ work \in {"off", "cancel", "returned"}
  /\ exit = "failure" => NoTaskActive

(* What each of the two callbacks can have contributed to the count.       *)
ApiCalls ==
  IF /\ api \in {"serve", "done"} /\ "http" \in opened
     /\ conf.metricsPort => "metrics" \in opened
  THEN 1 ELSE 0

WorkCalls ==
  IF /\ work \in Leaving \union {"wait"} /\ "tasks" \in opened
     /\ conf.obsPort => "obs" \in opened
  THEN 1 ELSE 0

(* What is up in the stages before a callback, and what the callbacks have *)
(* counted since.                                                          *)
ReadyInv ==
  /\ conf.mode = "all" /\ (api # "off" \/ work # "off") => "schema" \in opened
  /\ conf.mode = "all" /\ main = "assemble" => "schema" \in opened
  /\ api \in {"listenMetrics", "ready", "serve"} => "http" \in opened
  /\ api \in {"ready", "serve"} /\ conf.metricsPort => "metrics" \in opened
  /\ work \in {"listen", "ready", "wait"} => "tasks" \in opened
  /\ work \in {"ready", "wait"} /\ conf.obsPort => "obs" \in opened
  /\ readyCalls <= ApiCalls + WorkCalls
  /\ readySent = IF readyCalls >= ReadyThreshold THEN 1 ELSE 0

IInv == TypeOK /\ Phases /\ ApiInv /\ WorkInv /\ EndInv /\ ReadyInv
-----------------------------------------------------------------------------
(* The types, in parts that one prover can handle.                         *)
Flags ==
  /\ sig \in BOOLEAN /\ cancelled \in BOOLEAN
  /\ apiErr \in BOOLEAN /\ inShutdown \in BOOLEAN /\ forced \in BOOLEAN

Sets ==
  /\ failed \subseteq {"api", "worker"}
  /\ opened \subseteq {"schema", "http", "metrics", "tasks", "obs"}

Counts == readyCalls \in 0..2 /\ readySent \in 0..1

Places ==
  /\ conf \in Configs
  /\ main \in {"migrate", "assemble", "select", "drain", "shutdown", "waitExit",
               "join", "close", "exited"}
  /\ exit \in {"none", "ok", "failure", "killed"}
  /\ api \in {"off", "listen", "listenMetrics", "ready", "serve", "done"}
  /\ errCh \in {"empty", "full", "taken"}
  /\ work \in {"off", "start", "listen", "ready", "wait", "shutdown", "send", "cancel",
               "returned"}
  /\ requests \in [Requests -> {"none", "active", "done", "cut"}]
  /\ tasks \in [Tasks -> {"none", "active", "done", "requeued"}]
  /\ registry \in {"none", "open", "closed"}

LEMMA TypeParts == TypeOK <=> Flags /\ Sets /\ Counts /\ Places
  BY DEF TypeOK, Flags, Sets, Counts, Places

-----------------------------------------------------------------------------
(* Every step keeps each part.                                             *)
LEMMA TypeStep ==
  ASSUME IInv, Next
  PROVE  TypeOK'
<1> USE DEF mainVars, ctxVars, apiVars, workVars, readyVars
<1>0. Flags /\ Sets /\ Counts /\ Places
  BY TypeParts DEF IInv
<1>1. CASE Signal
  <2>1. Flags'
    BY <1>0, <1>1 DEF Flags, Signal
  <2>2. Sets'
    BY <1>0, <1>1 DEF Sets, Signal
  <2>3. Counts'
    BY <1>0, <1>1 DEF Counts, Signal
  <2>4. Places'
    BY <1>0, <1>1 DEF Places, Signal
  <2> QED
    BY <2>1, <2>2, <2>3, <2>4, TypeParts DEF TypeOK, Flags, Sets, Counts, Places
<1>2. CASE Migrate
  <2>1. Flags'
    BY <1>0, <1>2 DEF Flags, Migrate, Fatal
  <2>2. Sets'
    BY <1>0, <1>2 DEF Sets, Migrate, Fatal
  <2>3. Counts'
    BY <1>0, <1>2 DEF Counts, Migrate, Fatal
  <2>4. Places'
    BY <1>0, <1>2 DEF Places, Migrate, Fatal
  <2> QED
    BY <2>1, <2>2, <2>3, <2>4, TypeParts DEF TypeOK, Flags, Sets, Counts, Places
<1>3. CASE Assemble
  BY <1>3 DEF Assemble, Fatal, IInv, TypeOK
<1>4. CASE SelectErr
  <2> ("api" \in failed) \in BOOLEAN
    OBVIOUS
  <2>1. Flags'
    BY <1>0, <1>4 DEF Flags, SelectErr, ServeAPIReturns, Fatal
  <2>2. Sets'
    BY <1>0, <1>4 DEF Sets, SelectErr, ServeAPIReturns, Fatal
  <2>3. Counts'
    BY <1>0, <1>4 DEF Counts, SelectErr, ServeAPIReturns, Fatal
  <2>4. Places'
    BY <1>0, <1>4 DEF Places, SelectErr, ServeAPIReturns, Fatal
  <2> QED
    BY <2>1, <2>2, <2>3, <2>4, TypeParts DEF TypeOK, Flags, Sets, Counts, Places
<1>5. CASE SelectDone
  BY <1>5 DEF SelectDone, StopRequested, IInv, TypeOK
<1>6. CASE DrainEnds
  BY <1>6 DEF DrainEnds, IInv, TypeOK
<1>7. CASE ShutdownReturns
  BY <1>7 DEF ShutdownReturns, RequestsIdle, IInv, TypeOK
<1>8. CASE ShutdownTimesOut
  BY <1>8 DEF ShutdownTimesOut, RequestsIdle, IInv, TypeOK
<1>9. CASE WaitForServerExit
  <2>1. Flags'
    BY <1>0, <1>9 DEF Flags, WaitForServerExit, ServeAPIReturns, Fatal
  <2>2. Sets'
    BY <1>0, <1>9 DEF Sets, WaitForServerExit, ServeAPIReturns, Fatal
  <2>3. Counts'
    BY <1>0, <1>9 DEF Counts, WaitForServerExit, ServeAPIReturns, Fatal
  <2>4. Places'
    BY <1>0, <1>9 DEF Places, WaitForServerExit, ServeAPIReturns, Fatal
  <2> QED
    BY <2>1, <2>2, <2>3, <2>4, TypeParts DEF TypeOK, Flags, Sets, Counts, Places
<1>10. CASE JoinWorker
  BY <1>10 DEF JoinWorker, Fatal, WorkerSent, RuntimeError, IInv, TypeOK
<1>11. CASE CloseRegistry
  BY <1>11 DEF CloseRegistry, IInv, TypeOK
<1>12. CASE ApiListen
  <2>1. Flags'
    BY <1>0, <1>12 DEF Flags, ApiListen, ApiReturns
  <2>2. Sets'
    BY <1>0, <1>12 DEF Sets, ApiListen, ApiReturns
  <2>3. Counts'
    BY <1>0, <1>12 DEF Counts, ApiListen, ApiReturns
  <2>4. Places'
    BY <1>0, <1>12 DEF Places, ApiListen, ApiReturns
  <2> QED
    BY <2>1, <2>2, <2>3, <2>4, TypeParts DEF TypeOK, Flags, Sets, Counts, Places
<1>13. CASE ApiListenMetrics
  <2>1. Flags'
    BY <1>0, <1>13 DEF Flags, ApiListenMetrics, ApiReturns
  <2>2. Sets'
    BY <1>0, <1>13 DEF Sets, ApiListenMetrics, ApiReturns
  <2>3. Counts'
    BY <1>0, <1>13 DEF Counts, ApiListenMetrics, ApiReturns
  <2>4. Places'
    BY <1>0, <1>13 DEF Places, ApiListenMetrics, ApiReturns
  <2> QED
    BY <2>1, <2>2, <2>3, <2>4, TypeParts DEF TypeOK, Flags, Sets, Counts, Places
<1>14. CASE ApiReady
  <2>1. Flags'
    BY <1>0, <1>14 DEF Flags, ApiReady, OnReady
  <2>2. Sets'
    BY <1>0, <1>14 DEF Sets, ApiReady, OnReady
  <2>3. Counts'
    BY <1>0, <1>14 DEF Counts, ApiReady, OnReady, IInv, ReadyInv, ApiCalls, WorkCalls,
       ReadyThreshold, Leaving
  <2>4. Places'
    BY <1>0, <1>14 DEF Places, ApiReady, OnReady
  <2> QED
    BY <2>1, <2>2, <2>3, <2>4, TypeParts DEF TypeOK, Flags, Sets, Counts, Places
<1>15. CASE ApiServeReturns
  BY <1>15 DEF ApiServeReturns, ApiReturns, IInv, TypeOK
<1>16. CASE WorkerStart
  <2>1. Flags'
    BY <1>0, <1>16 DEF Flags, WorkerStart
  <2>2. Sets'
    BY <1>0, <1>16 DEF Sets, WorkerStart
  <2>3. Counts'
    BY <1>0, <1>16 DEF Counts, WorkerStart
  <2>4. Places'
    BY <1>0, <1>16 DEF Places, WorkerStart
  <2> QED
    BY <2>1, <2>2, <2>3, <2>4, TypeParts DEF TypeOK, Flags, Sets, Counts, Places
<1>17. CASE WorkerListen
  <2>1. Flags'
    BY <1>0, <1>17 DEF Flags, WorkerListen
  <2>2. Sets'
    BY <1>0, <1>17 DEF Sets, WorkerListen
  <2>3. Counts'
    BY <1>0, <1>17 DEF Counts, WorkerListen
  <2>4. Places'
    BY <1>0, <1>17 DEF Places, WorkerListen
  <2> QED
    BY <2>1, <2>2, <2>3, <2>4, TypeParts DEF TypeOK, Flags, Sets, Counts, Places
<1>18. CASE WorkerReady
  <2>1. Flags'
    BY <1>0, <1>18 DEF Flags, WorkerReady, OnReady
  <2>2. Sets'
    BY <1>0, <1>18 DEF Sets, WorkerReady, OnReady
  <2>3. Counts'
    BY <1>0, <1>18 DEF Counts, WorkerReady, OnReady, IInv, ReadyInv, ApiCalls, WorkCalls,
       ReadyThreshold, Leaving
  <2>4. Places'
    BY <1>0, <1>18 DEF Places, WorkerReady, OnReady
  <2> QED
    BY <2>1, <2>2, <2>3, <2>4, TypeParts DEF TypeOK, Flags, Sets, Counts, Places
<1>19. CASE WorkerStop
  BY <1>19 DEF WorkerStop, StopRequested, IInv, TypeOK
<1>20. CASE WorkerShutdown
  BY <1>20 DEF WorkerShutdown, IInv, TypeOK
<1>21. CASE WorkerSends
  BY <1>21 DEF WorkerSends, IInv, TypeOK
<1>22. CASE WorkerCancels
  BY <1>22 DEF WorkerCancels, IInv, TypeOK
<1>23. ASSUME NEW r \in Requests, RequestStarts(r) PROVE TypeOK'
  BY <1>23 DEF RequestStarts, IInv, TypeOK
<1>24. ASSUME NEW r \in Requests, RequestEnds(r) PROVE TypeOK'
  BY <1>24 DEF RequestEnds, IInv, TypeOK
<1>25. ASSUME NEW t \in Tasks, TaskStarts(t) PROVE TypeOK'
  BY <1>25 DEF TaskStarts, Consuming, IInv, TypeOK
<1>26. ASSUME NEW t \in Tasks, TaskEnds(t) PROVE TypeOK'
  BY <1>26 DEF TaskEnds, IInv, TypeOK
<1> QED
  BY <1>1, <1>2, <1>3, <1>4, <1>5, <1>6, <1>7, <1>8, <1>9, <1>10, <1>11, <1>12, <1>13,
     <1>14, <1>15, <1>16, <1>17, <1>18, <1>19, <1>20, <1>21, <1>22, <1>23, <1>24, <1>25, <1>26
     DEF Next, MainNext, ApiNext, WorkerNext

LEMMA PhasesStep ==
  ASSUME IInv, Next
  PROVE  Phases'
<1> USE DEF IInv, mainVars, ctxVars, apiVars, workVars, readyVars
<1>1. CASE Signal
  BY <1>1, ConfigsAssumption DEF Signal, TypeOK, Config, HasApi, HasWorker, Serving, Phases,
     WorkInv, Running
<1>2. CASE Migrate
  BY <1>2, ConfigsAssumption DEF Migrate, Fatal, TypeOK, Config, HasApi, HasWorker, Serving,
     Phases, WorkInv, Running
<1>3. CASE Assemble
  BY <1>3, ConfigsAssumption DEF Assemble, Fatal, TypeOK, Config, HasApi, HasWorker,
     Serving, Phases, WorkInv, Running
<1>4. CASE SelectErr
  BY <1>4, ConfigsAssumption DEF SelectErr, ServeAPIReturns, Fatal, TypeOK, Config, HasApi,
     HasWorker, Serving, Phases, WorkInv, Running
<1>5. CASE SelectDone
  BY <1>5, ConfigsAssumption DEF SelectDone, StopRequested, TypeOK, Config, HasApi,
     HasWorker, Serving, Phases, WorkInv, Running
<1>6. CASE DrainEnds
  BY <1>6, ConfigsAssumption DEF DrainEnds, TypeOK, Config, HasApi, HasWorker, Serving,
     Phases, WorkInv, Running
<1>7. CASE ShutdownReturns
  BY <1>7, ConfigsAssumption DEF ShutdownReturns, RequestsIdle, TypeOK, Config, HasApi,
     HasWorker, Serving, Phases, WorkInv, Running
<1>8. CASE ShutdownTimesOut
  BY <1>8, ConfigsAssumption DEF ShutdownTimesOut, RequestsIdle, TypeOK, Config, HasApi,
     HasWorker, Serving, Phases, WorkInv, Running
<1>9. CASE WaitForServerExit
  BY <1>9, ConfigsAssumption DEF WaitForServerExit, ServeAPIReturns, Fatal, TypeOK, Config,
     HasApi, HasWorker, Serving, Phases, WorkInv, Running
<1>10. CASE JoinWorker
  BY <1>10, ConfigsAssumption DEF JoinWorker, Fatal, WorkerSent, RuntimeError, TypeOK,
     Config, HasApi, HasWorker, Serving, Phases, WorkInv, Running
<1>11. CASE CloseRegistry
  BY <1>11, ConfigsAssumption DEF CloseRegistry, TypeOK, Config, HasApi, HasWorker, Serving,
     Phases, WorkInv, Running
<1>12. CASE ApiListen
  BY <1>12, ConfigsAssumption DEF ApiListen, ApiReturns, TypeOK, Config, HasApi, HasWorker,
     Serving, Phases, WorkInv, Running
<1>13. CASE ApiListenMetrics
  BY <1>13, ConfigsAssumption DEF ApiListenMetrics, ApiReturns, TypeOK, Config, HasApi,
     HasWorker, Serving, Phases, WorkInv, Running
<1>14. CASE ApiReady
  BY <1>14, ConfigsAssumption DEF ApiReady, OnReady, TypeOK, Config, HasApi, HasWorker,
     Serving, Phases, WorkInv, Running
<1>15. CASE ApiServeReturns
  BY <1>15, ConfigsAssumption DEF ApiServeReturns, ApiReturns, TypeOK, Config, HasApi,
     HasWorker, Serving, Phases, WorkInv, Running
<1>16. CASE WorkerStart
  BY <1>16, ConfigsAssumption DEF WorkerStart, TypeOK, Config, HasApi, HasWorker, Serving,
     Phases, WorkInv, Running
<1>17. CASE WorkerListen
  BY <1>17, ConfigsAssumption DEF WorkerListen, TypeOK, Config, HasApi, HasWorker, Serving,
     Phases, WorkInv, Running
<1>18. CASE WorkerReady
  BY <1>18, ConfigsAssumption DEF WorkerReady, OnReady, TypeOK, Config, HasApi, HasWorker,
     Serving, Phases, WorkInv, Running
<1>19. CASE WorkerStop
  BY <1>19, ConfigsAssumption DEF WorkerStop, StopRequested, TypeOK, Config, HasApi,
     HasWorker, Serving, Phases, WorkInv, Running
<1>20. CASE WorkerShutdown
  BY <1>20, ConfigsAssumption DEF WorkerShutdown, TypeOK, Config, HasApi, HasWorker,
     Serving, Phases, WorkInv, Running
<1>21. CASE WorkerSends
  BY <1>21, ConfigsAssumption DEF WorkerSends, TypeOK, Config, HasApi, HasWorker, Serving,
     Phases, WorkInv, Running
<1>22. CASE WorkerCancels
  BY <1>22, ConfigsAssumption DEF WorkerCancels, TypeOK, Config, HasApi, HasWorker, Serving,
     Phases, WorkInv, Running
<1>23. ASSUME NEW r \in Requests, RequestStarts(r) PROVE Phases'
  BY <1>23, ConfigsAssumption DEF RequestStarts, TypeOK, Config, HasApi, HasWorker, Serving,
     Phases, WorkInv, Running
<1>24. ASSUME NEW r \in Requests, RequestEnds(r) PROVE Phases'
  BY <1>24, ConfigsAssumption DEF RequestEnds, TypeOK, Config, HasApi, HasWorker, Serving,
     Phases, WorkInv, Running
<1>25. ASSUME NEW t \in Tasks, TaskStarts(t) PROVE Phases'
  BY <1>25, ConfigsAssumption DEF TaskStarts, Consuming, TypeOK, Config, HasApi, HasWorker,
     Serving, Phases, WorkInv, Running
<1>26. ASSUME NEW t \in Tasks, TaskEnds(t) PROVE Phases'
  BY <1>26, ConfigsAssumption DEF TaskEnds, TypeOK, Config, HasApi, HasWorker, Serving,
     Phases, WorkInv, Running
<1> QED
  BY <1>1, <1>2, <1>3, <1>4, <1>5, <1>6, <1>7, <1>8, <1>9, <1>10, <1>11, <1>12, <1>13,
     <1>14, <1>15, <1>16, <1>17, <1>18, <1>19, <1>20, <1>21, <1>22, <1>23, <1>24, <1>25, <1>26
     DEF Next, MainNext, ApiNext, WorkerNext

LEMMA ApiStep ==
  ASSUME IInv, Next
  PROVE  ApiInv'
<1> USE DEF IInv, mainVars, ctxVars, apiVars, workVars, readyVars
<1>1. CASE Signal
  BY <1>1 DEF Signal, TypeOK, ApiInv, NoRequestActive, Drained, Serving, Phases, Running
<1>2. CASE Migrate
  BY <1>2 DEF Migrate, Fatal, TypeOK, ApiInv, NoRequestActive, Drained, Serving, Phases,
     Running
<1>3. CASE Assemble
  BY <1>3 DEF Assemble, Fatal, TypeOK, ApiInv, NoRequestActive, Drained, Serving, Phases,
     Running
<1>4. CASE SelectErr
  BY <1>4 DEF SelectErr, ServeAPIReturns, Fatal, TypeOK, ApiInv, NoRequestActive, Drained,
     Serving, Phases, Running
<1>5. CASE SelectDone
  BY <1>5 DEF SelectDone, StopRequested, TypeOK, ApiInv, NoRequestActive, Drained, Serving,
     Phases, Running
<1>6. CASE DrainEnds
  BY <1>6 DEF DrainEnds, TypeOK, ApiInv, NoRequestActive, Drained, Serving, Phases, Running
<1>7. CASE ShutdownReturns
  BY <1>7 DEF ShutdownReturns, RequestsIdle, TypeOK, ApiInv, NoRequestActive, Drained,
     Serving, Phases, Running
<1>8. CASE ShutdownTimesOut
  BY <1>8 DEF ShutdownTimesOut, RequestsIdle, TypeOK, ApiInv, NoRequestActive, Drained,
     Serving, Phases, Running
<1>9. CASE WaitForServerExit
  BY <1>9 DEF WaitForServerExit, ServeAPIReturns, Fatal, TypeOK, ApiInv, NoRequestActive,
     Drained, Serving, Phases, Running
<1>10. CASE JoinWorker
  BY <1>10 DEF JoinWorker, Fatal, WorkerSent, RuntimeError, TypeOK, ApiInv, NoRequestActive,
     Drained, Serving, Phases, Running
<1>11. CASE CloseRegistry
  BY <1>11 DEF CloseRegistry, TypeOK, ApiInv, NoRequestActive, Drained, Serving, Phases,
     Running
<1>12. CASE ApiListen
  BY <1>12 DEF ApiListen, ApiReturns, TypeOK, ApiInv, NoRequestActive, Drained, Serving,
     Phases, Running
<1>13. CASE ApiListenMetrics
  BY <1>13 DEF ApiListenMetrics, ApiReturns, TypeOK, ApiInv, NoRequestActive, Drained,
     Serving, Phases, Running
<1>14. CASE ApiReady
  BY <1>14 DEF ApiReady, OnReady, TypeOK, ApiInv, NoRequestActive, Drained, Serving, Phases,
     Running
<1>15. CASE ApiServeReturns
  BY <1>15 DEF ApiServeReturns, ApiReturns, TypeOK, ApiInv, NoRequestActive, Drained,
     Serving, Phases, Running
<1>16. CASE WorkerStart
  BY <1>16 DEF WorkerStart, TypeOK, ApiInv, NoRequestActive, Drained, Serving, Phases,
     Running
<1>17. CASE WorkerListen
  BY <1>17 DEF WorkerListen, TypeOK, ApiInv, NoRequestActive, Drained, Serving, Phases,
     Running
<1>18. CASE WorkerReady
  BY <1>18 DEF WorkerReady, OnReady, TypeOK, ApiInv, NoRequestActive, Drained, Serving,
     Phases, Running
<1>19. CASE WorkerStop
  BY <1>19 DEF WorkerStop, StopRequested, TypeOK, ApiInv, NoRequestActive, Drained, Serving,
     Phases, Running
<1>20. CASE WorkerShutdown
  BY <1>20 DEF WorkerShutdown, TypeOK, ApiInv, NoRequestActive, Drained, Serving, Phases,
     Running
<1>21. CASE WorkerSends
  BY <1>21 DEF WorkerSends, TypeOK, ApiInv, NoRequestActive, Drained, Serving, Phases,
     Running
<1>22. CASE WorkerCancels
  BY <1>22 DEF WorkerCancels, TypeOK, ApiInv, NoRequestActive, Drained, Serving, Phases,
     Running
<1>23. ASSUME NEW r \in Requests, RequestStarts(r) PROVE ApiInv'
  BY <1>23 DEF RequestStarts, TypeOK, ApiInv, NoRequestActive, Drained, Serving, Phases,
     Running
<1>24. ASSUME NEW r \in Requests, RequestEnds(r) PROVE ApiInv'
  BY <1>24 DEF RequestEnds, TypeOK, ApiInv, NoRequestActive, Drained, Serving, Phases,
     Running
<1>25. ASSUME NEW t \in Tasks, TaskStarts(t) PROVE ApiInv'
  BY <1>25 DEF TaskStarts, Consuming, TypeOK, ApiInv, NoRequestActive, Drained, Serving,
     Phases, Running
<1>26. ASSUME NEW t \in Tasks, TaskEnds(t) PROVE ApiInv'
  BY <1>26 DEF TaskEnds, TypeOK, ApiInv, NoRequestActive, Drained, Serving, Phases, Running
<1> QED
  BY <1>1, <1>2, <1>3, <1>4, <1>5, <1>6, <1>7, <1>8, <1>9, <1>10, <1>11, <1>12, <1>13,
     <1>14, <1>15, <1>16, <1>17, <1>18, <1>19, <1>20, <1>21, <1>22, <1>23, <1>24, <1>25, <1>26
     DEF Next, MainNext, ApiNext, WorkerNext

LEMMA WorkStep ==
  ASSUME IInv, Next
  PROVE  WorkInv'
<1> USE DEF IInv, mainVars, ctxVars, apiVars, workVars, readyVars
<1>1. CASE Signal
  BY <1>1 DEF Signal, TypeOK, WorkInv, NoTaskActive, Leaving, Consuming, Phases, Running
<1>2. CASE Migrate
  BY <1>2 DEF Migrate, Fatal, TypeOK, WorkInv, NoTaskActive, Leaving, Consuming, Phases,
     Running
<1>3. CASE Assemble
  BY <1>3 DEF Assemble, Fatal, TypeOK, WorkInv, NoTaskActive, Leaving, Consuming, Phases,
     Running
<1>4. CASE SelectErr
  BY <1>4 DEF SelectErr, ServeAPIReturns, Fatal, TypeOK, WorkInv, NoTaskActive, Leaving,
     Consuming, Phases, Running
<1>5. CASE SelectDone
  BY <1>5 DEF SelectDone, StopRequested, TypeOK, WorkInv, NoTaskActive, Leaving, Consuming,
     Phases, Running
<1>6. CASE DrainEnds
  BY <1>6 DEF DrainEnds, TypeOK, WorkInv, NoTaskActive, Leaving, Consuming, Phases, Running
<1>7. CASE ShutdownReturns
  BY <1>7 DEF ShutdownReturns, RequestsIdle, TypeOK, WorkInv, NoTaskActive, Leaving,
     Consuming, Phases, Running
<1>8. CASE ShutdownTimesOut
  BY <1>8 DEF ShutdownTimesOut, RequestsIdle, TypeOK, WorkInv, NoTaskActive, Leaving,
     Consuming, Phases, Running
<1>9. CASE WaitForServerExit
  BY <1>9 DEF WaitForServerExit, ServeAPIReturns, Fatal, TypeOK, WorkInv, NoTaskActive,
     Leaving, Consuming, Phases, Running
<1>10. CASE JoinWorker
  BY <1>10 DEF JoinWorker, Fatal, WorkerSent, RuntimeError, TypeOK, WorkInv, NoTaskActive,
     Leaving, Consuming, Phases, Running
<1>11. CASE CloseRegistry
  BY <1>11 DEF CloseRegistry, TypeOK, WorkInv, NoTaskActive, Leaving, Consuming, Phases,
     Running
<1>12. CASE ApiListen
  BY <1>12 DEF ApiListen, ApiReturns, TypeOK, WorkInv, NoTaskActive, Leaving, Consuming,
     Phases, Running
<1>13. CASE ApiListenMetrics
  BY <1>13 DEF ApiListenMetrics, ApiReturns, TypeOK, WorkInv, NoTaskActive, Leaving,
     Consuming, Phases, Running
<1>14. CASE ApiReady
  BY <1>14 DEF ApiReady, OnReady, TypeOK, WorkInv, NoTaskActive, Leaving, Consuming, Phases,
     Running
<1>15. CASE ApiServeReturns
  BY <1>15 DEF ApiServeReturns, ApiReturns, TypeOK, WorkInv, NoTaskActive, Leaving,
     Consuming, Phases, Running
<1>16. CASE WorkerStart
  BY <1>16 DEF WorkerStart, TypeOK, WorkInv, NoTaskActive, Leaving, Consuming, Phases,
     Running
<1>17. CASE WorkerListen
  BY <1>17 DEF WorkerListen, TypeOK, WorkInv, NoTaskActive, Leaving, Consuming, Phases,
     Running
<1>18. CASE WorkerReady
  BY <1>18 DEF WorkerReady, OnReady, TypeOK, WorkInv, NoTaskActive, Leaving, Consuming,
     Phases, Running
<1>19. CASE WorkerStop
  BY <1>19 DEF WorkerStop, StopRequested, TypeOK, WorkInv, NoTaskActive, Leaving, Consuming,
     Phases, Running
<1>20. CASE WorkerShutdown
  BY <1>20 DEF WorkerShutdown, TypeOK, WorkInv, NoTaskActive, Leaving, Consuming, Phases,
     Running
<1>21. CASE WorkerSends
  BY <1>21 DEF WorkerSends, TypeOK, WorkInv, NoTaskActive, Leaving, Consuming, Phases,
     Running
<1>22. CASE WorkerCancels
  BY <1>22 DEF WorkerCancels, TypeOK, WorkInv, NoTaskActive, Leaving, Consuming, Phases,
     Running
<1>23. ASSUME NEW r \in Requests, RequestStarts(r) PROVE WorkInv'
  BY <1>23 DEF RequestStarts, TypeOK, WorkInv, NoTaskActive, Leaving, Consuming, Phases,
     Running
<1>24. ASSUME NEW r \in Requests, RequestEnds(r) PROVE WorkInv'
  BY <1>24 DEF RequestEnds, TypeOK, WorkInv, NoTaskActive, Leaving, Consuming, Phases,
     Running
<1>25. ASSUME NEW t \in Tasks, TaskStarts(t) PROVE WorkInv'
  BY <1>25 DEF TaskStarts, Consuming, TypeOK, WorkInv, NoTaskActive, Leaving, Phases,
     Running
<1>26. ASSUME NEW t \in Tasks, TaskEnds(t) PROVE WorkInv'
  BY <1>26 DEF TaskEnds, TypeOK, WorkInv, NoTaskActive, Leaving, Consuming, Phases, Running
<1> QED
  BY <1>1, <1>2, <1>3, <1>4, <1>5, <1>6, <1>7, <1>8, <1>9, <1>10, <1>11, <1>12, <1>13,
     <1>14, <1>15, <1>16, <1>17, <1>18, <1>19, <1>20, <1>21, <1>22, <1>23, <1>24, <1>25, <1>26
     DEF Next, MainNext, ApiNext, WorkerNext

LEMMA EndStep ==
  ASSUME IInv, Next
  PROVE  EndInv'
<1> USE DEF IInv, mainVars, ctxVars, apiVars, workVars, readyVars
<1>1. CASE Signal
  BY <1>1, ConfigsAssumption DEF Signal, TypeOK, Config, HasApi, HasWorker, Phases, ApiInv,
     WorkInv, EndInv, Told, Drained, NoRequestActive, NoTaskActive, Serving, Leaving,
     Consuming, Running
<1>2. CASE Migrate
  BY <1>2, ConfigsAssumption DEF Migrate, Fatal, TypeOK, Config, HasApi, HasWorker, Phases,
     ApiInv, WorkInv, EndInv, Told, Drained, NoRequestActive, NoTaskActive, Serving, Leaving,
     Consuming, Running
<1>3. CASE Assemble
  BY <1>3, ConfigsAssumption DEF Assemble, Fatal, TypeOK, Config, HasApi, HasWorker, Phases,
     ApiInv, WorkInv, EndInv, Told, Drained, NoRequestActive, NoTaskActive, Serving, Leaving,
     Consuming, Running
<1>4. CASE SelectErr
  BY <1>4, ConfigsAssumption DEF SelectErr, ServeAPIReturns, Fatal, TypeOK, Config, HasApi,
     HasWorker, Phases, ApiInv, WorkInv, EndInv, Told, Drained, NoRequestActive, NoTaskActive,
     Serving, Leaving, Consuming, Running
<1>5. CASE SelectDone
  BY <1>5, ConfigsAssumption DEF SelectDone, StopRequested, TypeOK, Config, HasApi,
     HasWorker, Phases, ApiInv, WorkInv, EndInv, Told, Drained, NoRequestActive, NoTaskActive,
     Serving, Leaving, Consuming, Running
<1>6. CASE DrainEnds
  BY <1>6, ConfigsAssumption DEF DrainEnds, TypeOK, Config, HasApi, HasWorker, Phases,
     ApiInv, WorkInv, EndInv, Told, Drained, NoRequestActive, NoTaskActive, Serving, Leaving,
     Consuming, Running
<1>7. CASE ShutdownReturns
  BY <1>7, ConfigsAssumption DEF ShutdownReturns, RequestsIdle, TypeOK, Config, HasApi,
     HasWorker, Phases, ApiInv, WorkInv, EndInv, Told, Drained, NoRequestActive, NoTaskActive,
     Serving, Leaving, Consuming, Running
<1>8. CASE ShutdownTimesOut
  BY <1>8, ConfigsAssumption DEF ShutdownTimesOut, RequestsIdle, TypeOK, Config, HasApi,
     HasWorker, Phases, ApiInv, WorkInv, EndInv, Told, Drained, NoRequestActive, NoTaskActive,
     Serving, Leaving, Consuming, Running
<1>9. CASE WaitForServerExit
  BY <1>9, ConfigsAssumption DEF WaitForServerExit, ServeAPIReturns, Fatal, TypeOK, Config,
     HasApi, HasWorker, Phases, ApiInv, WorkInv, EndInv, Told, Drained, NoRequestActive,
     NoTaskActive, Serving, Leaving, Consuming, Running
<1>10. CASE JoinWorker
  BY <1>10, ConfigsAssumption DEF JoinWorker, Fatal, WorkerSent, RuntimeError, TypeOK,
     Config, HasApi, HasWorker, Phases, ApiInv, WorkInv, EndInv, Told, Drained,
     NoRequestActive, NoTaskActive, Serving, Leaving, Consuming, Running
<1>11. CASE CloseRegistry
  BY <1>11, ConfigsAssumption DEF CloseRegistry, TypeOK, Config, HasApi, HasWorker, Phases,
     ApiInv, WorkInv, EndInv, Told, Drained, NoRequestActive, NoTaskActive, Serving, Leaving,
     Consuming, Running
<1>12. CASE ApiListen
  BY <1>12, ConfigsAssumption DEF ApiListen, ApiReturns, TypeOK, Config, HasApi, HasWorker,
     Phases, ApiInv, WorkInv, EndInv, Told, Drained, NoRequestActive, NoTaskActive, Serving,
     Leaving, Consuming, Running
<1>13. CASE ApiListenMetrics
  BY <1>13, ConfigsAssumption DEF ApiListenMetrics, ApiReturns, TypeOK, Config, HasApi,
     HasWorker, Phases, ApiInv, WorkInv, EndInv, Told, Drained, NoRequestActive, NoTaskActive,
     Serving, Leaving, Consuming, Running
<1>14. CASE ApiReady
  BY <1>14, ConfigsAssumption DEF ApiReady, OnReady, TypeOK, Config, HasApi, HasWorker,
     Phases, ApiInv, WorkInv, EndInv, Told, Drained, NoRequestActive, NoTaskActive, Serving,
     Leaving, Consuming, Running
<1>15. CASE ApiServeReturns
  BY <1>15, ConfigsAssumption DEF ApiServeReturns, ApiReturns, TypeOK, Config, HasApi,
     HasWorker, Phases, ApiInv, WorkInv, EndInv, Told, Drained, NoRequestActive, NoTaskActive,
     Serving, Leaving, Consuming, Running
<1>16. CASE WorkerStart
  BY <1>16, ConfigsAssumption DEF WorkerStart, TypeOK, Config, HasApi, HasWorker, Phases,
     ApiInv, WorkInv, EndInv, Told, Drained, NoRequestActive, NoTaskActive, Serving, Leaving,
     Consuming, Running
<1>17. CASE WorkerListen
  BY <1>17, ConfigsAssumption DEF WorkerListen, TypeOK, Config, HasApi, HasWorker, Phases,
     ApiInv, WorkInv, EndInv, Told, Drained, NoRequestActive, NoTaskActive, Serving, Leaving,
     Consuming, Running
<1>18. CASE WorkerReady
  BY <1>18, ConfigsAssumption DEF WorkerReady, OnReady, TypeOK, Config, HasApi, HasWorker,
     Phases, ApiInv, WorkInv, EndInv, Told, Drained, NoRequestActive, NoTaskActive, Serving,
     Leaving, Consuming, Running
<1>19. CASE WorkerStop
  BY <1>19, ConfigsAssumption DEF WorkerStop, StopRequested, TypeOK, Config, HasApi,
     HasWorker, Phases, ApiInv, WorkInv, EndInv, Told, Drained, NoRequestActive, NoTaskActive,
     Serving, Leaving, Consuming, Running
<1>20. CASE WorkerShutdown
  BY <1>20, ConfigsAssumption DEF WorkerShutdown, TypeOK, Config, HasApi, HasWorker, Phases,
     ApiInv, WorkInv, EndInv, Told, Drained, NoRequestActive, NoTaskActive, Serving, Leaving,
     Consuming, Running
<1>21. CASE WorkerSends
  BY <1>21, ConfigsAssumption DEF WorkerSends, TypeOK, Config, HasApi, HasWorker, Phases,
     ApiInv, WorkInv, EndInv, Told, Drained, NoRequestActive, NoTaskActive, Serving, Leaving,
     Consuming, Running
<1>22. CASE WorkerCancels
  BY <1>22, ConfigsAssumption DEF WorkerCancels, TypeOK, Config, HasApi, HasWorker, Phases,
     ApiInv, WorkInv, EndInv, Told, Drained, NoRequestActive, NoTaskActive, Serving, Leaving,
     Consuming, Running
<1>23. ASSUME NEW r \in Requests, RequestStarts(r) PROVE EndInv'
  BY <1>23, ConfigsAssumption DEF RequestStarts, TypeOK, Config, HasApi, HasWorker, Phases,
     ApiInv, WorkInv, EndInv, Told, Drained, NoRequestActive, NoTaskActive, Serving, Leaving,
     Consuming, Running
<1>24. ASSUME NEW r \in Requests, RequestEnds(r) PROVE EndInv'
  BY <1>24, ConfigsAssumption DEF RequestEnds, TypeOK, Config, HasApi, HasWorker, Phases,
     ApiInv, WorkInv, EndInv, Told, Drained, NoRequestActive, NoTaskActive, Serving, Leaving,
     Consuming, Running
<1>25. ASSUME NEW t \in Tasks, TaskStarts(t) PROVE EndInv'
  BY <1>25, ConfigsAssumption DEF TaskStarts, Consuming, TypeOK, Config, HasApi, HasWorker,
     Phases, ApiInv, WorkInv, EndInv, Told, Drained, NoRequestActive, NoTaskActive, Serving,
     Leaving, Running
<1>26. ASSUME NEW t \in Tasks, TaskEnds(t) PROVE EndInv'
  BY <1>26, ConfigsAssumption DEF TaskEnds, TypeOK, Config, HasApi, HasWorker, Phases,
     ApiInv, WorkInv, EndInv, Told, Drained, NoRequestActive, NoTaskActive, Serving, Leaving,
     Consuming, Running
<1> QED
  BY <1>1, <1>2, <1>3, <1>4, <1>5, <1>6, <1>7, <1>8, <1>9, <1>10, <1>11, <1>12, <1>13,
     <1>14, <1>15, <1>16, <1>17, <1>18, <1>19, <1>20, <1>21, <1>22, <1>23, <1>24, <1>25, <1>26
     DEF Next, MainNext, ApiNext, WorkerNext

LEMMA ReadyStep ==
  ASSUME IInv, Next
  PROVE  ReadyInv'
<1> USE DEF IInv, mainVars, ctxVars, apiVars, workVars, readyVars
<1>1. CASE Signal
  BY <1>1 DEF Signal, TypeOK, HasApi, HasWorker, Phases, ReadyInv, ApiCalls, WorkCalls,
     ReadyThreshold, Leaving, Running
<1>2. CASE Migrate
  BY <1>2 DEF Migrate, Fatal, TypeOK, HasApi, HasWorker, Phases, ReadyInv, ApiCalls,
     WorkCalls, ReadyThreshold, Leaving, Running
<1>3. CASE Assemble
  BY <1>3 DEF Assemble, Fatal, TypeOK, HasApi, HasWorker, Phases, ReadyInv, ApiCalls,
     WorkCalls, ReadyThreshold, Leaving, Running
<1>4. CASE SelectErr
  BY <1>4 DEF SelectErr, ServeAPIReturns, Fatal, TypeOK, HasApi, HasWorker, Phases,
     ReadyInv, ApiCalls, WorkCalls, ReadyThreshold, Leaving, Running
<1>5. CASE SelectDone
  BY <1>5 DEF SelectDone, StopRequested, TypeOK, HasApi, HasWorker, Phases, ReadyInv,
     ApiCalls, WorkCalls, ReadyThreshold, Leaving, Running
<1>6. CASE DrainEnds
  BY <1>6 DEF DrainEnds, TypeOK, HasApi, HasWorker, Phases, ReadyInv, ApiCalls, WorkCalls,
     ReadyThreshold, Leaving, Running
<1>7. CASE ShutdownReturns
  BY <1>7 DEF ShutdownReturns, RequestsIdle, TypeOK, HasApi, HasWorker, Phases, ReadyInv,
     ApiCalls, WorkCalls, ReadyThreshold, Leaving, Running
<1>8. CASE ShutdownTimesOut
  BY <1>8 DEF ShutdownTimesOut, RequestsIdle, TypeOK, HasApi, HasWorker, Phases, ReadyInv,
     ApiCalls, WorkCalls, ReadyThreshold, Leaving, Running
<1>9. CASE WaitForServerExit
  BY <1>9 DEF WaitForServerExit, ServeAPIReturns, Fatal, TypeOK, HasApi, HasWorker, Phases,
     ReadyInv, ApiCalls, WorkCalls, ReadyThreshold, Leaving, Running
<1>10. CASE JoinWorker
  BY <1>10 DEF JoinWorker, Fatal, WorkerSent, RuntimeError, TypeOK, HasApi, HasWorker,
     Phases, ReadyInv, ApiCalls, WorkCalls, ReadyThreshold, Leaving, Running
<1>11. CASE CloseRegistry
  BY <1>11 DEF CloseRegistry, TypeOK, HasApi, HasWorker, Phases, ReadyInv, ApiCalls,
     WorkCalls, ReadyThreshold, Leaving, Running
<1>12. CASE ApiListen
  BY <1>12 DEF ApiListen, ApiReturns, TypeOK, HasApi, HasWorker, Phases, ReadyInv, ApiCalls,
     WorkCalls, ReadyThreshold, Leaving, Running
<1>13. CASE ApiListenMetrics
  BY <1>13 DEF ApiListenMetrics, ApiReturns, TypeOK, HasApi, HasWorker, Phases, ReadyInv,
     ApiCalls, WorkCalls, ReadyThreshold, Leaving, Running
<1>14. CASE ApiReady
  BY <1>14 DEF ApiReady, OnReady, TypeOK, HasApi, HasWorker, Phases, ReadyInv, ApiCalls,
     WorkCalls, ReadyThreshold, Leaving, Running
<1>15. CASE ApiServeReturns
  BY <1>15 DEF ApiServeReturns, ApiReturns, TypeOK, HasApi, HasWorker, Phases, ReadyInv,
     ApiCalls, WorkCalls, ReadyThreshold, Leaving, Running
<1>16. CASE WorkerStart
  BY <1>16 DEF WorkerStart, TypeOK, HasApi, HasWorker, Phases, ReadyInv, ApiCalls,
     WorkCalls, ReadyThreshold, Leaving, Running
<1>17. CASE WorkerListen
  BY <1>17 DEF WorkerListen, TypeOK, HasApi, HasWorker, Phases, ReadyInv, ApiCalls,
     WorkCalls, ReadyThreshold, Leaving, Running
<1>18. CASE WorkerReady
  BY <1>18 DEF WorkerReady, OnReady, TypeOK, HasApi, HasWorker, Phases, ReadyInv, ApiCalls,
     WorkCalls, ReadyThreshold, Leaving, Running
<1>19. CASE WorkerStop
  BY <1>19 DEF WorkerStop, StopRequested, TypeOK, HasApi, HasWorker, Phases, ReadyInv,
     ApiCalls, WorkCalls, ReadyThreshold, Leaving, Running
<1>20. CASE WorkerShutdown
  BY <1>20 DEF WorkerShutdown, TypeOK, HasApi, HasWorker, Phases, ReadyInv, ApiCalls,
     WorkCalls, ReadyThreshold, Leaving, Running
<1>21. CASE WorkerSends
  BY <1>21 DEF WorkerSends, TypeOK, HasApi, HasWorker, Phases, ReadyInv, ApiCalls,
     WorkCalls, ReadyThreshold, Leaving, Running
<1>22. CASE WorkerCancels
  BY <1>22 DEF WorkerCancels, TypeOK, HasApi, HasWorker, Phases, ReadyInv, ApiCalls,
     WorkCalls, ReadyThreshold, Leaving, Running
<1>23. ASSUME NEW r \in Requests, RequestStarts(r) PROVE ReadyInv'
  BY <1>23 DEF RequestStarts, TypeOK, HasApi, HasWorker, Phases, ReadyInv, ApiCalls,
     WorkCalls, ReadyThreshold, Leaving, Running
<1>24. ASSUME NEW r \in Requests, RequestEnds(r) PROVE ReadyInv'
  BY <1>24 DEF RequestEnds, TypeOK, HasApi, HasWorker, Phases, ReadyInv, ApiCalls,
     WorkCalls, ReadyThreshold, Leaving, Running
<1>25. ASSUME NEW t \in Tasks, TaskStarts(t) PROVE ReadyInv'
  BY <1>25 DEF TaskStarts, Consuming, TypeOK, HasApi, HasWorker, Phases, ReadyInv, ApiCalls,
     WorkCalls, ReadyThreshold, Leaving, Running
<1>26. ASSUME NEW t \in Tasks, TaskEnds(t) PROVE ReadyInv'
  BY <1>26 DEF TaskEnds, TypeOK, HasApi, HasWorker, Phases, ReadyInv, ApiCalls, WorkCalls,
     ReadyThreshold, Leaving, Running
<1> QED
  BY <1>1, <1>2, <1>3, <1>4, <1>5, <1>6, <1>7, <1>8, <1>9, <1>10, <1>11, <1>12, <1>13,
     <1>14, <1>15, <1>16, <1>17, <1>18, <1>19, <1>20, <1>21, <1>22, <1>23, <1>24, <1>25, <1>26
     DEF Next, MainNext, ApiNext, WorkerNext

-----------------------------------------------------------------------------
(* The theorems.                                                           *)
LEMMA InitInv == Init => IInv
<1> SUFFICES ASSUME Init PROVE IInv
  OBVIOUS
<1>1. conf \in Config
  BY ConfigsAssumption DEF Init
<1>2. TypeOK
  <2>1. Flags
    BY DEF Init, Flags
  <2>4. Counts
    BY DEF Init, Counts
  <2>2. Sets
    BY DEF Init, Sets
  <2>3. Places
    BY DEF Init, Places
  <2> QED
    BY <2>1, <2>2, <2>3, <2>4, TypeParts
<1>3. Phases
  BY <1>1 DEF Init, Phases, Serving, HasApi, HasWorker, Config
<1>4. ApiInv /\ WorkInv
  BY DEF Init, ApiInv, WorkInv, Drained, NoRequestActive, NoTaskActive
<1>5. EndInv
  BY DEF Init, EndInv, Serving, NoTaskActive
<1>6. ReadyInv
  BY <1>1 DEF Init, ReadyInv, ApiCalls, WorkCalls, ReadyThreshold, Config, Leaving
<1> QED
  BY <1>2, <1>3, <1>4, <1>5, <1>6 DEF IInv

LEMMA StutterInv == IInv /\ UNCHANGED vars => IInv'
<1> USE DEF vars, mainVars, ctxVars, apiVars, workVars, readyVars
<1>1. IInv /\ UNCHANGED vars => TypeOK' /\ Phases'
  BY DEF IInv, TypeOK, Phases, HasApi, HasWorker
<1>2. IInv /\ UNCHANGED vars => ApiInv' /\ WorkInv'
  BY DEF IInv, ApiInv, WorkInv, Drained, NoRequestActive, NoTaskActive, Consuming
<1>3. IInv /\ UNCHANGED vars => EndInv' /\ ReadyInv'
  BY DEF IInv, EndInv, ReadyInv, Told, Drained, NoRequestActive, NoTaskActive, HasApi,
         ApiCalls, WorkCalls, ReadyThreshold
<1> QED
  BY <1>1, <1>2, <1>3 DEF IInv

(* The inductive invariant holds in every reachable state.                 *)
THEOREM Invariance == Spec => []IInv
<1>1. IInv /\ [Next]_vars => IInv'
  BY TypeStep, PhasesStep, ApiStep, WorkStep, EndStep, ReadyStep, StutterInv DEF IInv
<1> QED
  BY InitInv, <1>1, PTL DEF Spec

(* Every reachable state is well typed; in particular READY=1 is sent at   *)
(* most once.                                                              *)
THEOREM TypeCorrect == Spec => []TypeOK
<1>1. IInv => TypeOK
  BY DEF IInv
<1> QED
  BY <1>1, Invariance, PTL

(* READY=1 stands for everything the configuration needs, whichever of the *)
(* two callbacks came last (readyAfter, Server.Run, Worker.Run).           *)
THEOREM ReadyCorrect == Spec => []ReadyAfterAll
<1>1. IInv => ReadyAfterAll
  <2> SUFFICES ASSUME IInv, readySent > 0 PROVE readySent = 1 /\ NeededForReady \subseteq opened
    BY DEF ReadyAfterAll
  <2>1. readySent = 1 /\ readyCalls >= ReadyThreshold /\ readyCalls <= ApiCalls + WorkCalls
    BY DEF IInv, ReadyInv
  <2>2. conf \in Config
    BY ConfigsAssumption DEF IInv, TypeOK
  <2>3. ApiCalls \in {0, 1} /\ WorkCalls \in {0, 1} /\ readyCalls \in Nat
    BY DEF ApiCalls, WorkCalls, IInv, TypeOK
  <2>4. ApiCalls = 1 => api # "off" /\ "http" \in opened /\ (conf.metricsPort => "metrics" \in opened)
    BY DEF ApiCalls
  <2>5. WorkCalls = 1 => work # "off" /\ "tasks" \in opened /\ (conf.obsPort => "obs" \in opened)
    BY DEF WorkCalls, Leaving
  <2>6. (~HasApi => ApiCalls = 0) /\ (~HasWorker => WorkCalls = 0)
    BY DEF ApiCalls, WorkCalls, Leaving, IInv, Phases
  <2>7. CASE conf.mode = "all"
    <3>1. ApiCalls = 1 /\ WorkCalls = 1
      BY <2>1, <2>3, <2>7 DEF ReadyThreshold
    <3>2. "schema" \in opened
      BY <3>1, <2>4, <2>7 DEF IInv, ReadyInv
    <3> QED
      BY <3>1, <3>2, <2>1, <2>4, <2>5 DEF NeededForReady
  <2>8. CASE conf.mode = "api"
    <3>1. ApiCalls = 1
      BY <2>1, <2>3, <2>6, <2>8 DEF ReadyThreshold, HasWorker
    <3> QED
      BY <3>1, <2>1, <2>4, <2>8 DEF NeededForReady, HasApi, HasWorker
  <2>9. CASE conf.mode = "worker"
    <3>1. WorkCalls = 1
      BY <2>1, <2>3, <2>6, <2>9 DEF ReadyThreshold, HasApi
    <3> QED
      BY <3>1, <2>1, <2>5, <2>9 DEF NeededForReady, HasApi, HasWorker
  <2> QED
    BY <2>2, <2>7, <2>8, <2>9 DEF Config
<1> QED
  BY <1>1, Invariance, PTL

(* Exit code 0 means that the worker did not fail, and the API not by      *)
(* itself (runAll, serveAPI).                                              *)
THEOREM ExitCorrect == Spec => []CleanExit
<1>1. IInv => CleanExit
  BY DEF IInv, CleanExit, EndInv, Phases, ApiInv
<1> QED
  BY <1>1, Invariance, PTL

(* Registry.Close comes after everybody who uses the connections, except   *)
(* the handlers that Shutdown has given up.                                *)
THEOREM RegistryCorrect == Spec => []RegistryOutlivesWork
<1>1. IInv => RegistryOutlivesWork
  BY DEF IInv, RegistryOutlivesWork, EndInv, Phases, ApiInv, WorkInv, Drained,
         NoRequestActive, NoTaskActive, Consuming
<1> QED
  BY <1>1, Invariance, PTL

(* No task is lost with the process: whatever ends it, short of being      *)
(* killed, has waited for the worker.                                      *)
THEOREM TasksCorrect == Spec => []NoTaskAbandoned
<1>1. IInv => NoTaskAbandoned
  BY DEF IInv, NoTaskAbandoned, EndInv, WorkInv, NoTaskActive, Consuming
<1> QED
  BY <1>1, Invariance, PTL
=============================================================================
