-------------------------- MODULE RequestPipeline --------------------------
(* One HTTP request on its way through the middleware chain of newEngine   *)
(* and back: logger, metrics, recovery, timeout, CORS, limiter, handler,   *)
(* and the service call that may hang, fail, or take effect without saying *)
(* so.  The context ends at any moment: by the deadline, or because the    *)
(* client went away.  Requests meet in the in-flight gauge only.           *)
(*                                                                         *)
(* Codes are named by their reason; "OK" is code 0.  Left out: headers,    *)
(* trace ids, messages, and the size of a body (too large is a bad body).  *)
EXTENDS Naturals, Sequences, FiniteSets

CONSTANTS
  Requests,  \* requests on their way at the same time
  Sends,     \* what each of them may ask for
  Configs    \* configurations to start with, a subset of Config

VARIABLES
  conf,      \* the configuration
  stage,     \* how far each request has come
  route,     \* what it asks for
  body,      \* what is known of its body: "sent", "bad", "stalled"
  ctx,       \* its context: "live", "expired" (deadline), "gone" (client)
  result,    \* what the service has returned
  panicking, \* requests whose handler has panicked, until Recovery
  answer,    \* [status, bodies, key]: what was written, and the metrics key
  label,     \* what metrics counted: [status, code]
  inflight,  \* the in-flight gauge
  effect,    \* requests that left a row or a queued task
  read,      \* what the transaction of a list request has read
  cause      \* history: why the handler did not succeed

vars == <<conf, stage, route, body, ctx, result, panicking, answer, label, inflight,
          effect, read, cause>>

-----------------------------------------------------------------------------
(* Codes and answers.                                                      *)
Config == [deadline : BOOLEAN, queue : BOOLEAN, devToken : BOOLEAN]

Routes == {"create", "list", "enqueue", "token", "me", "plain", "unknown",
           "preflight", "foreign"}

ASSUME RequestsAssumption == IsFiniteSet(Requests)
ASSUME ConfigsAssumption == Configs \subseteq Config
ASSUME SendsAssumption == Sends \in [Requests -> SUBSET Routes]

HasBody == {"create", "enqueue", "token"}
HasBind == HasBody \union {"list"}
HasEffect == {"create", "enqueue"}

HTTPStatus ==
  [ OK                |-> 200,
    INVALID_PARAMS    |-> 400,
    UNAUTHORIZED      |-> 401,
    REQUEST_TIMEOUT   |-> 408,
    TOO_MANY_REQUESTS |-> 429,
    INTERNAL_ERROR    |-> 500,
    DATABASE_ERROR    |-> 500,
    QUEUE_ERROR       |-> 500,
    QUEUE_UNAVAILABLE |-> 503,
    SERVICE_DISABLED  |-> 503 ]

Codes == DOMAIN HTTPStatus

(* The transaction of ExampleRepository.List: its snapshot, the total it   *)
(* has counted and the rows of its page.                                   *)
NoRead == [step |-> "none", rows |-> {}, total |-> 0, page |-> {}]

NoAnswer == [status |-> 0, bodies |-> <<>>, key |-> "none"]

(* c.JSON: the key for the metrics, then the envelope.  The status that    *)
(* was sent first stays.  (A Bug operator is the form a slip in the code   *)
(* would have; the mutants use it.)                                        *)
Write(a, code) ==
  [ status |-> IF a.status = 0 THEN HTTPStatus[code] ELSE a.status,
    bodies |-> Append(a.bodies, code),
    key    |-> code ]

(* requestTimedOut: a client that went away is no timeout.                 *)
BugRequestTimedOut(r) == ctx[r] # "live"

RequestTimedOut(r) == ctx[r] = "expired"

(* WriteError: a server error under an expired deadline is a timeout.      *)
Rewritten(r, e) ==
  IF HTTPStatus[e] >= 500 /\ RequestTimedOut(r) THEN "REQUEST_TIMEOUT" ELSE e

BugWriteError(r, e) == [Write(answer[r], Rewritten(r, e)) EXCEPT !.key = e]

WriteError(r, e) == Write(answer[r], Rewritten(r, e))

Written(r) == answer[r].status # 0

(* Timeout puts a deadline on the context that the handler and everything  *)
(* below it uses ...                                                       *)
BugHasDeadline == FALSE

HasDeadline == conf.deadline

(* ... and answers for a handler that has not written by then.             *)
BugMustAnswer(r) == ctx[r] = "expired"

MustAnswer(r) == ~Written(r) /\ ctx[r] = "expired"

(* The label HTTPMiddleware counts; without a key the code is 0, and gin   *)
(* has prepared the status of an unknown route.                            *)
LabelOf(r) ==
  [ status |-> IF Written(r) THEN answer[r].status ELSE 404,
    code   |-> IF answer[r].key = "none" THEN "OK" ELSE answer[r].key ]

Inside(r) == stage[r] \notin {"idle", "done"}

(* Between the attachment of the deadline and its cancellation.            *)
InContext(r) == stage[r] \in {"limit", "route", "bind", "service", "reply", "return"}

-----------------------------------------------------------------------------
Init ==
  /\ conf \in Configs
  /\ stage = [r \in Requests |-> "idle"]
  /\ route = [r \in Requests |-> "unknown"]
  /\ body = [r \in Requests |-> "sent"]
  /\ ctx = [r \in Requests |-> "live"]
  /\ result = [r \in Requests |-> "none"]
  /\ panicking = {}
  /\ answer = [r \in Requests |-> NoAnswer]
  /\ label = [r \in Requests |-> [status |-> 0, code |-> "none"]]
  /\ inflight = 0
  /\ effect = {}
  /\ read = [r \in Requests |-> NoRead]
  /\ cause = [r \in Requests |-> "none"]

(* A request enters: logger, metrics (in-flight + 1), and the timeout,     *)
(* body limit and header middlewares, that have nothing to decide yet.     *)
Enter(r) ==
  /\ stage[r] = "idle"
  /\ stage' = [stage EXCEPT ![r] = "limit"]
  /\ inflight' = inflight + 1
  /\ \E e \in Sends[r], b \in {"sent", "bad", "stalled"} :
       /\ b = "bad" => e \in HasBind
       /\ b = "stalled" => e \in HasBody
       /\ route' = [route EXCEPT ![r] = e]
       /\ body' = [body EXCEPT ![r] = b]
  /\ UNCHANGED <<conf, read, ctx, result, panicking, answer, label, effect, cause>>

(* CORS answers every OPTIONS request itself, without an envelope.         *)
Preflight(r) ==
  /\ stage[r] = "limit" /\ route[r] \in {"preflight", "foreign"}
  /\ stage' = [stage EXCEPT ![r] = "return"]
  /\ answer' = [answer EXCEPT ![r].status = IF route[r] = "foreign" THEN 403 ELSE 204]
  /\ UNCHANGED <<conf, read, route, body, ctx, result, panicking, label, inflight, effect, cause>>

(* The handler, or a middleware before it, writes a and returns.           *)
Answers(r, a, why) ==
  /\ stage' = [stage EXCEPT ![r] = "return"]
  /\ answer' = [answer EXCEPT ![r] = a]
  /\ cause' = [cause EXCEPT ![r] = why]
  /\ UNCHANGED <<conf, read, route, body, ctx, result, panicking, label, inflight, effect>>

Limited(r) ==
  /\ stage[r] = "limit" /\ route[r] \notin {"preflight", "foreign"}
  /\ Answers(r, Write(answer[r], "TOO_MANY_REQUESTS"), "client")

PassesLimit(r) ==
  /\ stage[r] = "limit" /\ route[r] \notin {"preflight", "foreign"}
  /\ stage' = [stage EXCEPT ![r] = "route"]
  /\ UNCHANGED <<conf, read, route, body, ctx, result, panicking, answer, label, inflight,
                 effect, cause>>

(* The router.  /auth/me is behind BearerAuth; /livez and the like answer  *)
(* without an envelope; an unknown path leaves the answer to gin.          *)
Route(r) ==
  /\ stage[r] = "route"
  /\ \/ /\ route[r] = "me"
        /\ \E valid \in BOOLEAN :
             IF valid THEN Answers(r, Write(answer[r], "OK"), "none")
                      ELSE Answers(r, Write(answer[r], "UNAUTHORIZED"), "client")
     \/ /\ route[r] = "token" /\ ~conf.devToken
        /\ Answers(r, WriteError(r, "SERVICE_DISABLED"), "disabled")
     \/ /\ route[r] = "plain"
        /\ Answers(r, [answer[r] EXCEPT !.status = 200], "none")
     \/ /\ route[r] = "unknown"
        /\ Answers(r, answer[r], "client")
     \/ /\ route[r] \in HasBind /\ (route[r] = "token" => conf.devToken)
        /\ stage' = [stage EXCEPT ![r] = "bind"]
        /\ UNCHANGED <<conf, read, route, body, ctx, result, panicking, answer, label,
                       inflight, effect, cause>>

(* ShouldBind succeeds and the service is called.                          *)
Bind(r) ==
  /\ stage[r] = "bind" /\ body[r] = "sent"
  /\ stage' = [stage EXCEPT ![r] = "service"]
  /\ UNCHANGED <<conf, read, route, body, ctx, result, panicking, answer, label, inflight,
                 effect, cause>>

(* WriteValidationError, which knows nothing of the deadline.              *)
BugBindFails(r) ==
  /\ stage[r] = "bind" /\ body[r] = "bad"
  /\ stage' = [stage EXCEPT ![r] = "service"]
  /\ answer' = [answer EXCEPT ![r] = Write(@, "INVALID_PARAMS")]
  /\ UNCHANGED <<conf, read, route, body, ctx, result, panicking, label, inflight, effect, cause>>

BindFails(r) ==
  /\ stage[r] = "bind" /\ body[r] = "bad"
  /\ Answers(r, Write(answer[r], "INVALID_PARAMS"), "client")

(* The server's ReadTimeout ends the read of a body that does not arrive:  *)
(* after the deadline of the context, which the read does not look at, or  *)
(* before it when the headers came late as well.                           *)
ReadTimesOut(r) ==
  /\ stage[r] = "bind" /\ body[r] = "stalled"
  /\ Answers(r, Write(answer[r], "INVALID_PARAMS"),
             IF ctx[r] = "expired" THEN "readTimeout" ELSE "client")
-----------------------------------------------------------------------------
(* The service and what is below it.                                       *)

(* The service returns e, or "OK".                                         *)
Returns(r, e, why) ==
  /\ stage' = [stage EXCEPT ![r] = "reply"]
  /\ result' = [result EXCEPT ![r] = e]
  /\ cause' = [cause EXCEPT ![r] = why]
  /\ UNCHANGED <<conf, read, route, body, ctx, panicking, answer, label, inflight, effect>>

Fault(r) == IF route[r] = "enqueue" THEN "QUEUE_ERROR" ELSE "DATABASE_ERROR"

CallsOut(r) == route[r] = "enqueue" => conf.queue

(* GenerateToken: no call, but a blank subject is refused, and a manager   *)
(* without a lifetime or a signature that fails is the server's fault.     *)
TokenReturns(r) ==
  /\ stage[r] = "service" /\ route[r] = "token"
  /\ \/ Returns(r, "OK", "none")
     \/ Returns(r, "INVALID_PARAMS", "client")
     \/ Returns(r, "INTERNAL_ERROR", "fault")

QueueMissing(r) ==
  /\ stage[r] = "service" /\ ~CallsOut(r)
  /\ Returns(r, "QUEUE_UNAVAILABLE", "disabled")

(* The row is committed or the task queued, maybe after the call was given *)
(* up: the statement or the command was already on its way.                *)
TakesEffect(r) ==
  /\ route[r] \in HasEffect /\ CallsOut(r) /\ r \notin effect
  /\ stage[r] = "service" \/ cause[r] \in {"fault", "deadline", "gone"}
  /\ effect' = effect \union {r}
  /\ UNCHANGED <<conf, read, stage, route, body, ctx, result, panicking, answer, label,
                 inflight, cause>>

(* The rows of table examples that a new snapshot sees.                    *)
Rows == {q \in effect : route[q] = "create"}

(* List runs both statements in one repeatable read transaction, so that   *)
(* the second sees what the first saw; under READ COMMITTED it would see   *)
(* the rows of its own moment.                                             *)
BugSnapshot(r) == Rows

Snapshot(r) == read[r].rows

(* CountExamples, the first statement, which takes the snapshot.           *)
CountExamples(r) ==
  /\ stage[r] = "service" /\ route[r] = "list" /\ read[r].step = "none"
  /\ read' = [read EXCEPT ![r] = [step |-> "counted", rows |-> Rows,
                                   total |-> Cardinality(Rows), page |-> {}]]
  /\ UNCHANGED <<conf, stage, route, body, ctx, result, panicking, answer, label,
                 inflight, effect, cause>>

(* ListExamples, with a limit that the rows do not reach.                  *)
ListExamples(r) ==
  /\ stage[r] = "service" /\ read[r].step = "counted"
  /\ read' = [read EXCEPT ![r].step = "listed", ![r].page = Snapshot(r)]
  /\ UNCHANGED <<conf, stage, route, body, ctx, result, panicking, answer, label,
                 inflight, effect, cause>>

(* The statement is done, the task queued, or the transaction committed.   *)
CallReturns(r) ==
  /\ stage[r] = "service" /\ route[r] # "token" /\ CallsOut(r)
  /\ route[r] \in HasEffect => r \in effect
  /\ route[r] = "list" => read[r].step = "listed"
  /\ Returns(r, "OK", "none")

(* The database or Redis fails for a reason of its own.                    *)
CallFails(r) ==
  /\ stage[r] = "service" /\ route[r] # "token" /\ CallsOut(r)
  /\ Returns(r, Fault(r), "fault")

(* The call ends because its context has ended (pgx), or soon after it     *)
(* (go-redis, which has read timeouts of its own).                         *)
CallIsCut(r) ==
  /\ stage[r] = "service" /\ route[r] # "token" /\ CallsOut(r)
  /\ ctx[r] # "live"
  /\ Returns(r, Fault(r), IF ctx[r] = "expired" THEN "deadline" ELSE "gone")

(* WriteSuccess or WriteError.                                             *)
Reply(r) ==
  /\ stage[r] = "reply"
  /\ IF result[r] = "OK" THEN Answers(r, Write(answer[r], "OK"), cause[r])
                         ELSE Answers(r, WriteError(r, result[r]), cause[r])

(* A handler panics before it has answered; the stack unwinds past Timeout *)
(* up to Recovery.                                                         *)
Panic(r) ==
  /\ stage[r] \in {"bind", "service", "reply"}
  /\ stage' = [stage EXCEPT ![r] = "recovery"]
  /\ panicking' = panicking \union {r}
  /\ cause' = [cause EXCEPT ![r] = "panic"]
  /\ UNCHANGED <<conf, read, route, body, ctx, result, answer, label, inflight, effect>>
-----------------------------------------------------------------------------
(* The way back.                                                           *)

(* Timeout: an answer nobody has written by the deadline is written here.  *)
TimeoutReturns(r) ==
  /\ stage[r] = "return"
  /\ stage' = [stage EXCEPT ![r] = "recovery"]
  /\ IF MustAnswer(r)
       THEN answer' = [answer EXCEPT ![r] = Write(@, "REQUEST_TIMEOUT")]
       ELSE UNCHANGED answer
  /\ UNCHANGED <<conf, read, route, body, ctx, result, panicking, label, inflight, effect, cause>>

(* Recovery turns a panic into INTERNAL_ERROR; were it outside the metrics *)
(* the panic would pass through HTTPMiddleware.                            *)
Recover(r, next) ==
  /\ stage[r] = "recovery"
  /\ stage' = [stage EXCEPT ![r] = next]
  /\ answer' = [answer EXCEPT ![r] = IF r \in panicking THEN Write(@, "INTERNAL_ERROR")
                                                        ELSE @]
  /\ panicking' = panicking \ {r}
  /\ UNCHANGED <<conf, read, route, body, ctx, result, label, inflight, effect, cause>>

BugRecovery(r) == Recover(r, IF r \in panicking THEN "done" ELSE "count")

Recovery(r) == Recover(r, "count")

(* HTTPMiddleware counts, and gin sends its own page for an unknown path.  *)
Count(r) ==
  /\ stage[r] = "count"
  /\ stage' = [stage EXCEPT ![r] = "done"]
  /\ inflight' = inflight - 1
  /\ label' = [label EXCEPT ![r] = LabelOf(r)]
  /\ answer' = [answer EXCEPT ![r].status = IF Written(r) THEN @ ELSE 404]
  /\ UNCHANGED <<conf, read, route, body, ctx, result, panicking, effect, cause>>
-----------------------------------------------------------------------------
(* The world outside.                                                      *)
Expire(r) ==
  /\ InContext(r) /\ HasDeadline /\ ctx[r] = "live"
  /\ ctx' = [ctx EXCEPT ![r] = "expired"]
  /\ UNCHANGED <<conf, read, stage, route, body, result, panicking, answer, label, inflight,
                 effect, cause>>

(* net/http watches the connection once the body has been read.            *)
ClientGone(r) ==
  /\ InContext(r) /\ ctx[r] = "live" /\ body[r] # "stalled"
  /\ ctx' = [ctx EXCEPT ![r] = "gone"]
  /\ UNCHANGED <<conf, read, stage, route, body, result, panicking, answer, label, inflight,
                 effect, cause>>

(* The rest of a body arrives, or the connection breaks.                   *)
BodyMoves(r) ==
  /\ stage[r] = "bind" /\ body[r] = "stalled"
  /\ \E b \in {"sent", "bad"} : body' = [body EXCEPT ![r] = b]
  /\ UNCHANGED <<conf, read, stage, route, ctx, result, panicking, answer, label, inflight,
                 effect, cause>>
-----------------------------------------------------------------------------
(* What the goroutine of a request does by itself.                         *)
Step(r) ==
  \/ Preflight(r) \/ Limited(r) \/ PassesLimit(r) \/ Route(r)
  \/ Bind(r) \/ BindFails(r) \/ ReadTimesOut(r)
  \/ TokenReturns(r) \/ QueueMissing(r) \/ Reply(r)
  \/ TimeoutReturns(r) \/ Recovery(r) \/ Count(r)

Next ==
  \E r \in Requests :
    \/ Enter(r) \/ Step(r) \/ Panic(r)
    \/ TakesEffect(r) \/ CountExamples(r) \/ ListExamples(r) \/ CallReturns(r) \/ CallFails(r) \/ CallIsCut(r)
    \/ Expire(r) \/ ClientGone(r) \/ BodyMoves(r)

Spec == Init /\ [][Next]_vars

(* Goroutines are scheduled, deadlines come, and a call whose context has  *)
(* ended returns.  A database or Redis that answers, or fails by itself,   *)
(* is not assumed: it may hang.                                            *)
Fairness == \A r \in Requests : WF_vars(Step(r)) /\ WF_vars(Expire(r)) /\ WF_vars(CallIsCut(r))

FairSpec == Spec /\ Fairness
-----------------------------------------------------------------------------
(* Properties.                                                             *)

Answered(r, code) == code \in {answer[r].bodies[i] : i \in DOMAIN answer[r].bodies}

Answer == [status : Nat, bodies : Seq(Codes), key : Codes \union {"none"}]

Read == [step : {"none", "counted", "listed"}, rows : SUBSET Requests,
         total : Nat, page : SUBSET Requests]

(* Types of the variables.                                                 *)
TypeOK ==
  /\ conf \in Configs
  /\ stage \in [Requests -> {"idle", "limit", "route", "bind", "service", "reply",
                             "return", "recovery", "count", "done"}]
  /\ route \in [Requests -> Routes]
  /\ body \in [Requests -> {"sent", "bad", "stalled"}]
  /\ ctx \in [Requests -> {"live", "expired", "gone"}]
  /\ result \in [Requests -> Codes \union {"none"}]
  /\ panicking \subseteq Requests
  /\ answer \in [Requests -> Answer]
  /\ label \in [Requests -> [status : Nat, code : Codes \union {"none"}]]
  /\ inflight \in Nat
  /\ effect \subseteq Requests
  /\ read \in [Requests -> Read]
  /\ cause \in [Requests -> {"none", "client", "disabled", "readTimeout", "fault",
                             "deadline", "gone", "panic"}]

(* The in-flight gauge counts the requests inside and nothing else: it     *)
(* does not drift, whatever ends a request, a panic included.              *)
GaugeIsExact == inflight = Cardinality({r \in Requests : Inside(r)})

(* A request is answered once.  Only preflights, plain pages and unknown   *)
(* paths have no envelope, and an unknown path has one when it was slow.   *)
OneAnswer ==
  \A r \in Requests :
    /\ Len(answer[r].bodies) <= 1
    /\ stage[r] = "done" =>
         /\ answer[r].status # 0
         /\ Len(answer[r].bodies) = 1
              \/ route[r] \in {"preflight", "foreign", "plain", "unknown"}

(* Metrics count every request under the status and the code the client    *)
(* was sent, also those rejected on the way and those that panicked.       *)
CountedAsAnswered ==
  \A r \in Requests :
    stage[r] = "done" =>
      label[r] = [ status |-> answer[r].status,
                   code |-> IF answer[r].bodies = <<>> THEN "OK" ELSE answer[r].bodies[1] ]

(* A failure is blamed on the right one: what the deadline cut is never a  *)
(* database or queue error, a timeout is told to nobody whose deadline has *)
(* not expired, and an error of the client stays one.                      *)
BlameIsRight ==
  \A r \in Requests :
    stage[r] = "done" =>
      /\ cause[r] = "deadline" => Answered(r, "REQUEST_TIMEOUT")
      /\ Answered(r, "REQUEST_TIMEOUT") => ctx[r] = "expired"
      /\ Answered(r, "DATABASE_ERROR") \/ Answered(r, "QUEUE_ERROR")
           => cause[r] \in {"fault", "gone"}
      /\ cause[r] = "client" => answer[r].status < 500

(* Codes that say that nothing was attempted.                              *)
Refusals == {"INVALID_PARAMS", "UNAUTHORIZED", "TOO_MANY_REQUESTS", "QUEUE_UNAVAILABLE",
             "SERVICE_DISABLED"}

(* A success has happened, and what was refused has not, nor will it.      *)
AnswerIsHonest ==
  \A r \in Requests :
    /\ Answered(r, "OK") /\ route[r] \in HasEffect => r \in effect
    /\ (\E code \in Refusals : Answered(r, code)) => r \notin effect

(* The total and the page that a list request answers are of one moment,   *)
(* also when rows are inserted between its two statements.                 *)
ListIsOneMoment ==
  \A r \in Requests :
    route[r] = "list" /\ Answered(r, "OK") =>
      read[r].total = Cardinality(read[r].page) /\ read[r].page \subseteq effect

(* With a deadline configured every request ends and is counted, even when *)
(* the database hangs and the client waits for ever.                       *)
RequestEnds == \A r \in Requests : (Inside(r) /\ conf.deadline) ~> stage[r] = "done"

=============================================================================
