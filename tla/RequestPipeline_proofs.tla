------------------------ MODULE RequestPipeline_proofs ------------------------
(* Proofs about RequestPipeline, for any number of requests at the same    *)
(* time, any kinds of them and any configurations, and, at the end, about  *)
(* the tokens that its bearer routes ask for.                              *)
EXTENDS RequestPipeline, Tokens, FiniteSetTheorems, TLAPS

-----------------------------------------------------------------------------
(* The inductive invariant.  Parts speak of the metrics key of an answer,  *)
(* which stands for its envelope because the two are written together.     *)

Before == {"idle", "limit", "route", "bind"}
Early == Before \union {"service", "reply"}
Bare == {"preflight", "foreign", "plain", "unknown"}

(* A complete answer.                                                      *)
Envelope(code) == [status |-> HTTPStatus[code], bodies |-> <<code>>, key |-> code]

(* What is written is nothing, a bare status, or one envelope with its key.*)
Written1(r) ==
  \/ answer[r].bodies = <<>> /\ answer[r].key = "none"
  \/ \E code \in Codes : answer[r] = Envelope(code)

(* Nothing is written, and nobody has panicked, before the way back.       *)
EarlyIsSilent(r) ==
  /\ stage[r] \in Early => answer[r] = NoAnswer /\ r \notin panicking
  /\ stage[r] \in Before => cause[r] = "none" /\ r \notin effect
  /\ stage[r] = "service" => cause[r] = "none"
  /\ r \in panicking => stage[r] = "recovery" /\ answer[r] = NoAnswer /\ cause[r] = "panic"

(* Only these leave the handlers without an envelope.                      *)
SilentIsBare(r) ==
  answer[r].key = "none" /\ stage[r] \notin Early /\ r \notin panicking
    => route[r] \in Bare

(* What the service has returned, and why.                                 *)
ResultIsCaused(r) ==
  stage[r] = "reply" =>
    \/ /\ result[r] = "OK" /\ cause[r] = "none"
       /\ route[r] \in HasEffect => r \in effect
       /\ route[r] = "list" => read[r].step = "listed"
    \/ result[r] = "INVALID_PARAMS" /\ cause[r] = "client" /\ route[r] = "token"
    \/ result[r] = "INTERNAL_ERROR" /\ cause[r] = "fault" /\ route[r] = "token"
    \/ result[r] = "QUEUE_UNAVAILABLE" /\ cause[r] = "disabled" /\ ~CallsOut(r)
    \/ result[r] \in {"DATABASE_ERROR", "QUEUE_ERROR"} /\ cause[r] \in {"fault", "deadline", "gone"}

(* Effects are of requests that reached the database or Redis.             *)
EffectIsCalled(r) == r \in effect => route[r] \in HasEffect /\ CallsOut(r)

(* How an answer, its cause and the end of the context go together.        *)
AnswerIsCaused(r) ==
  /\ answer[r].key = "REQUEST_TIMEOUT" => ctx[r] = "expired"
  /\ cause[r] = "deadline" =>
       ctx[r] = "expired" /\ (stage[r] = "reply" \/ answer[r].key = "REQUEST_TIMEOUT")
  /\ answer[r].key \in {"DATABASE_ERROR", "QUEUE_ERROR"} => cause[r] \in {"fault", "gone"}
  /\ cause[r] = "client" => answer[r].status < 500

(* A success had its effect; a refusal has none, and cannot get one.       *)
AnswerIsTrue(r) ==
  /\ answer[r].key = "OK" =>
       /\ route[r] \in HasEffect => r \in effect
       /\ route[r] = "list" => read[r].step = "listed"
  /\ answer[r].key \in Refusals =>
       r \notin effect /\ cause[r] \in {"client", "disabled", "readTimeout"}

(* What metrics counted is what was sent.                                  *)
LabelIsTrue(r) ==
  stage[r] = "done" =>
    /\ answer[r].status # 0
    /\ label[r] = [ status |-> answer[r].status,
                    code |-> IF answer[r].key = "none" THEN "OK" ELSE answer[r].key ]

(* A list transaction reads one snapshot.                                  *)
ReadIsOneMoment(r) ==
  /\ read[r].rows \subseteq effect
  /\ read[r].step # "none" => read[r].total = Cardinality(read[r].rows)
  /\ read[r].step = "listed" => read[r].page = read[r].rows

RequestInv(r) ==
  /\ Written1(r)
  /\ EarlyIsSilent(r)
  /\ SilentIsBare(r)
  /\ ResultIsCaused(r)
  /\ EffectIsCalled(r)
  /\ AnswerIsCaused(r)
  /\ AnswerIsTrue(r)
  /\ LabelIsTrue(r)
  /\ ReadIsOneMoment(r)

IInv == TypeOK /\ GaugeIsExact /\ \A r \in Requests : RequestInv(r)

-----------------------------------------------------------------------------
(* Codes.                                                                  *)
LEMMA CodesAre ==
  Codes = {"OK", "INVALID_PARAMS", "UNAUTHORIZED", "REQUEST_TIMEOUT",
           "TOO_MANY_REQUESTS", "INTERNAL_ERROR", "DATABASE_ERROR", "QUEUE_ERROR",
           "QUEUE_UNAVAILABLE", "SERVICE_DISABLED"}
  BY DEF Codes, HTTPStatus

LEMMA StatusFacts ==
  /\ \A code \in Codes : HTTPStatus[code] \in Nat \ {0}
  /\ \A code \in {"INVALID_PARAMS", "UNAUTHORIZED", "TOO_MANY_REQUESTS", "REQUEST_TIMEOUT"} :
       HTTPStatus[code] < 500
  /\ \A code \in {"DATABASE_ERROR", "QUEUE_ERROR", "QUEUE_UNAVAILABLE", "SERVICE_DISABLED"} :
       HTTPStatus[code] >= 500
  BY CodesAre DEF HTTPStatus

(* The first envelope.                                                     *)
LEMMA FirstWrite ==
  ASSUME NEW a, NEW code,
         a \in Answer,
         a.status = 0, a.bodies = <<>>
  PROVE  Write(a, code) = Envelope(code)
  BY DEF Write, Envelope, Answer

LEMMA EnvelopeType ==
  ASSUME NEW code \in Codes
  PROVE  Envelope(code) \in Answer
  BY StatusFacts DEF Envelope, Answer

(* One step of one request.                                                *)
Act(r) ==
  \/ Enter(r) \/ Step(r) \/ Panic(r)
  \/ TakesEffect(r) \/ CountExamples(r) \/ ListExamples(r) \/ CallReturns(r)
  \/ CallFails(r) \/ CallIsCut(r) \/ Expire(r) \/ ClientGone(r) \/ BodyMoves(r)

-----------------------------------------------------------------------------
(* Types.                                                                  *)
LEMMA WriteType ==
  ASSUME NEW code \in Codes,
         NEW a \in Answer
  PROVE  Write(a, code) \in Answer
  BY StatusFacts DEF Write, Answer

LEMMA WriteErrorType ==
  ASSUME TypeOK, NEW r \in Requests, NEW code \in Codes
  PROVE  WriteError(r, code) \in Answer
<1>1. Rewritten(r, code) \in Codes
  BY CodesAre DEF Rewritten
<1> QED
  BY <1>1, WriteType DEF WriteError, TypeOK

LEMMA StatusType ==
  ASSUME NEW a \in Answer, NEW s \in Nat
  PROVE  [a EXCEPT !.status = s] \in Answer
  BY DEF Answer

LEMMA ReadType ==
  ASSUME NEW x \in Read
  PROVE  [x EXCEPT !.step = "listed", !.page = x.rows] \in Read
<1>1. x.rows \in SUBSET Requests
  BY DEF Read
<1> QED
  BY <1>1 DEF Read

LEMMA AnswersType ==
  ASSUME TypeOK, NEW r \in Requests, NEW a \in Answer,
         NEW why \in {"none", "client", "disabled", "readTimeout", "fault", "deadline",
                      "gone", "panic"},
         Answers(r, a, why)
  PROVE  TypeOK'
  BY DEF Answers, TypeOK

-----------------------------------------------------------------------------
(* A step of one request leaves the others alone, but for the effects they *)
(* may come to see.                                                        *)
LEMMA Others ==
  ASSUME TypeOK, NEW r \in Requests, Act(r), NEW q \in Requests, q # r
  PROVE  /\ conf' = conf
         /\ stage'[q] = stage[q] /\ route'[q] = route[q] /\ body'[q] = body[q]
         /\ ctx'[q] = ctx[q] /\ result'[q] = result[q] /\ answer'[q] = answer[q]
         /\ label'[q] = label[q] /\ read'[q] = read[q] /\ cause'[q] = cause[q]
         /\ q \in panicking' <=> q \in panicking
         /\ q \in effect' <=> q \in effect
         /\ effect \subseteq effect'
<1> USE DEF TypeOK
<1>1. CASE Enter(r)
  BY <1>1 DEF Enter
<1>2. CASE Preflight(r)
  BY <1>2 DEF Preflight
<1>3. CASE Limited(r)
  BY <1>3 DEF Limited, Answers
<1>4. CASE PassesLimit(r)
  BY <1>4 DEF PassesLimit
<1>5. CASE Route(r)
  BY <1>5 DEF Route, Answers
<1>6. CASE Bind(r)
  BY <1>6 DEF Bind
<1>7. CASE BindFails(r)
  BY <1>7 DEF BindFails, Answers
<1>8. CASE ReadTimesOut(r)
  BY <1>8 DEF ReadTimesOut, Answers
<1>9. CASE TokenReturns(r)
  BY <1>9 DEF TokenReturns, Returns
<1>10. CASE QueueMissing(r)
  BY <1>10 DEF QueueMissing, Returns
<1>11. CASE Reply(r)
  BY <1>11 DEF Reply, Answers
<1>12. CASE TimeoutReturns(r)
  BY <1>12 DEF TimeoutReturns
<1>13. CASE Recovery(r)
  BY <1>13 DEF Recovery, Recover
<1>14. CASE Count(r)
  BY <1>14 DEF Count
<1>15. CASE Panic(r)
  BY <1>15 DEF Panic
<1>16. CASE TakesEffect(r)
  BY <1>16 DEF TakesEffect
<1>17. CASE CountExamples(r)
  BY <1>17 DEF CountExamples
<1>18. CASE ListExamples(r)
  BY <1>18 DEF ListExamples, Snapshot
<1>19. CASE CallReturns(r)
  BY <1>19 DEF CallReturns, Returns
<1>20. CASE CallFails(r)
  BY <1>20 DEF CallFails, Returns
<1>21. CASE CallIsCut(r)
  BY <1>21 DEF CallIsCut, Returns
<1>22. CASE Expire(r)
  BY <1>22 DEF Expire
<1>23. CASE ClientGone(r)
  BY <1>23 DEF ClientGone
<1>24. CASE BodyMoves(r)
  BY <1>24 DEF BodyMoves
<1> QED
  BY <1>1, <1>2, <1>3, <1>4, <1>5, <1>6, <1>7, <1>8, <1>9, <1>10, <1>11, <1>12, <1>13,
     <1>14, <1>15, <1>16, <1>17, <1>18, <1>19, <1>20, <1>21, <1>22, <1>23, <1>24 DEF Act, Step

(* Only Enter and Count move a request in or out.                          *)
LEMMA Steady ==
  ASSUME TypeOK, NEW r \in Requests, Act(r), ~Enter(r), ~Count(r)
  PROVE  (Inside(r)' <=> Inside(r)) /\ inflight' = inflight
<1> USE DEF TypeOK, Inside
<1>1. ~Enter(r)
  OBVIOUS
<1>2. CASE Preflight(r)
  BY <1>2 DEF Preflight
<1>3. CASE Limited(r)
  BY <1>3 DEF Limited, Answers
<1>4. CASE PassesLimit(r)
  BY <1>4 DEF PassesLimit
<1>5. CASE Route(r)
  BY <1>5 DEF Route, Answers
<1>6. CASE Bind(r)
  BY <1>6 DEF Bind
<1>7. CASE BindFails(r)
  BY <1>7 DEF BindFails, Answers
<1>8. CASE ReadTimesOut(r)
  BY <1>8 DEF ReadTimesOut, Answers
<1>9. CASE TokenReturns(r)
  BY <1>9 DEF TokenReturns, Returns
<1>10. CASE QueueMissing(r)
  BY <1>10 DEF QueueMissing, Returns
<1>11. CASE Reply(r)
  BY <1>11 DEF Reply, Answers
<1>12. CASE TimeoutReturns(r)
  BY <1>12 DEF TimeoutReturns
<1>13. CASE Recovery(r)
  BY <1>13 DEF Recovery, Recover
<1>14. ~Count(r)
  OBVIOUS
<1>15. CASE Panic(r)
  BY <1>15 DEF Panic
<1>16. CASE TakesEffect(r)
  BY <1>16 DEF TakesEffect
<1>17. CASE CountExamples(r)
  BY <1>17 DEF CountExamples
<1>18. CASE ListExamples(r)
  BY <1>18 DEF ListExamples, Snapshot
<1>19. CASE CallReturns(r)
  BY <1>19 DEF CallReturns, Returns
<1>20. CASE CallFails(r)
  BY <1>20 DEF CallFails, Returns
<1>21. CASE CallIsCut(r)
  BY <1>21 DEF CallIsCut, Returns
<1>22. CASE Expire(r)
  BY <1>22 DEF Expire
<1>23. CASE ClientGone(r)
  BY <1>23 DEF ClientGone
<1>24. CASE BodyMoves(r)
  BY <1>24 DEF BodyMoves
<1> QED
  BY <1>1, <1>2, <1>3, <1>4, <1>5, <1>6, <1>7, <1>8, <1>9, <1>10, <1>11, <1>12, <1>13,
     <1>14, <1>15, <1>16, <1>17, <1>18, <1>19, <1>20, <1>21, <1>22, <1>23, <1>24 DEF Act, Step

LEMMA GaugeStep ==
  ASSUME TypeOK, GaugeIsExact, NEW r \in Requests, Act(r)
  PROVE  GaugeIsExact' /\ inflight' \in Nat
<1> DEFINE In == {q \in Requests : Inside(q)}
<1>1. IsFiniteSet(In) /\ Cardinality(In) \in Nat
  BY RequestsAssumption, FS_Subset, FS_CardinalityType
<1>2. \A q \in Requests : q # r => (Inside(q)' <=> Inside(q))
  BY Others DEF Inside
<1>3. CASE Enter(r)
  <2>1. r \notin In /\ Inside(r)' /\ inflight' = inflight + 1
    BY <1>3 DEF Enter, Inside, TypeOK
  <2>2. In' = In \union {r}
    BY <1>2, <2>1
  <2>3. Cardinality(In') = Cardinality(In) + 1
    BY <1>1, <2>1, <2>2, FS_AddElement
  <2> QED
    BY <1>1, <2>1, <2>3 DEF GaugeIsExact
<1>4. CASE Count(r)
  <2>1. r \in In /\ ~Inside(r)' /\ inflight' = inflight - 1
    BY <1>4 DEF Count, Inside, TypeOK
  <2>2. In' = In \ {r}
    BY <1>2, <2>1
  <2>3. IsFiniteSet(In') /\ Cardinality(In') = Cardinality(In) - 1
    BY <1>1, <2>1, <2>2, FS_RemoveElement
  <2>4. Cardinality(In') \in Nat
    BY <2>3, FS_CardinalityType
  <2> QED
    BY <1>1, <2>1, <2>3, <2>4 DEF GaugeIsExact
<1>5. CASE ~Enter(r) /\ ~Count(r)
  <2>1. (Inside(r)' <=> Inside(r)) /\ inflight' = inflight
    BY <1>5, Steady
  <2>2. In' = In
    BY <1>2, <2>1
  <2> QED
    BY <1>1, <2>1, <2>2 DEF GaugeIsExact
<1> QED
  BY <1>3, <1>4, <1>5

LEMMA TypeStep ==
  ASSUME TypeOK, NEW r \in Requests, Act(r), ResultIsCaused(r), inflight' \in Nat
  PROVE  TypeOK'
<1> USE DEF TypeOK
<1>1. CASE Enter(r)
  <2>1. PICK e \in Sends[r], b \in {"sent", "bad", "stalled"} :
          route' = [route EXCEPT ![r] = e] /\ body' = [body EXCEPT ![r] = b]
    BY <1>1 DEF Enter
  <2>2. e \in Routes
    BY SendsAssumption
  <2> QED
    BY <1>1, <2>1, <2>2 DEF Enter
<1>2. CASE Preflight(r)
  <2>1. PICK s \in {403, 204} : answer' = [answer EXCEPT ![r] = [answer[r] EXCEPT !.status = s]]
    BY <1>2 DEF Preflight
  <2>3. /\ stage' = [stage EXCEPT ![r] = "return"]
        /\ UNCHANGED <<conf, read, route, body, ctx, result, panicking, label, inflight,
                       effect, cause>>
    BY <1>2 DEF Preflight
  <2>2. [answer[r] EXCEPT !.status = s] \in Answer
    <3>1. answer[r] \in Answer /\ s \in Nat
      OBVIOUS
    <3> QED
      BY <3>1, StatusType
  <2> QED
    BY <2>1, <2>2, <2>3
<1>3. CASE Limited(r)
  BY <1>3, CodesAre, WriteType, AnswersType DEF Limited
<1>4. CASE PassesLimit(r)
  BY <1>4 DEF PassesLimit
<1>5. CASE Route(r)
  <2>1. CASE route[r] = "me" /\ \E code \in {"OK", "UNAUTHORIZED"}, why \in {"none", "client"} :
                              Answers(r, Write(answer[r], code), why)
    BY <2>1, CodesAre, WriteType, AnswersType
  <2>2. CASE Answers(r, WriteError(r, "SERVICE_DISABLED"), "disabled")
    BY <2>2, CodesAre, WriteErrorType, AnswersType
  <2>3. ASSUME \/ Answers(r, [answer[r] EXCEPT !.status = 200], "none")
               \/ Answers(r, answer[r], "client")
        PROVE  TypeOK'
    <3>1. answer[r] \in Answer
      OBVIOUS
    <3>2. [answer[r] EXCEPT !.status = 200] \in Answer
      BY <3>1, StatusType
    <3>3. ASSUME Answers(r, [answer[r] EXCEPT !.status = 200], "none") PROVE TypeOK'
      <4> HIDE DEF TypeOK
      <4> QED
        BY <3>2, <3>3, AnswersType
    <3>4. ASSUME Answers(r, answer[r], "client") PROVE TypeOK'
      <4> HIDE DEF TypeOK
      <4> QED
        BY <3>1, <3>4, AnswersType
    <3> QED
      BY <2>3, <3>3, <3>4
  <2>4. CASE /\ stage' = [stage EXCEPT ![r] = "bind"]
             /\ UNCHANGED <<conf, read, route, body, ctx, result, panicking, answer,
                            label, inflight, effect, cause>>
    BY <2>4
  <2> QED
    BY <1>5, <2>1, <2>2, <2>3, <2>4 DEF Route
<1>6. CASE Bind(r)
  BY <1>6 DEF Bind
<1>7. CASE BindFails(r)
  BY <1>7, CodesAre, WriteType, AnswersType DEF BindFails
<1>8. CASE ReadTimesOut(r)
  BY <1>8, CodesAre, WriteType DEF ReadTimesOut, Answers
<1>9. CASE TokenReturns(r)
  <2>1. \/ Returns(r, "OK", "none") \/ Returns(r, "INVALID_PARAMS", "client")
        \/ Returns(r, "INTERNAL_ERROR", "fault")
    BY <1>9 DEF TokenReturns
  <2> QED
    BY <2>1, CodesAre DEF Returns
<1>10. CASE QueueMissing(r)
  BY <1>10, CodesAre DEF QueueMissing, Returns
<1>11. CASE Reply(r)
  <2>1. result[r] \in Codes
    BY <1>11, CodesAre DEF Reply, ResultIsCaused
  <2>2. Write(answer[r], "OK") \in Answer /\ WriteError(r, result[r]) \in Answer
    BY <2>1, CodesAre, WriteType, WriteErrorType
  <2>3. \/ Answers(r, Write(answer[r], "OK"), cause[r])
        \/ Answers(r, WriteError(r, result[r]), cause[r])
    BY <1>11 DEF Reply
  <2>4. cause[r] \in {"none", "client", "disabled", "readTimeout", "fault", "deadline",
                     "gone", "panic"}
    OBVIOUS
  <2> QED
    BY <2>2, <2>3, <2>4, AnswersType
<1>12. CASE TimeoutReturns(r)
  <2>1. Write(answer[r], "REQUEST_TIMEOUT") \in Answer
    BY CodesAre, WriteType
  <2> QED
    BY <1>12, <2>1 DEF TimeoutReturns
<1>13. CASE Recovery(r)
  BY <1>13, CodesAre, WriteType DEF Recovery, Recover
<1>14. CASE Count(r)
  <2>1. LabelOf(r) \in [status : Nat, code : Codes \union {"none"}]
    BY CodesAre DEF LabelOf, Answer
  <2>2. PICK s \in {answer[r].status, 404} :
          answer' = [answer EXCEPT ![r] = [answer[r] EXCEPT !.status = s]]
    BY <1>14 DEF Count
  <2>3. [answer[r] EXCEPT !.status = s] \in Answer
    <3>1. answer[r] \in Answer /\ s \in Nat
      BY DEF Answer
    <3> QED
      BY <3>1, StatusType
  <2> QED
    BY <1>14, <2>1, <2>2, <2>3 DEF Count
<1>15. CASE Panic(r)
  BY <1>15 DEF Panic
<1>16. CASE TakesEffect(r)
  BY <1>16 DEF TakesEffect
<1>17. CASE CountExamples(r)
  <2>1. Cardinality(Rows) \in Nat
    BY RequestsAssumption, FS_Subset, FS_CardinalityType DEF Rows
  <2> QED
    BY <1>17, <2>1 DEF CountExamples, Rows, Read
<1>18. CASE ListExamples(r)
  <2>1. [read[r] EXCEPT !.step = "listed", !.page = Snapshot(r)] \in Read
    BY ReadType DEF Snapshot
  <2>2. read' = [read EXCEPT ![r] = [read[r] EXCEPT !.step = "listed", !.page = Snapshot(r)]]
    BY <1>18 DEF ListExamples
  <2> QED
    BY <1>18, <2>1, <2>2 DEF ListExamples
<1>19. CASE CallReturns(r)
  BY <1>19, CodesAre DEF CallReturns, Returns
<1>20. CASE CallFails(r)
  BY <1>20, CodesAre DEF CallFails, Returns, Fault
<1>21. CASE CallIsCut(r)
  BY <1>21, CodesAre DEF CallIsCut, Returns, Fault
<1>22. CASE Expire(r)
  BY <1>22 DEF Expire
<1>23. CASE ClientGone(r)
  BY <1>23 DEF ClientGone
<1>24. CASE BodyMoves(r)
  BY <1>24 DEF BodyMoves
<1> QED
  BY <1>1, <1>2, <1>3, <1>4, <1>5, <1>6, <1>7, <1>8, <1>9, <1>10, <1>11, <1>12, <1>13,
     <1>14, <1>15, <1>16, <1>17, <1>18, <1>19, <1>20, <1>21, <1>22, <1>23, <1>24 DEF Act, Step

-----------------------------------------------------------------------------
(* Steps keep the invariant: first the other requests.                     *)
LEMMA OthersKeep ==
  ASSUME TypeOK, NEW r \in Requests, Act(r), NEW q \in Requests, q # r, RequestInv(q)
  PROVE  RequestInv(q)'
<1>1. /\ conf' = conf
      /\ stage'[q] = stage[q] /\ route'[q] = route[q]
      /\ ctx'[q] = ctx[q] /\ result'[q] = result[q] /\ answer'[q] = answer[q]
      /\ label'[q] = label[q] /\ read'[q] = read[q] /\ cause'[q] = cause[q]
      /\ q \in panicking' <=> q \in panicking
      /\ q \in effect' <=> q \in effect
      /\ effect \subseteq effect'
  BY Others
<1>2. CallsOut(q)' <=> CallsOut(q)
  BY <1>1 DEF CallsOut
<1> USE DEF RequestInv
<1>3. Written1(q)' /\ SilentIsBare(q)' /\ EarlyIsSilent(q)'
  BY <1>1 DEF Written1, SilentIsBare, EarlyIsSilent
<1>4. ResultIsCaused(q)' /\ EffectIsCalled(q)'
  BY <1>1, <1>2 DEF ResultIsCaused, EffectIsCalled
<1>5. AnswerIsCaused(q)' /\ AnswerIsTrue(q)'
  BY <1>1 DEF AnswerIsCaused, AnswerIsTrue
<1>6. LabelIsTrue(q)' /\ ReadIsOneMoment(q)'
  BY <1>1 DEF LabelIsTrue, ReadIsOneMoment
<1> QED
  BY <1>3, <1>4, <1>5, <1>6

(* What an answer must fulfil to be given: AnswerIsCaused and AnswerIsTrue *)
(* of the state after it.                                                  *)
Justified(r, code, why) ==
  /\ code = "REQUEST_TIMEOUT" => ctx[r] = "expired"
  /\ why = "deadline" => ctx[r] = "expired" /\ code = "REQUEST_TIMEOUT"
  /\ code \in {"DATABASE_ERROR", "QUEUE_ERROR"} => why \in {"fault", "gone"}
  /\ why = "client" => HTTPStatus[code] < 500
  /\ code = "OK" => /\ route[r] \in HasEffect => r \in effect
                    /\ route[r] = "list" => read[r].step = "listed"
  /\ code \in Refusals => r \notin effect /\ why \in {"client", "disabled", "readTimeout"}

LEMMA AnswersKeep ==
  ASSUME TypeOK, NEW r \in Requests, RequestInv(r), stage[r] \in Early,
         NEW code \in Codes, NEW why, why # "panic",
         Answers(r, Envelope(code), why), Justified(r, code, why)
  PROVE  RequestInv(r)'
<1>1. /\ stage'[r] = "return" /\ answer'[r] = Envelope(code) /\ cause'[r] = why
      /\ UNCHANGED <<conf, read, route, body, ctx, result, panicking, label, inflight, effect>>
  BY DEF Answers, TypeOK
<1>2. r \notin panicking
  BY DEF RequestInv, EarlyIsSilent
<1>3. /\ answer'[r].status = HTTPStatus[code] /\ answer'[r].key = code
      /\ code # "none"
  BY <1>1, CodesAre DEF Envelope
<1>4. Written1(r)'
  BY <1>1 DEF Written1, Envelope
<1>5. EarlyIsSilent(r)' /\ SilentIsBare(r)'
  BY <1>1, <1>2, <1>3 DEF EarlyIsSilent, SilentIsBare, Early, Before
<1>6. ResultIsCaused(r)' /\ LabelIsTrue(r)'
  BY <1>1 DEF ResultIsCaused, LabelIsTrue
<1>7. EffectIsCalled(r)' /\ ReadIsOneMoment(r)'
  BY <1>1 DEF RequestInv, EffectIsCalled, ReadIsOneMoment, CallsOut
<1>8. AnswerIsCaused(r)' /\ AnswerIsTrue(r)'
  BY <1>1, <1>3 DEF Justified, AnswerIsCaused, AnswerIsTrue
<1> QED
  BY <1>4, <1>5, <1>6, <1>7, <1>8 DEF RequestInv

(* The first answer of a request is an envelope.                           *)
LEMMA FirstAnswer ==
  ASSUME TypeOK, NEW r \in Requests, RequestInv(r), stage[r] \in Early, NEW code \in Codes
  PROVE  /\ Write(answer[r], code) = Envelope(code)
         /\ WriteError(r, code) = Envelope(Rewritten(r, code))
         /\ Rewritten(r, code) \in Codes
<1>1. answer[r] = NoAnswer
  BY DEF RequestInv, EarlyIsSilent
<1>2. NoAnswer \in Answer
  BY DEF NoAnswer, Answer
<1>3. Rewritten(r, code) \in Codes
  BY CodesAre DEF Rewritten
<1> QED
  BY <1>1, <1>2, <1>3, FirstWrite DEF WriteError, NoAnswer

(* The service has returned something that has a cause.                    *)
LEMMA ReturnsKeep ==
  ASSUME TypeOK, NEW r \in Requests, RequestInv(r),
         stage[r] = "service", stage'[r] = "reply",
         UNCHANGED <<conf, read, route, ctx, panicking, answer, label, effect>>,
         \/ /\ result'[r] = "OK" /\ cause'[r] = "none"
            /\ route[r] \in HasEffect => r \in effect
            /\ route[r] = "list" => read[r].step = "listed"
         \/ result'[r] = "INVALID_PARAMS" /\ cause'[r] = "client" /\ route[r] = "token"
         \/ result'[r] = "INTERNAL_ERROR" /\ cause'[r] = "fault" /\ route[r] = "token"
         \/ result'[r] = "QUEUE_UNAVAILABLE" /\ cause'[r] = "disabled" /\ ~CallsOut(r)
         \/ /\ result'[r] \in {"DATABASE_ERROR", "QUEUE_ERROR"}
            /\ \/ cause'[r] \in {"fault", "gone"}
               \/ cause'[r] = "deadline" /\ ctx[r] = "expired"
  PROVE  RequestInv(r)'
<1>1. answer[r] = NoAnswer /\ r \notin panicking
  BY DEF RequestInv, EarlyIsSilent, Early
<1>2. Written1(r)' /\ EarlyIsSilent(r)' /\ SilentIsBare(r)' /\ LabelIsTrue(r)'
  BY <1>1 DEF RequestInv, Written1, EarlyIsSilent, SilentIsBare, LabelIsTrue, Early, Before
<1>3. ResultIsCaused(r)'
  BY DEF ResultIsCaused, CallsOut
<1>4. EffectIsCalled(r)' /\ ReadIsOneMoment(r)'
  BY DEF RequestInv, EffectIsCalled, ReadIsOneMoment, CallsOut
<1>5. AnswerIsCaused(r)' /\ AnswerIsTrue(r)'
  BY <1>1 DEF AnswerIsCaused, AnswerIsTrue, NoAnswer, Refusals
<1> QED
  BY <1>2, <1>3, <1>4, <1>5 DEF RequestInv

(* ... then the request itself.                                            *)
LEMMA RequestStep ==
  ASSUME TypeOK, NEW r \in Requests, RequestInv(r), Act(r)
  PROVE  RequestInv(r)'
<1> DEFINE a == answer[r]
<1>1. CASE Limited(r)
  <2>1. stage[r] \in Early /\ r \notin effect
    BY <1>1 DEF Limited, Early, Before, RequestInv, EarlyIsSilent
  <2>2. Answers(r, Envelope("TOO_MANY_REQUESTS"), "client")
    BY <1>1, <2>1, FirstAnswer, CodesAre DEF Limited
  <2>3. Justified(r, "TOO_MANY_REQUESTS", "client")
    BY <2>1, StatusFacts DEF Justified, Refusals
  <2> QED
    BY <2>1, <2>2, <2>3, AnswersKeep, CodesAre
<1>2. CASE BindFails(r)
  <2>1. stage[r] \in Early /\ r \notin effect
    BY <1>2 DEF BindFails, Early, Before, RequestInv, EarlyIsSilent
  <2>2. Answers(r, Envelope("INVALID_PARAMS"), "client")
    BY <1>2, <2>1, FirstAnswer, CodesAre DEF BindFails
  <2>3. Justified(r, "INVALID_PARAMS", "client")
    BY <2>1, StatusFacts DEF Justified, Refusals
  <2> QED
    BY <2>1, <2>2, <2>3, AnswersKeep, CodesAre
<1>3. CASE ReadTimesOut(r)
  <2> DEFINE why == IF ctx[r] = "expired" THEN "readTimeout" ELSE "client"
  <2>1. stage[r] \in Early /\ r \notin effect
    BY <1>3 DEF ReadTimesOut, Early, Before, RequestInv, EarlyIsSilent
  <2>2. Answers(r, Envelope("INVALID_PARAMS"), why)
    BY <1>3, <2>1, FirstAnswer, CodesAre DEF ReadTimesOut
  <2>3. Justified(r, "INVALID_PARAMS", why) /\ why # "panic"
    BY <2>1, StatusFacts DEF Justified, Refusals
  <2> HIDE DEF why
  <2> QED
    BY <2>1, <2>2, <2>3, AnswersKeep, CodesAre
<1>4. CASE Route(r)
  <2>1. stage[r] \in Early /\ r \notin effect /\ r \notin panicking /\ a = NoAnswer
        /\ cause[r] = "none"
    BY <1>4 DEF Route, Early, Before, RequestInv, EarlyIsSilent
  <2>2. CASE route[r] = "me" /\ Answers(r, Write(a, "OK"), "none")
    <3>1. Answers(r, Envelope("OK"), "none")
      BY <2>1, <2>2, FirstAnswer, CodesAre
    <3>2. Justified(r, "OK", "none")
      BY <2>2 DEF Justified, Refusals, HasEffect
    <3> QED
      BY <2>1, <3>1, <3>2, AnswersKeep, CodesAre
  <2>3. CASE Answers(r, Write(a, "UNAUTHORIZED"), "client")
    <3>1. Answers(r, Envelope("UNAUTHORIZED"), "client")
      BY <2>1, <2>3, FirstAnswer, CodesAre
    <3>2. Justified(r, "UNAUTHORIZED", "client")
      BY <2>1, StatusFacts DEF Justified, Refusals
    <3> QED
      BY <2>1, <3>1, <3>2, AnswersKeep, CodesAre
  <2>4. CASE Answers(r, WriteError(r, "SERVICE_DISABLED"), "disabled")
    <3> DEFINE code == Rewritten(r, "SERVICE_DISABLED")
    <3>1. Answers(r, Envelope(code), "disabled") /\ code \in Codes
      BY <2>1, <2>4, FirstAnswer, CodesAre
    <3>2. Justified(r, code, "disabled")
      BY <2>1 DEF Justified, Refusals, Rewritten, RequestTimedOut
    <3> HIDE DEF code
    <3> QED
      BY <2>1, <3>1, <3>2, AnswersKeep
  <2>5. CASE \/ route[r] = "plain" /\ Answers(r, [a EXCEPT !.status = 200], "none")
             \/ route[r] = "unknown" /\ Answers(r, a, "client")
    <3>1. /\ stage'[r] = "return" /\ route[r] \in Bare
          /\ answer'[r].bodies = <<>> /\ answer'[r].key = "none"
          /\ cause'[r] = "client" => answer'[r].status = 0
          /\ cause'[r] \in {"none", "client"}
          /\ UNCHANGED <<conf, read, route, body, ctx, result, panicking, label, inflight,
                         effect>>
      BY <2>1, <2>5 DEF Answers, TypeOK, NoAnswer, Bare
    <3> QED
      BY <2>1, <3>1 DEF RequestInv, Written1, EarlyIsSilent, SilentIsBare, ResultIsCaused,
        EffectIsCalled, AnswerIsCaused, AnswerIsTrue, LabelIsTrue, ReadIsOneMoment,
        Early, Before, Refusals, CallsOut
  <2>6. CASE /\ route[r] \in HasBind
             /\ stage' = [stage EXCEPT ![r] = "bind"]
             /\ UNCHANGED <<conf, read, route, body, ctx, result, panicking, answer,
                            label, inflight, effect, cause>>
    <3>1. stage'[r] = "bind"
      BY <2>6 DEF TypeOK
    <3> QED
      BY <2>1, <2>6, <3>1 DEF RequestInv, Written1, EarlyIsSilent, SilentIsBare,
        ResultIsCaused, EffectIsCalled, AnswerIsCaused, AnswerIsTrue, LabelIsTrue,
        ReadIsOneMoment, Early, Before, CallsOut
  <2> QED
    BY <1>4, <2>2, <2>3, <2>4, <2>5, <2>6 DEF Route
<1>5. CASE Reply(r)
  <2>1. stage[r] \in Early /\ stage[r] = "reply"
    BY <1>5 DEF Reply, Early
  <2>2. CASE result[r] = "OK"
    <3>1. cause[r] = "none" /\ (route[r] \in HasEffect => r \in effect)
          /\ (route[r] = "list" => read[r].step = "listed")
      BY <2>1, <2>2 DEF RequestInv, ResultIsCaused
    <3>2. Answers(r, Envelope("OK"), cause[r])
      BY <1>5, <2>1, <2>2, FirstAnswer, CodesAre DEF Reply
    <3>3. Justified(r, "OK", cause[r])
      BY <3>1 DEF Justified, Refusals
    <3> QED
      BY <2>1, <3>1, <3>2, <3>3, AnswersKeep, CodesAre
  <2>3. CASE result[r] # "OK"
    <3> DEFINE code == Rewritten(r, result[r])
    <3>1. result[r] \in Codes /\ cause[r] # "panic"
      BY <2>1, <2>3, CodesAre DEF RequestInv, ResultIsCaused
    <3>2. Answers(r, Envelope(code), cause[r]) /\ code \in Codes
      BY <1>5, <2>1, <2>3, <3>1, FirstAnswer DEF Reply
    <3>3. Justified(r, code, cause[r])
      <4>1. CASE result[r] = "INVALID_PARAMS" /\ cause[r] = "client" /\ route[r] = "token"
        <5>1. code = "INVALID_PARAMS"
          BY <4>1, StatusFacts, CodesAre DEF Rewritten
        <5>2. r \notin effect
          BY <4>1 DEF RequestInv, EffectIsCalled, HasEffect
        <5> QED
          BY <4>1, <5>1, <5>2, StatusFacts DEF Justified, Refusals
      <4>2. CASE result[r] = "QUEUE_UNAVAILABLE" /\ cause[r] = "disabled" /\ ~CallsOut(r)
        <5>1. r \notin effect
          BY <4>2 DEF RequestInv, EffectIsCalled
        <5> QED
          BY <4>2, <5>1 DEF Justified, Refusals, Rewritten, RequestTimedOut
      <4>3. CASE result[r] \in {"DATABASE_ERROR", "QUEUE_ERROR"}
                 /\ cause[r] \in {"fault", "deadline", "gone"}
        <5>1. code = IF ctx[r] = "expired" THEN "REQUEST_TIMEOUT" ELSE result[r]
          BY <4>3, StatusFacts DEF Rewritten, RequestTimedOut
        <5>2. cause[r] = "deadline" => ctx[r] = "expired"
          BY DEF RequestInv, AnswerIsCaused
        <5> HIDE DEF code
        <5> QED
          BY <4>3, <5>1, <5>2 DEF Justified, Refusals
      <4>4. CASE result[r] = "INTERNAL_ERROR" /\ cause[r] = "fault" /\ route[r] = "token"
        <5>1. code \in {"REQUEST_TIMEOUT", "INTERNAL_ERROR"}
              /\ (code = "REQUEST_TIMEOUT" => ctx[r] = "expired")
          BY <4>4 DEF Rewritten, RequestTimedOut
        <5> HIDE DEF code
        <5> QED
          BY <4>4, <5>1 DEF Justified, Refusals
      <4> QED
        BY <2>1, <2>3, <4>1, <4>2, <4>3, <4>4 DEF RequestInv, ResultIsCaused
    <3> HIDE DEF code
    <3> QED
      BY <2>1, <3>1, <3>2, <3>3, AnswersKeep
  <2> QED
    BY <2>2, <2>3
<1>6. CASE Enter(r)
  <2>1. /\ stage[r] = "idle" /\ stage'[r] = "limit"
        /\ UNCHANGED <<conf, read, ctx, result, panicking, answer, label, effect, cause>>
    BY <1>6 DEF Enter, TypeOK
  <2> QED
    BY <2>1 DEF RequestInv, Written1, EarlyIsSilent, SilentIsBare, ResultIsCaused,
        EffectIsCalled, AnswerIsCaused, AnswerIsTrue, LabelIsTrue, ReadIsOneMoment,
        Early, Before, CallsOut, NoAnswer, Refusals
<1>7. CASE Preflight(r)
  <2>1. /\ stage[r] = "limit" /\ stage'[r] = "return" /\ route[r] \in Bare
        /\ answer'[r].bodies = answer[r].bodies /\ answer'[r].key = answer[r].key
        /\ UNCHANGED <<conf, read, route, ctx, result, panicking, label, effect, cause>>
    BY <1>7 DEF Preflight, TypeOK, Bare
  <2> QED
    BY <2>1 DEF RequestInv, Written1, EarlyIsSilent, SilentIsBare, ResultIsCaused,
        EffectIsCalled, AnswerIsCaused, AnswerIsTrue, LabelIsTrue, ReadIsOneMoment,
        Early, Before, CallsOut, NoAnswer, Refusals
<1>8. CASE PassesLimit(r)
  <2>1. /\ stage[r] = "limit" /\ stage'[r] = "route"
        /\ UNCHANGED <<conf, read, route, ctx, result, panicking, answer, label, effect, cause>>
    BY <1>8 DEF PassesLimit, TypeOK
  <2> QED
    BY <2>1 DEF RequestInv, Written1, EarlyIsSilent, SilentIsBare, ResultIsCaused,
        EffectIsCalled, AnswerIsCaused, AnswerIsTrue, LabelIsTrue, ReadIsOneMoment,
        Early, Before, CallsOut
<1>9. CASE Bind(r)
  <2>1. /\ stage[r] = "bind" /\ stage'[r] = "service"
        /\ UNCHANGED <<conf, read, route, ctx, result, panicking, answer, label, effect, cause>>
    BY <1>9 DEF Bind, TypeOK
  <2> QED
    BY <2>1 DEF RequestInv, Written1, EarlyIsSilent, SilentIsBare, ResultIsCaused,
        EffectIsCalled, AnswerIsCaused, AnswerIsTrue, LabelIsTrue, ReadIsOneMoment,
        Early, Before, CallsOut
<1>10. CASE BodyMoves(r)
  <2>1. UNCHANGED <<conf, read, stage, route, ctx, result, panicking, answer, label, effect, cause>>
    BY <1>10 DEF BodyMoves, TypeOK
  <2> QED
    BY <2>1 DEF RequestInv, Written1, EarlyIsSilent, SilentIsBare, ResultIsCaused,
        EffectIsCalled, AnswerIsCaused, AnswerIsTrue, LabelIsTrue, ReadIsOneMoment,
        Early, Before, CallsOut
<1>11. CASE Expire(r)
  <2>1. /\ ctx[r] = "live" /\ ctx'[r] = "expired"
        /\ UNCHANGED <<conf, read, stage, route, result, panicking, answer, label, effect, cause>>
    BY <1>11 DEF Expire, TypeOK
  <2> QED
    BY <2>1 DEF RequestInv, Written1, EarlyIsSilent, SilentIsBare, ResultIsCaused,
        EffectIsCalled, AnswerIsCaused, AnswerIsTrue, LabelIsTrue, ReadIsOneMoment,
        Early, Before, CallsOut
<1>12. CASE ClientGone(r)
  <2>1. /\ ctx[r] = "live" /\ ctx'[r] = "gone"
        /\ UNCHANGED <<conf, read, stage, route, result, panicking, answer, label, effect, cause>>
    BY <1>12 DEF ClientGone, TypeOK
  <2> QED
    BY <2>1 DEF RequestInv, Written1, EarlyIsSilent, SilentIsBare, ResultIsCaused,
        EffectIsCalled, AnswerIsCaused, AnswerIsTrue, LabelIsTrue, ReadIsOneMoment,
        Early, Before, CallsOut
<1>13. CASE Panic(r)
  <2>1. /\ stage[r] \in Early /\ stage'[r] = "recovery" /\ panicking' = panicking \union {r}
        /\ cause'[r] = "panic"
        /\ UNCHANGED <<conf, read, route, ctx, result, answer, label, effect>>
    BY <1>13 DEF Panic, TypeOK, Early, Before
  <2> QED
    BY <2>1 DEF RequestInv, Written1, EarlyIsSilent, SilentIsBare, ResultIsCaused,
        EffectIsCalled, AnswerIsCaused, AnswerIsTrue, LabelIsTrue, ReadIsOneMoment,
        Early, Before, CallsOut, NoAnswer, Refusals
<1>14. CASE TokenReturns(r)
  <2>1. /\ stage[r] = "service" /\ stage'[r] = "reply"
        /\ UNCHANGED <<conf, read, route, ctx, panicking, answer, label, effect>>
    BY <1>14 DEF TokenReturns, Returns, TypeOK
  <2>2. \/ result'[r] = "OK" /\ cause'[r] = "none" /\ route[r] = "token"
        \/ result'[r] = "INVALID_PARAMS" /\ cause'[r] = "client" /\ route[r] = "token"
        \/ result'[r] = "INTERNAL_ERROR" /\ cause'[r] = "fault" /\ route[r] = "token"
    BY <1>14 DEF TokenReturns, Returns, TypeOK
  <2> QED
    BY <2>1, <2>2, ReturnsKeep DEF HasEffect
<1>15. CASE QueueMissing(r)
  <2>1. /\ stage[r] = "service" /\ stage'[r] = "reply"
        /\ UNCHANGED <<conf, read, route, ctx, panicking, answer, label, effect>>
    BY <1>15 DEF QueueMissing, Returns, TypeOK
  <2>2. /\ result'[r] = "QUEUE_UNAVAILABLE" /\ cause'[r] = "disabled" /\ ~CallsOut(r)
    BY <1>15 DEF QueueMissing, Returns, TypeOK
  <2> QED
    BY <2>1, <2>2, ReturnsKeep
<1>16. CASE CallReturns(r)
  <2>1. /\ stage[r] = "service" /\ stage'[r] = "reply"
        /\ UNCHANGED <<conf, read, route, ctx, panicking, answer, label, effect>>
    BY <1>16 DEF CallReturns, Returns, TypeOK
  <2>2. /\ result'[r] = "OK" /\ cause'[r] = "none" /\ (route[r] \in HasEffect => r \in effect)
        /\ (route[r] = "list" => read[r].step = "listed")
    BY <1>16 DEF CallReturns, Returns, TypeOK
  <2> QED
    BY <2>1, <2>2, ReturnsKeep
<1>17. CASE CallFails(r)
  <2>1. /\ stage[r] = "service" /\ stage'[r] = "reply"
        /\ UNCHANGED <<conf, read, route, ctx, panicking, answer, label, effect>>
    BY <1>17 DEF CallFails, Returns, TypeOK
  <2>2. /\ result'[r] \in {"DATABASE_ERROR", "QUEUE_ERROR"} /\ cause'[r] = "fault"
    BY <1>17 DEF CallFails, Returns, TypeOK, Fault
  <2> QED
    BY <2>1, <2>2, ReturnsKeep
<1>18. CASE CallIsCut(r)
  <2>1. /\ stage[r] = "service" /\ stage'[r] = "reply"
        /\ UNCHANGED <<conf, read, route, ctx, panicking, answer, label, effect>>
    BY <1>18 DEF CallIsCut, Returns, TypeOK
  <2>2. /\ result'[r] \in {"DATABASE_ERROR", "QUEUE_ERROR"}
        /\ \/ cause'[r] = "deadline" /\ ctx[r] = "expired"
           \/ cause'[r] = "gone"
    BY <1>18 DEF CallIsCut, Returns, TypeOK, Fault
  <2> QED
    BY <2>1, <2>2, ReturnsKeep
<1>19. CASE TakesEffect(r)
  <2>1. /\ r \notin effect /\ effect' = effect \union {r}
        /\ route[r] \in HasEffect /\ CallsOut(r)
        /\ stage[r] = "service" \/ cause[r] \in {"fault", "deadline", "gone"}
        /\ UNCHANGED <<conf, read, stage, route, ctx, result, panicking, answer, label, cause>>
    BY <1>19 DEF TakesEffect
  <2>2. stage[r] \notin Before /\ answer[r].key \notin Refusals
    BY <2>1 DEF RequestInv, EarlyIsSilent, AnswerIsTrue, Before, Early, NoAnswer, Refusals
  <2>3. Written1(r)' /\ EarlyIsSilent(r)' /\ SilentIsBare(r)' /\ LabelIsTrue(r)'
    BY <2>1, <2>2 DEF RequestInv, Written1, EarlyIsSilent, SilentIsBare, LabelIsTrue
  <2>4. ResultIsCaused(r)' /\ EffectIsCalled(r)'
    BY <2>1 DEF RequestInv, ResultIsCaused, EffectIsCalled, CallsOut
  <2>5. AnswerIsCaused(r)' /\ AnswerIsTrue(r)' /\ ReadIsOneMoment(r)'
    BY <2>1, <2>2 DEF RequestInv, AnswerIsCaused, AnswerIsTrue, ReadIsOneMoment
  <2> QED
    BY <2>3, <2>4, <2>5 DEF RequestInv
<1>20. CASE CountExamples(r)
  <2>1. /\ stage[r] = "service" /\ read[r].step = "none"
        /\ read'[r] = [step |-> "counted", rows |-> Rows, total |-> Cardinality(Rows),
                       page |-> {}]
        /\ UNCHANGED <<conf, stage, route, ctx, result, panicking, answer, label, effect, cause>>
    BY <1>20 DEF CountExamples, TypeOK
  <2>2. ReadIsOneMoment(r)'
    BY <2>1 DEF ReadIsOneMoment, Rows
  <2>3. a = NoAnswer
    BY <2>1 DEF RequestInv, EarlyIsSilent, Early
  <2> QED
    BY <2>1, <2>2, <2>3 DEF RequestInv, Written1, EarlyIsSilent, SilentIsBare,
      ResultIsCaused, EffectIsCalled, AnswerIsCaused, AnswerIsTrue, LabelIsTrue,
      NoAnswer, Early, CallsOut, Refusals
<1>21. CASE ListExamples(r)
  <2>1. /\ stage[r] = "service" /\ read[r].step = "counted"
        /\ read'[r] = [read[r] EXCEPT !.step = "listed", !.page = read[r].rows]
        /\ UNCHANGED <<conf, stage, route, ctx, result, panicking, answer, label, effect, cause>>
    BY <1>21 DEF ListExamples, Snapshot, TypeOK
  <2>2. read[r] \in Read
    BY DEF TypeOK
  <2>3. /\ read'[r].step = "listed" /\ read'[r].page = read[r].rows
        /\ read'[r].rows = read[r].rows /\ read'[r].total = read[r].total
    BY <2>1, <2>2 DEF Read
  <2>4. ReadIsOneMoment(r)'
    BY <2>1, <2>3 DEF RequestInv, ReadIsOneMoment
  <2> QED
    BY <2>1, <2>3, <2>4 DEF RequestInv, Written1, EarlyIsSilent, SilentIsBare,
      ResultIsCaused, EffectIsCalled, AnswerIsCaused, AnswerIsTrue, LabelIsTrue, CallsOut
<1>22. CASE TimeoutReturns(r)
  <2>1. /\ stage[r] = "return" /\ stage'[r] = "recovery"
        /\ answer'[r] = IF MustAnswer(r) THEN Write(a, "REQUEST_TIMEOUT") ELSE a
        /\ UNCHANGED <<conf, read, route, ctx, result, panicking, label, effect, cause>>
    BY <1>22 DEF TimeoutReturns, TypeOK
  <2>2. CASE MustAnswer(r)
    <3>1. a.status = 0 /\ ctx[r] = "expired"
      BY <2>2 DEF MustAnswer, Written
    <3>2. a.bodies = <<>> /\ a.key = "none"
      <4>1. \A code \in Codes : a # Envelope(code)
        BY <3>1, StatusFacts DEF Envelope
      <4> QED
        BY <4>1 DEF RequestInv, Written1
    <3>3. answer'[r] = Envelope("REQUEST_TIMEOUT")
      BY <2>1, <2>2, <3>1, <3>2, FirstWrite DEF TypeOK
    <3>4. /\ answer'[r].key = "REQUEST_TIMEOUT" /\ answer'[r].status < 500
      BY <3>3, StatusFacts DEF Envelope
    <3>5. Written1(r)'
      BY <3>3, CodesAre DEF Written1
    <3> QED
      BY <2>1, <3>1, <3>2, <3>4, <3>5 DEF RequestInv, EarlyIsSilent, SilentIsBare,
        ResultIsCaused, EffectIsCalled, AnswerIsCaused, AnswerIsTrue, LabelIsTrue,
        ReadIsOneMoment, Early, Before, CallsOut, Refusals
  <2>3. CASE ~MustAnswer(r)
    BY <2>1, <2>3 DEF RequestInv, Written1, EarlyIsSilent, SilentIsBare, ResultIsCaused,
        EffectIsCalled, AnswerIsCaused, AnswerIsTrue, LabelIsTrue, ReadIsOneMoment,
        Early, Before, CallsOut
  <2> QED
    BY <2>2, <2>3
<1>23. CASE Recovery(r)
  <2>1. /\ stage[r] = "recovery" /\ stage'[r] = "count"
        /\ answer'[r] = IF r \in panicking THEN Write(a, "INTERNAL_ERROR") ELSE a
        /\ panicking' = panicking \ {r}
        /\ UNCHANGED <<conf, read, route, ctx, result, label, effect, cause>>
    BY <1>23 DEF Recovery, Recover, TypeOK
  <2>2. CASE r \in panicking
    <3>1. a = NoAnswer /\ cause[r] = "panic"
      BY <2>2 DEF RequestInv, EarlyIsSilent
    <3>2. answer'[r] = Envelope("INTERNAL_ERROR")
      <4>1. NoAnswer \in Answer
        BY DEF NoAnswer, Answer
      <4>2. Write(NoAnswer, "INTERNAL_ERROR") = Envelope("INTERNAL_ERROR")
        BY <4>1, FirstWrite DEF NoAnswer
      <4> QED
        BY <2>1, <2>2, <3>1, <4>2
    <3>3. answer'[r].key = "INTERNAL_ERROR"
      BY <3>2 DEF Envelope
    <3>4. Written1(r)'
      BY <3>2, CodesAre DEF Written1
    <3> QED
      BY <2>1, <3>1, <3>3, <3>4 DEF RequestInv, EarlyIsSilent, SilentIsBare,
        ResultIsCaused, EffectIsCalled, AnswerIsCaused, AnswerIsTrue, LabelIsTrue,
        ReadIsOneMoment, Early, Before, CallsOut, Refusals
  <2>3. CASE r \notin panicking
    BY <2>1, <2>3 DEF RequestInv, Written1, EarlyIsSilent, SilentIsBare, ResultIsCaused,
        EffectIsCalled, AnswerIsCaused, AnswerIsTrue, LabelIsTrue, ReadIsOneMoment,
        Early, Before, CallsOut
  <2> QED
    BY <2>2, <2>3
<1>24. CASE Count(r)
  <2>1. /\ stage[r] = "count" /\ stage'[r] = "done"
        /\ answer'[r] = [a EXCEPT !.status = IF Written(r) THEN a.status ELSE 404]
        /\ label'[r] = LabelOf(r)
        /\ UNCHANGED <<conf, read, route, ctx, result, panicking, effect, cause>>
    BY <1>24 DEF Count, TypeOK
  <2>2. a \in Answer
    BY DEF TypeOK
  <2>3. /\ answer'[r].key = a.key /\ answer'[r].bodies = a.bodies
        /\ answer'[r].status = IF Written(r) THEN a.status ELSE 404
    BY <2>1, <2>2 DEF Answer
  <2>4. Written1(r)'
    <3>1. CASE a.bodies = <<>> /\ a.key = "none"
      BY <2>3, <3>1 DEF Written1
    <3>2. ASSUME NEW code \in Codes, a = Envelope(code)
          PROVE  answer'[r] = Envelope(code)
      <4>1. Written(r)
        BY <3>2, StatusFacts DEF Written, Envelope
      <4> QED
        BY <2>1, <3>2, <4>1 DEF Envelope
    <3> QED
      BY <3>1, <3>2 DEF RequestInv, Written1
  <2>5. LabelIsTrue(r)'
    BY <2>1, <2>2, <2>3 DEF LabelIsTrue, LabelOf, Written, Answer
  <2>6. AnswerIsCaused(r)' /\ AnswerIsTrue(r)'
    BY <2>1, <2>3 DEF RequestInv, AnswerIsCaused, AnswerIsTrue
  <2>7. EarlyIsSilent(r)' /\ SilentIsBare(r)'
    BY <2>1, <2>3 DEF RequestInv, EarlyIsSilent, SilentIsBare, Early, Before
  <2>8. ResultIsCaused(r)' /\ EffectIsCalled(r)' /\ ReadIsOneMoment(r)'
    BY <2>1 DEF RequestInv, ResultIsCaused, EffectIsCalled, ReadIsOneMoment, CallsOut
  <2> QED
    BY <2>4, <2>5, <2>6, <2>7, <2>8 DEF RequestInv
<1> QED
  BY <1>1, <1>2, <1>3, <1>4, <1>5, <1>6, <1>7, <1>8, <1>9, <1>10, <1>11, <1>12, <1>13,
     <1>14, <1>15, <1>16, <1>17, <1>18, <1>19, <1>20, <1>21, <1>22, <1>23, <1>24 DEF Act, Step

-----------------------------------------------------------------------------
(* The theorems.                                                           *)
LEMMA InitInv == Init => IInv
<1> SUFFICES ASSUME Init PROVE IInv
  OBVIOUS
<1>1. TypeOK
  BY ConfigsAssumption DEF Init, TypeOK, NoAnswer, NoRead, Answer, Read, Routes
<1>2. GaugeIsExact
  <2>1. {r \in Requests : Inside(r)} = {}
    BY DEF Init, Inside
  <2> QED
    BY <2>1, FS_EmptySet DEF Init, GaugeIsExact
<1>3. ASSUME NEW r \in Requests PROVE RequestInv(r)
  BY <1>3 DEF Init, RequestInv, Written1, EarlyIsSilent, SilentIsBare, ResultIsCaused,
    EffectIsCalled, AnswerIsCaused, AnswerIsTrue, LabelIsTrue, ReadIsOneMoment,
    NoAnswer, NoRead, Early, Before, Refusals
<1> QED
  BY <1>1, <1>2, <1>3 DEF IInv

LEMMA NextInv == IInv /\ [Next]_vars => IInv'
<1> SUFFICES ASSUME IInv, [Next]_vars PROVE IInv'
  OBVIOUS
<1>1. CASE UNCHANGED vars
  BY <1>1 DEF vars, IInv, TypeOK, GaugeIsExact, Inside, RequestInv, Written1, EarlyIsSilent,
    SilentIsBare, ResultIsCaused, EffectIsCalled, AnswerIsCaused, AnswerIsTrue,
    LabelIsTrue, ReadIsOneMoment, CallsOut
<1>2. ASSUME NEW r \in Requests, Act(r) PROVE IInv'
  <2>1. GaugeIsExact' /\ inflight' \in Nat
    BY <1>2, GaugeStep DEF IInv
  <2>2. ResultIsCaused(r)
    BY DEF IInv, RequestInv
  <2>3. TypeOK'
    BY <1>2, <2>1, <2>2, TypeStep DEF IInv
  <2>4. ASSUME NEW q \in Requests PROVE RequestInv(q)'
    BY <1>2, <2>4, OthersKeep, RequestStep DEF IInv
  <2> QED
    BY <2>1, <2>3, <2>4 DEF IInv
<1> QED
  BY <1>1, <1>2 DEF Next, Act

(* The inductive invariant holds in every reachable state.                *)
THEOREM Invariance == Spec => []IInv
  BY InitInv, NextInv, PTL DEF Spec

(* An envelope and its key say the same.                                   *)
LEMMA AnsweredIsKey ==
  ASSUME NEW r \in Requests, RequestInv(r), NEW code \in Codes
  PROVE  Answered(r, code) <=> answer[r].key = code
<1>1. CASE answer[r].bodies = <<>> /\ answer[r].key = "none"
  BY <1>1, CodesAre DEF Answered
<1>2. ASSUME NEW c \in Codes, answer[r] = Envelope(c)
      PROVE  Answered(r, code) <=> answer[r].key = code
  <2>1. answer[r].bodies = <<c>> /\ answer[r].key = c
    BY <1>2 DEF Envelope
  <2>2. {answer[r].bodies[i] : i \in DOMAIN answer[r].bodies} = {c}
    BY <2>1
  <2> QED
    BY <2>1, <2>2 DEF Answered
<1> QED
  BY <1>1, <1>2 DEF RequestInv, Written1

(* Every reachable state is well typed.                                    *)
THEOREM TypeCorrect == Spec => []TypeOK
<1>1. IInv => TypeOK
  BY DEF IInv
<1> QED
  BY <1>1, Invariance, PTL

(* The in-flight gauge of HTTPMiddleware counts the requests inside, for   *)
(* any number of them, however they end.                                   *)
THEOREM GaugeCorrect == Spec => []GaugeIsExact
<1>1. IInv => GaugeIsExact
  BY DEF IInv
<1> QED
  BY <1>1, Invariance, PTL

(* No request gets two envelopes, and none leaves without an answer: the   *)
(* handler, Timeout and Recovery never answer after one another.           *)
THEOREM OneAnswerCorrect == Spec => []OneAnswer
<1>1. ASSUME IInv, NEW r \in Requests
      PROVE  /\ Len(answer[r].bodies) <= 1
             /\ stage[r] = "done" =>
                  answer[r].status # 0 /\ (Len(answer[r].bodies) = 1 \/ route[r] \in Bare)
  <2>2. ASSUME NEW c \in Codes, answer[r] = Envelope(c)
        PROVE  Len(answer[r].bodies) = 1
    <3>1. answer[r].bodies = <<c>>
      BY <2>2 DEF Envelope
    <3> QED
      BY <3>1
  <2>3. stage[r] = "done" => answer[r].status # 0
    BY <1>1 DEF IInv, RequestInv, LabelIsTrue
  <2>4. stage[r] = "done" /\ answer[r].key = "none" => route[r] \in Bare
    BY <1>1 DEF IInv, RequestInv, SilentIsBare, EarlyIsSilent, Early, Before
  <2>5. \/ Len(answer[r].bodies) = 1
        \/ Len(answer[r].bodies) = 0 /\ answer[r].key = "none"
    <3>1. Len(<<>>) = 0
      OBVIOUS
    <3> QED
      BY <1>1, <2>2, <3>1 DEF IInv, RequestInv, Written1
  <2> QED
    <3>1. Len(answer[r].bodies) <= 1
      <4> DEFINE n == Len(answer[r].bodies)
      <4>1. n \in {0, 1}
        BY <2>5
      <4> HIDE DEF n
      <4>2. n <= 1
        BY <4>1
      <4> QED
        BY <4>2 DEF n
    <3>2. Len(answer[r].bodies) = 1 \/ answer[r].key = "none"
      BY <2>5
    <3> QED
      BY <2>3, <2>4, <3>1, <3>2
<1>2. IInv => OneAnswer
  BY <1>1 DEF OneAnswer, Bare
<1> QED
  BY <1>2, Invariance, PTL

(* What HTTPMiddleware counts is what the client was sent, also for those  *)
(* answered by Timeout, by Recovery or by gin itself.                      *)
THEOREM CountCorrect == Spec => []CountedAsAnswered
<1>1. ASSUME IInv, NEW r \in Requests, stage[r] = "done"
      PROVE  label[r] = [ status |-> answer[r].status,
                          code |-> IF answer[r].bodies = <<>> THEN "OK"
                                                             ELSE answer[r].bodies[1] ]
  <2>1. label[r] = [ status |-> answer[r].status,
                     code |-> IF answer[r].key = "none" THEN "OK" ELSE answer[r].key ]
    BY <1>1 DEF IInv, RequestInv, LabelIsTrue
  <2>2. CASE answer[r].bodies = <<>> /\ answer[r].key = "none"
    BY <2>1, <2>2
  <2>3. ASSUME NEW c \in Codes, answer[r] = Envelope(c)
        PROVE  /\ answer[r].bodies # <<>> /\ answer[r].bodies[1] = c
               /\ answer[r].key = c /\ c # "none"
    BY <2>3, CodesAre DEF Envelope
  <2> QED
    BY <1>1, <2>1, <2>2, <2>3 DEF IInv, RequestInv, Written1
<1>2. IInv => CountedAsAnswered
  BY <1>1 DEF CountedAsAnswered
<1> QED
  BY <1>2, Invariance, PTL

(* A failure is blamed on the right one, whatever the order of deadline,   *)
(* failure and departure (requestTimedOut, WriteError).                    *)
THEOREM BlameCorrect == Spec => []BlameIsRight
<1>1. ASSUME IInv, NEW r \in Requests, stage[r] = "done"
      PROVE  /\ cause[r] = "deadline" => Answered(r, "REQUEST_TIMEOUT")
             /\ Answered(r, "REQUEST_TIMEOUT") => ctx[r] = "expired"
             /\ Answered(r, "DATABASE_ERROR") \/ Answered(r, "QUEUE_ERROR")
                  => cause[r] \in {"fault", "gone"}
             /\ cause[r] = "client" => answer[r].status < 500
  BY <1>1, AnsweredIsKey, CodesAre DEF IInv, RequestInv, AnswerIsCaused
<1>2. IInv => BlameIsRight
  BY <1>1 DEF BlameIsRight
<1> QED
  BY <1>2, Invariance, PTL

(* A success has happened; what was refused has not, nor will it.          *)
THEOREM HonestyCorrect == Spec => []AnswerIsHonest
<1>1. ASSUME IInv, NEW r \in Requests
      PROVE  /\ Answered(r, "OK") /\ route[r] \in HasEffect => r \in effect
             /\ (\E code \in Refusals : Answered(r, code)) => r \notin effect
  <2>1. RequestInv(r) /\ Refusals \subseteq Codes /\ "OK" \in Codes
    BY <1>1, CodesAre DEF IInv, Refusals
  <2> QED
    BY <2>1, AnsweredIsKey DEF RequestInv, AnswerIsTrue
<1>2. IInv => AnswerIsHonest
  BY <1>1 DEF AnswerIsHonest
<1> QED
  BY <1>2, Invariance, PTL

(* The total and the page of a list are of one moment, whatever is         *)
(* inserted meanwhile (ExampleRepository.List, InTxWithOptions).           *)
THEOREM ListCorrect == Spec => []ListIsOneMoment
<1>1. ASSUME IInv, NEW r \in Requests, route[r] = "list", Answered(r, "OK")
      PROVE  read[r].total = Cardinality(read[r].page) /\ read[r].page \subseteq effect
  <2>1. RequestInv(r) /\ answer[r].key = "OK"
    BY <1>1, AnsweredIsKey, CodesAre DEF IInv
  <2> QED
    BY <1>1, <2>1 DEF RequestInv, AnswerIsTrue, ReadIsOneMoment
<1>2. IInv => ListIsOneMoment
  BY <1>1 DEF ListIsOneMoment
<1> QED
  BY <1>2, Invariance, PTL

-----------------------------------------------------------------------------
(* What a client and an operator may rely on about tokens.                 *)

(* A NumericDate is the moment or up to a second before it.                *)
LEMMA NumericDateBounds ==
  ASSUME NEW t \in Int
  PROVE  /\ NumericDate(t) \in Int
         /\ NumericDate(t) <= t
         /\ t - Second < NumericDate(t)
<1>1. t % 1000 \in 0..999
  OBVIOUS
<1> QED
  BY <1>1 DEF NumericDate, Second

(* A token is accepted from the moment it is signed for its lifetime less  *)
(* a second, whatever fraction of a second it was signed at: the rounding  *)
(* of nbf and exp never makes a client wait (GenerateToken, ParseToken).   *)
THEOREM IssuedIsAccepted ==
  ASSUME NEW manager, manager.ttl \in Int,
         NEW subject, CanGenerate(manager, subject),
         NEW now \in Nat, NEW later \in Int,
         now <= later, later <= now + manager.ttl - Second
  PROVE  ParseToken(manager, GenerateToken(manager, subject, now), later)
<1> DEFINE token == GenerateToken(manager, subject, now)
<1>1. token.notBefore <= later
  BY NumericDateBounds DEF GenerateToken
<1>2. now + manager.ttl \in Int
  OBVIOUS
<1>3. later < NumericDate(now + manager.ttl) /\ NumericDate(now + manager.ttl) \in Int
  BY <1>2, NumericDateBounds, later + 1000 <= now + manager.ttl DEF Second
<1>4. later < token.expires /\ token.expires # NoTime
  BY <1>3 DEF GenerateToken, NoTime
<1> QED
  BY <1>1, <1>4 DEF ParseToken, InTime, GenerateToken, CanGenerate

(* Once its lifetime is over a token is refused, by every manager, also    *)
(* one with a longer lifetime: exp is in the token.                        *)
THEOREM ExpiredIsRefused ==
  ASSUME NEW manager, manager.ttl \in Int, NEW other, NEW subject,
         NEW now \in Nat, NEW later \in Int, later >= now + manager.ttl
  PROVE  ~ParseToken(other, GenerateToken(manager, subject, now), later)
<1> DEFINE expires == NumericDate(now + manager.ttl)
<1>1. expires \in Int /\ expires <= later
  BY NumericDateBounds
<1>2. GenerateToken(manager, subject, now).expires = expires
  BY DEF GenerateToken
<1>3. ~(later < expires)
  BY <1>1
<1> QED
  BY <1>2, <1>3 DEF ParseToken, InTime

(* Two services that share a secret but not the issuer do not accept each  *)
(* other's tokens, provided the one that checks has an issuer; that is the *)
(* constraint that validate puts on JWT_ISSUER.                            *)
THEOREM ForeignIssuerIsRefused ==
  ASSUME NEW manager, NEW other, NEW subject, NEW now \in Nat, NEW later \in Int,
         other.issuer # "", other.issuer # manager.issuer
  PROVE  ~ParseToken(other, GenerateToken(manager, subject, now), later)
  BY DEF ParseToken, GenerateToken
=============================================================================
