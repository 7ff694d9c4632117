--------------------------- MODULE HealthProbe_proofs ---------------------------
(***************************************************************************)
(* Proofs about HealthProbe, for any number of calls, any deadline and any *)
(* number of changes of the dependencies.  PromptInv is what makes the     *)
(* deadline hold: a goroutine that can go on does so before time passes,   *)
(* and after the deadline only the cache's client may still be in an       *)
(* attempt, one it began before.  TroubleInv says why it can: a dependency *)
(* that is not up now was in trouble during the call.                      *)
(* CalmInv follows a dependency that is up through one call: its ping is   *)
(* started in the first tick and answered before the second is over, so    *)
(* neither the deadline nor the read timeout of the cache's client cuts it *)
(* off, provided both are longer than the one tick that a dependency which *)
(* is up may take.                                                         *)
(***************************************************************************)
EXTENDS HealthProbe, TLAPS

(* A call within its deadline, or waiting for a cache that was in trouble;  *)
(* the attempt it waits for began before the deadline; no goroutine is left *)
(* unstarted.                                                               *)
PromptInv ==
  \A p \in Probes :
    /\ elapsed[p] < Deadline + AttemptLimit
    /\ elapsed[p] > Deadline => "redis" \in configured \intersect troubled[p]
    /\ probe[p] = "idle" => elapsed[p] = 0
    /\ probe[p] = "pinging" /\ elapsed[p] > 0 =>
         \A d \in configured : ping[p][d] # "new"
    /\ attempt[p] < Deadline

TroubleInv ==
  \A p \in Probes, d \in Deps :
    probe[p] = "pinging" /\ up[d] # "up" => d \in troubled[p]

(* A dependency that has been up since the call p arrived.                  *)
Calm(p, d) == p \notin gone /\ d \in configured /\ d \notin troubled[p]

(* Its ping runs to a good end, and the answer says so.                     *)
CalmInv ==
  \A p \in Probes, d \in Deps :
    /\ probe[p] = "idle" => ping[p][d] = "new"
    /\ probe[p] = "pinging" /\ Calm(p, d) =>
         /\ up[d] = "up"
         /\ ping[p][d] # "error"
         /\ ping[p][d] = "pending" => elapsed[p] <= 1
    /\ probe[p] = "answered" /\ p \notin drained /\ Calm(p, d) => check[p][d] = "ok"

(* The status follows from the checks; calls are drained as they arrive.    *)
CodeInv ==
  \A p \in Probes :
    /\ probe[p] = "answered" <=> code[p] # 0
    /\ p \in drained => probe[p] = "answered"
    /\ probe[p] = "answered" /\ p \notin drained => code[p] = StatusCode(check[p])

IInv == TypeOK /\ PromptInv /\ TroubleInv /\ CodeInv

-----------------------------------------------------------------------------
LEMMA InitIInv == Init => IInv /\ CalmInv
<1> SUFFICES ASSUME Init PROVE IInv /\ CalmInv
  OBVIOUS
<1> USE ConstantsAssumption DEF Init
<1>1. TypeOK
  <2>1. NoCheck \in [Deps -> {"none", "ok", "unavailable", "not_configured"}]
    BY DEF NoCheck
  <2>2. [d \in Deps |-> "new"] \in [Deps -> {"new", "pending", "ok", "error"}]
    OBVIOUS
  <2>3. /\ changes \in 0..MaxChanges
        /\ elapsed \in [Probes -> 0..Horizon] /\ attempt \in [Probes -> 0..Horizon]
    BY 0 \in 0..MaxChanges, 0 \in 0..Horizon
  <2>4. /\ configured \subseteq Deps /\ draining \in BOOLEAN
        /\ up \in [Deps -> {"up", "down", "hung"}]
        /\ gone \subseteq Probes /\ drained \subseteq Probes
    BY Zenon
  <2>5. /\ probe \in [Probes -> {"idle", "pinging", "answered"}]
        /\ background \in [Probes -> {"none", "running"}]
        /\ code \in [Probes -> {0, 200, 503}] /\ troubled \in [Probes -> SUBSET Deps]
    OBVIOUS
  <2>6. /\ ping \in [Probes -> [Deps -> {"new", "pending", "ok", "error"}]]
        /\ check \in [Probes -> [Deps -> {"none", "ok", "unavailable", "not_configured"}]]
    BY <2>1, <2>2
  <2>7. QED
    BY <2>3, <2>4, <2>5, <2>6 DEF TypeOK
<1>2. PromptInv
  BY DEF PromptInv
<1>3. CodeInv /\ CalmInv /\ TroubleInv
  BY DEF CodeInv, CalmInv, TroubleInv
<1>4. QED
  BY <1>1, <1>2, <1>3 DEF IInv

(* Starting a ping sets one entry, to what the context allows.              *)
LEMMA StartEffect ==
  ASSUME TypeOK, NEW p \in Probes, NEW d \in Deps, StartPing(p, d)
  PROVE  /\ ping' \in [Probes -> [Deps -> {"new", "pending", "ok", "error"}]]
         /\ \A q \in Probes, e \in Deps :
              ping'[q][e] = IF q = p /\ e = d
                              THEN IF Expired(p) THEN "error" ELSE "pending"
                              ELSE ping[q][e]
         /\ \A q \in Probes, e \in Deps : ping'[q][e] = "new" => ping[q][e] = "new"
         /\ attempt' \in [Probes -> 0..Horizon]
         /\ attempt' = attempt
              \/ (~Expired(p) /\ attempt' = [attempt EXCEPT ![p] = elapsed[p]])
<1>1. PICK s \in {"error", "pending"} :
          /\ ping' = [ping EXCEPT ![p][d] = s]
          /\ s = IF Expired(p) THEN "error" ELSE "pending"
  BY DEF StartPing
<1>2. \/ attempt' = attempt
      \/ ~Expired(p) /\ attempt' = [attempt EXCEPT ![p] = elapsed[p]]
  BY DEF StartPing
<1>3. /\ attempt \in [Probes -> 0..Horizon] /\ elapsed[p] \in 0..Horizon
      /\ ping \in [Probes -> [Deps -> {"new", "pending", "ok", "error"}]]
  BY DEF TypeOK
<1> HIDE DEF TypeOK
<1>4. attempt' \in [Probes -> 0..Horizon]
  BY <1>2, <1>3
<1>5. QED
  BY <1>1, <1>2, <1>3, <1>4

(* Every step keeps the types.                                              *)
LEMMA TypeStep ==
  TypeOK /\ [Next]_vars => TypeOK'
<1> SUFFICES ASSUME TypeOK, [Next]_vars PROVE TypeOK'
  OBVIOUS
<1> USE ConstantsAssumption DEF TypeOK, Deps, pingVars, probeVars, StatusCode
<1>1. ASSUME NEW p \in Probes, Health(p) PROVE TypeOK'
  <2>1. /\ Troubled \in SUBSET Deps
        /\ DrainChecks \in [Deps -> {"none", "ok", "unavailable", "not_configured"}]
    BY DEF Troubled, DrainChecks
  <2>2. UNCHANGED <<configured, up, changes, draining, elapsed, gone, pingVars>>
    BY <1>1 DEF Health
  <2>3. CASE draining
    <3>1. /\ probe' = [probe EXCEPT ![p] = "answered"] /\ code' = [code EXCEPT ![p] = 503]
          /\ check' = [check EXCEPT ![p] = DrainChecks]
          /\ drained' = drained \union {p} /\ UNCHANGED troubled
      BY <1>1, <2>3 DEF Health
    <3>2. QED
      BY <2>1, <2>2, <3>1
  <2>4. CASE ~draining
    <3>1. /\ probe' = [probe EXCEPT ![p] = "pinging"]
          /\ troubled' = [troubled EXCEPT ![p] = Troubled]
          /\ UNCHANGED <<code, check, drained>>
      BY <1>1, <2>4 DEF Health
    <3>2. QED
      BY <2>1, <2>2, <3>1
  <2>5. QED
    BY <2>3, <2>4
<1>2. ASSUME NEW p \in Probes, NEW d \in Deps, StartPing(p, d) PROVE TypeOK'
  <2>1. /\ ping' \in [Probes -> [Deps -> {"new", "pending", "ok", "error"}]]
        /\ attempt' \in [Probes -> 0..Horizon]
    BY <1>2, StartEffect
  <2>2. UNCHANGED <<configured, up, changes, draining, probe, elapsed, gone, check,
                    code, drained, troubled>>
    BY <1>2 DEF StartPing
  <2>3. background \in [Probes -> {"none", "running"}]
    BY DEF TypeOK
  <2>4. background' = background \/ background' = [background EXCEPT ![p] = "running"]
    BY <1>2 DEF StartPing
  <2> HIDE DEF TypeOK
  <2>5. background' \in [Probes -> {"none", "running"}]
    BY <2>3, <2>4
  <2>6. QED
    BY <2>1, <2>2, <2>5 DEF TypeOK
<1>3. ASSUME NEW p \in Probes, NEW d \in Deps, PingReturns(p, d) PROVE TypeOK'
  BY <1>3 DEF PingReturns, Answers
<1>4. ASSUME NEW p \in Probes, NEW d \in Deps, PingGivesUp(p, d) PROVE TypeOK'
  BY <1>4 DEF PingGivesUp, GivesUp
<1>5. ASSUME NEW p \in Probes, LatePing(p) PROVE TypeOK'
  BY <1>5 DEF LatePing
<1>6. ASSUME NEW p \in Probes, Answer(p) PROVE TypeOK'
  BY <1>6 DEF Answer, AllBack, CheckOf
<1>7. CASE Tick
  BY <1>7 DEF Tick
<1>13. ASSUME NEW p \in Probes, RetryPing(p) PROVE TypeOK'
  BY <1>13 DEF RetryPing
<1>8. ASSUME NEW p \in Probes, ClientGone(p) PROVE TypeOK'
  BY <1>8 DEF ClientGone
<1>9. ASSUME NEW d \in Deps, DepChanges(d) PROVE TypeOK'
  BY <1>9 DEF DepChanges
<1>10. CASE Drain
  BY <1>10 DEF Drain
<1>11. CASE UNCHANGED vars
  BY <1>11 DEF vars
<1>12. QED
  BY <1>1, <1>2, <1>3, <1>4, <1>5, <1>6, <1>7, <1>8, <1>9, <1>10, <1>11, <1>13
     DEF Next

(* Time passes only when nothing else is due.                               *)
LEMMA PromptStep ==
  TypeOK /\ PromptInv /\ TroubleInv /\ [Next]_vars => PromptInv'
<1> SUFFICES ASSUME TypeOK, PromptInv, TroubleInv, [Next]_vars PROVE PromptInv'
  OBVIOUS
<1> USE ConstantsAssumption DEF TypeOK, PromptInv, pingVars, probeVars
<1>1. ASSUME NEW p \in Probes, Health(p) PROVE PromptInv'
  <2>1. /\ probe[p] = "idle" /\ UNCHANGED <<configured, elapsed, ping, attempt>>
        /\ \A q \in Probes \ {p} : probe'[q] = probe[q] /\ troubled'[q] = troubled[q]
        /\ probe'[p] # "idle" /\ elapsed[p] = 0
    BY <1>1 DEF Health
  <2>2. QED
    BY <2>1
<1>2. ASSUME NEW p \in Probes, NEW d \in Deps, StartPing(p, d) PROVE PromptInv'
  <2>1. \A q \in Probes, e \in Deps : ping'[q][e] = "new" => ping[q][e] = "new"
    BY <1>2, StartEffect
  <2>2. UNCHANGED <<configured, probe, elapsed, troubled>>
    BY <1>2 DEF StartPing
  <2>3. \A q \in Probes : attempt'[q] < Deadline
    <3>1. \/ attempt' = attempt
          \/ ~Expired(p) /\ attempt' = [attempt EXCEPT ![p] = elapsed[p]]
      BY <1>2, StartEffect
    <3>2. ~Expired(p) => elapsed[p] < Deadline
      BY DEF Expired
    <3>3. /\ attempt \in [Probes -> 0..Horizon]
          /\ \A q \in Probes : attempt[q] < Deadline
      BY DEF TypeOK, PromptInv
    <3> HIDE DEF TypeOK, PromptInv
    <3>4. QED
      BY <3>1, <3>2, <3>3
  <2>4. QED
    BY <2>1, <2>2, <2>3
<1>3. ASSUME NEW p \in Probes, NEW d \in Deps, PingReturns(p, d) PROVE PromptInv'
  BY <1>3 DEF PingReturns, Answers
<1>4. ASSUME NEW p \in Probes, NEW d \in Deps, PingGivesUp(p, d) PROVE PromptInv'
  BY <1>4 DEF PingGivesUp, GivesUp
<1>5. ASSUME NEW p \in Probes, LatePing(p) PROVE PromptInv'
  BY <1>5 DEF LatePing
<1>6. ASSUME NEW p \in Probes, Answer(p) PROVE PromptInv'
  BY <1>6 DEF Answer, AllBack, CheckOf
<1>7. CASE Tick
  <2>1. UNCHANGED <<configured, up, probe, ping, attempt, troubled>>
    BY <1>7 DEF Tick
  <2>2. ASSUME NEW q \in Probes, probe[q] = "pinging"
        PROVE  /\ elapsed'[q] < Deadline + AttemptLimit
               /\ elapsed'[q] > Deadline => "redis" \in configured \intersect troubled[q]
               /\ \A d \in configured : ping[q][d] # "new"
    <3>1. ~Urgent(q) /\ elapsed'[q] = elapsed[q] + 1 /\ configured \subseteq Deps
      BY <1>7, <2>2 DEF Tick
    <3>2. \A d \in configured : ping[q][d] # "new"
      BY <2>2, <3>1 DEF Urgent, CanStart
    <3>3. PICK d \in configured : ping[q][d] \notin {"ok", "error"}
      BY <2>2, <3>1 DEF Urgent, AllBack
    <3>4. ping[q][d] = "pending" /\ d \in Deps
      BY <3>1, <3>2, <3>3
    <3>5. elapsed[q] \in Nat /\ attempt[q] \in Nat /\ attempt[q] < Deadline
      OBVIOUS
    <3>6. CASE ~Expired(q)
      <4>1. elapsed'[q] <= Deadline
        BY <3>1, <3>5, <3>6 DEF Expired
      <4>2. QED
        BY <3>1, <3>2, <3>5, <4>1
    <3>7. CASE Expired(q)
      <4>1. d = "redis" /\ ~AttemptOver(q)
        BY <3>1, <3>4, <3>7 DEF Urgent, GivesUp
      <4>2. elapsed[q] + 1 < Deadline + AttemptLimit
        BY <3>5, <4>1 DEF AttemptOver
      <4>3. elapsed[q] >= Deadline => "redis" \in troubled[q]
        <5>1. SUFFICES ASSUME elapsed[q] >= Deadline PROVE up["redis"] = "hung"
          BY <2>2 DEF TroubleInv, Deps
        <5>2. elapsed[q] > 0
          BY <3>5, <5>1
        <5>3. QED
          BY <3>1, <3>4, <3>7, <4>1, <5>2 DEF Urgent, Answers
      <4>4. QED
        BY <3>1, <3>2, <3>3, <3>5, <4>1, <4>2, <4>3
    <3>8. QED
      BY <3>6, <3>7
  <2>3. ASSUME NEW q \in Probes, probe[q] # "pinging"
        PROVE  elapsed'[q] = elapsed[q]
    BY <1>7, <2>3 DEF Tick
  <2>4. QED
    BY <2>1, <2>2, <2>3
<1>13. ASSUME NEW p \in Probes, RetryPing(p) PROVE PromptInv'
  <2>1. UNCHANGED <<configured, probe, elapsed, ping, troubled>>
    BY <1>13 DEF RetryPing
  <2>2. \A q \in Probes : attempt'[q] < Deadline
    BY <1>13 DEF RetryPing, CanRetry, Expired
  <2>3. QED
    BY <2>1, <2>2
<1>8. ASSUME NEW p \in Probes, ClientGone(p) PROVE PromptInv'
  BY <1>8 DEF ClientGone
<1>9. ASSUME NEW d \in Deps, DepChanges(d) PROVE PromptInv'
  BY <1>9 DEF DepChanges
<1>10. CASE Drain
  BY <1>10 DEF Drain
<1>11. CASE UNCHANGED vars
  BY <1>11 DEF vars
<1>12. QED
  BY <1>1, <1>2, <1>3, <1>4, <1>5, <1>6, <1>7, <1>8, <1>9, <1>10, <1>11, <1>13
     DEF Next

(* What happens to the dependencies during a call is remembered.            *)
LEMMA TroubleStep ==
  TypeOK /\ TroubleInv /\ [Next]_vars => TroubleInv'
<1> SUFFICES ASSUME TypeOK, TroubleInv, [Next]_vars PROVE TroubleInv'
  OBVIOUS
<1> USE ConstantsAssumption DEF TypeOK, TroubleInv, pingVars, probeVars
<1>1. ASSUME NEW p \in Probes, Health(p) PROVE TroubleInv'
  BY <1>1 DEF Health, Troubled
<1>2. ASSUME NEW p \in Probes, Answer(p) PROVE TroubleInv'
  BY <1>2 DEF Answer
<1>3. ASSUME NEW d \in Deps, DepChanges(d) PROVE TroubleInv'
  BY <1>3 DEF DepChanges
<1>4. ASSUME UNCHANGED <<up, probe, troubled>> PROVE TroubleInv'
  BY <1>4
<1>5. ASSUME NEW p \in Probes, NEW d \in Deps,
             StartPing(p, d) \/ PingReturns(p, d) \/ PingGivesUp(p, d)
      PROVE  TroubleInv'
  BY <1>4, <1>5 DEF StartPing, PingReturns, PingGivesUp
<1>6. ASSUME NEW p \in Probes, ClientGone(p) \/ LatePing(p) \/ RetryPing(p)
      PROVE  TroubleInv'
  BY <1>4, <1>6 DEF ClientGone, LatePing, RetryPing
<1>7. CASE Tick \/ Drain \/ UNCHANGED vars
  BY <1>4, <1>7 DEF Tick, Drain, vars
<1>8. QED
  BY <1>1, <1>2, <1>3, <1>5, <1>6, <1>7 DEF Next

(* An answer is given once, with the status of its checks.                  *)
LEMMA CodeStep ==
  TypeOK /\ CodeInv /\ [Next]_vars => CodeInv'
<1> SUFFICES ASSUME TypeOK, CodeInv, [Next]_vars PROVE CodeInv'
  OBVIOUS
<1> USE ConstantsAssumption DEF TypeOK, CodeInv, pingVars, probeVars, StatusCode
<1>1. ASSUME NEW p \in Probes, Health(p) PROVE CodeInv'
  BY <1>1 DEF Health, DrainChecks, Troubled
<1>2. ASSUME NEW p \in Probes, NEW d \in Deps, StartPing(p, d) PROVE CodeInv'
  BY <1>2 DEF StartPing, CanStart
<1>3. ASSUME NEW p \in Probes, NEW d \in Deps, PingReturns(p, d) PROVE CodeInv'
  BY <1>3 DEF PingReturns, Answers
<1>4. ASSUME NEW p \in Probes, NEW d \in Deps, PingGivesUp(p, d) PROVE CodeInv'
  BY <1>4 DEF PingGivesUp, GivesUp
<1>5. ASSUME NEW p \in Probes, LatePing(p) PROVE CodeInv'
  BY <1>5 DEF LatePing
<1>6. ASSUME NEW p \in Probes, Answer(p) PROVE CodeInv'
  BY <1>6 DEF Answer, AllBack, CheckOf
<1>7. CASE Tick
  BY <1>7 DEF Tick
<1>13. ASSUME NEW p \in Probes, RetryPing(p) PROVE CodeInv'
  BY <1>13 DEF RetryPing
<1>8. ASSUME NEW p \in Probes, ClientGone(p) PROVE CodeInv'
  BY <1>8 DEF ClientGone
<1>9. ASSUME NEW d \in Deps, DepChanges(d) PROVE CodeInv'
  BY <1>9 DEF DepChanges
<1>10. CASE Drain
  BY <1>10 DEF Drain
<1>11. CASE UNCHANGED vars
  BY <1>11 DEF vars
<1>12. QED
  BY <1>1, <1>2, <1>3, <1>4, <1>5, <1>6, <1>7, <1>8, <1>9, <1>10, <1>11, <1>13
     DEF Next

(* A dependency that stays up is not cut off by the deadline.               *)
LEMMA CalmStep ==
  ASSUME Deadline >= 2, AttemptLimit >= 2
  PROVE  IInv /\ CalmInv /\ [Next]_vars => CalmInv'
<1> SUFFICES ASSUME TypeOK, PromptInv, CodeInv, CalmInv, [Next]_vars PROVE CalmInv'
  BY DEF IInv
<1> USE ConstantsAssumption DEF TypeOK, PromptInv, CodeInv, CalmInv, Calm, pingVars, probeVars
<1>1. ASSUME NEW p \in Probes, Health(p) PROVE CalmInv'
  BY <1>1 DEF Health, DrainChecks, Troubled
<1>2. ASSUME NEW p \in Probes, NEW d \in Deps, StartPing(p, d) PROVE CalmInv'
  <2>1. /\ UNCHANGED <<configured, up, probe, elapsed, gone, check, drained, troubled>>
        /\ probe[p] = "pinging" /\ d \in configured /\ ping[p][d] = "new"
    BY <1>2 DEF StartPing, CanStart
  <2>2. Calm(p, d) => elapsed[p] = 0 /\ ~Expired(p)
    <3>1. ~(elapsed[p] > 0) /\ elapsed[p] \in 0..Horizon
      BY <2>1
    <3> HIDE DEF TypeOK, PromptInv, CodeInv, CalmInv
    <3>2. elapsed[p] = 0 /\ ~(elapsed[p] >= Deadline)
      BY <3>1
    <3>3. QED
      BY <3>2 DEF Expired
  <2>3. \A q \in Probes, e \in Deps :
          ping'[q][e] = IF q = p /\ e = d
                          THEN IF Expired(p) THEN "error" ELSE "pending"
                          ELSE ping[q][e]
    BY <1>2, StartEffect
  <2>4. ASSUME NEW q \in Probes, NEW e \in Deps
        PROVE  /\ probe'[q] = "idle" => ping'[q][e] = "new"
               /\ probe'[q] = "pinging" /\ Calm(q, e)' =>
                    up'[e] = "up" /\ ping'[q][e] # "error"
                                 /\ (ping'[q][e] = "pending" => elapsed'[q] <= 1)
    <3>1. CASE q = p /\ e = d
      BY <2>1, <2>2, <2>3, <3>1
    <3>2. CASE ~(q = p /\ e = d)
      <4>1. ping'[q][e] = ping[q][e]
        BY <2>3, <3>2
      <4>2. QED
        BY <2>1, <4>1
    <3>3. QED
      BY <3>1, <3>2
  <2>5. QED
    BY <2>1, <2>4
<1>3. ASSUME NEW p \in Probes, NEW d \in Deps, PingReturns(p, d) PROVE CalmInv'
  BY <1>3 DEF PingReturns, Answers
<1>4. ASSUME NEW p \in Probes, NEW d \in Deps, PingGivesUp(p, d) PROVE CalmInv'
  <2>1. /\ UNCHANGED <<configured, up, probe, elapsed, gone, check, drained, troubled>>
        /\ ping[p][d] = "pending" /\ (Expired(p) \/ AttemptOver(p))
    BY <1>4 DEF PingGivesUp, GivesUp
  <2>2. probe[p] = "pinging" => ~Calm(p, d)
    <3>1. p \notin gone => elapsed[p] > 1
      BY <2>1 DEF Expired, AttemptOver
    <3>2. QED
      BY <2>1, <3>1
  <2>3. /\ probe[p] # "idle"
        /\ \A q \in Probes, e \in Deps : q # p \/ e # d => ping'[q][e] = ping[q][e]
    BY <1>4, <2>1 DEF PingGivesUp
  <2> HIDE DEF TypeOK, PromptInv, CodeInv, Calm
  <2>4. \A q \in Probes, e \in Deps : Calm(q, e)' = Calm(q, e)
    BY <2>1 DEF Calm
  <2>5. QED
    BY <2>1, <2>2, <2>3, <2>4
<1>5. ASSUME NEW p \in Probes, LatePing(p) PROVE CalmInv'
  BY <1>5 DEF LatePing
<1>6. ASSUME NEW p \in Probes, Answer(p) PROVE CalmInv'
  BY <1>6 DEF Answer, AllBack, CheckOf
<1>7. CASE Tick
  <2>1. /\ UNCHANGED <<configured, up, probe, gone, ping, check, drained, troubled>>
        /\ \A q \in Probes : ~Urgent(q)
        /\ \A q \in Probes : elapsed'[q] = IF probe[q] = "pinging" THEN elapsed[q] + 1
                                                                  ELSE elapsed[q]
    BY <1>7 DEF Tick
  <2>2. ASSUME NEW q \in Probes, NEW d \in Deps, up[d] = "up", ping[q][d] = "pending"
        PROVE  elapsed[q] = 0
    <3>1. ~(Answers(q, d) /\ elapsed[q] > 0)
      BY <2>1, <2>2 DEF Urgent
    <3>2. QED
      BY <2>2, <3>1 DEF Answers
  <2>3. QED
    BY <2>1, <2>2
<1>13. ASSUME NEW p \in Probes, RetryPing(p) PROVE CalmInv'
  BY <1>13 DEF RetryPing
<1>8. ASSUME NEW p \in Probes, ClientGone(p) PROVE CalmInv'
  BY <1>8 DEF ClientGone
<1>9. ASSUME NEW d \in Deps, DepChanges(d) PROVE CalmInv'
  BY <1>9 DEF DepChanges
<1>10. CASE Drain
  BY <1>10 DEF Drain
<1>11. CASE UNCHANGED vars
  BY <1>11 DEF vars
<1>12. QED
  BY <1>1, <1>2, <1>3, <1>4, <1>5, <1>6, <1>7, <1>8, <1>9, <1>10, <1>11, <1>13
     DEF Next

-----------------------------------------------------------------------------
(* The invariant, for any number of calls.                                  *)
THEOREM Invariance == Spec => []IInv
<1>1. IInv /\ [Next]_vars => IInv'
  BY TypeStep, PromptStep, TroubleStep, CodeStep DEF IInv
<1>2. QED
  BY <1>1, InitIInv, PTL DEF Spec

(* The variables keep their types.                                          *)
THEOREM TypeCorrect == Spec => []TypeOK
<1>1. IInv => TypeOK
  BY DEF IInv
<1>2. QED
  BY <1>1, Invariance, PTL

(* No call outlives its deadline, whatever hangs, but for the one attempt   *)
(* that the cache's client is in.                                           *)
THEOREM TimeCorrect == Spec => []AnswersInTime
<1>1. IInv => AnswersInTime
  <2>1. IInv => \A p \in Probes : elapsed[p] \in Nat
    BY ConstantsAssumption DEF IInv, TypeOK
  <2>2. QED
    BY <2>1, ConstantsAssumption DEF IInv, PromptInv, AnswersInTime
<1>2. QED
  BY <1>1, Invariance, PTL

(* A dependency that is up during a call is reported so, whatever becomes   *)
(* of the others, when the deadline and the read timeout of the cache's     *)
(* client are longer than the time it may take.                             *)
THEOREM ReportCorrect ==
  ASSUME Deadline >= 2, AttemptLimit >= 2
  PROVE  Spec => []HealthyIsReported
<1>1. CalmInv => HealthyIsReported
  BY DEF CalmInv, Calm, HealthyIsReported
<1>2. IInv /\ CalmInv /\ [Next]_vars => CalmInv'
  BY CalmStep
<1>3. QED
  BY <1>1, <1>2, InitIInv, Invariance, PTL DEF Spec

(* A 503 has PostgreSQL or the drain for a reason, under the same premise.  *)
THEOREM VerdictCorrect ==
  ASSUME Deadline >= 2, AttemptLimit >= 2
  PROVE  Spec => []UnhealthyHasReason
<1>1. IInv /\ CalmInv => UnhealthyHasReason
  BY DEF IInv, CodeInv, CalmInv, Calm, UnhealthyHasReason, StatusCode, Deps
<1>2. IInv /\ CalmInv /\ [Next]_vars => CalmInv'
  BY CalmStep
<1>3. QED
  BY <1>1, <1>2, InitIInv, Invariance, PTL DEF Spec
=============================================================================
