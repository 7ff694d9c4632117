---------------------------- MODULE HealthProbe ----------------------------
(***************************************************************************)
(* Concurrent calls of /health: each reads the draining flag, then pings   *)
(* PostgreSQL, the Redis cache and the queue's Redis in goroutines of its  *)
(* own under one deadline, waits for all three and answers.  The queue's   *)
(* client knows no context, so Queue.Ping leaves its PING in the           *)
(* background when the deadline comes first.  The cache's client is built  *)
(* without ContextTimeoutEnabled: it looks at the context between its      *)
(* attempts only, and an attempt on a hung connection ends by the client's *)
(* own read timeout.                                                       *)
(***************************************************************************)
EXTENDS Naturals, FiniteSets

CONSTANTS
  Probes,       \* calls of /health
  Deadline,     \* ticks of the context the pings share (2 s)
  AttemptLimit, \* ticks the cache's client lets one attempt go on (3 s)
  Horizon,      \* bound: ticks one probe is followed for
  MaxChanges    \* bound: changes of state of the dependencies

Deps == {"postgres", "redis", "queue"}

ASSUME ConstantsAssumption ==
  /\ Deadline \in Nat \ {0}
  /\ AttemptLimit \in Nat \ {0}
  /\ Horizon \in Nat /\ Horizon >= Deadline + AttemptLimit
  /\ MaxChanges \in Nat

VARIABLES
  configured,  \* dependencies this instance has, never changed
  up,          \* "up", "down" (answers with an error) or "hung"
  changes,     \* bounded number of changes of up
  draining,    \* Registry.Draining
  probe,       \* per call: "idle", "pinging", "answered"
  elapsed,     \* per call: ticks since it arrived
  gone,        \* calls whose client went away: the request context is done
  ping,        \* per call and dependency: "new", "pending", "ok", "error"
  attempt,     \* per call: tick in which the cache's client began to try
  background,  \* per call: PING of the queue's client "none" or "running"
  check,       \* per call: what the answer says of each dependency
  code,        \* per call: the HTTP status, 0 before
  drained,     \* history: calls that arrived when draining was set
  troubled     \* history: per call, dependencies that were not up during it

pingVars  == <<ping, attempt, background>>
probeVars == <<probe, elapsed, gone, pingVars, check, code, drained, troubled>>
vars == <<configured, up, changes, draining, probeVars>>

NoCheck == [d \in Deps |-> "none"]

Init ==
  /\ configured \in SUBSET Deps
  /\ up \in [Deps -> {"up", "down", "hung"}]
  /\ changes = 0
  /\ draining = FALSE
  /\ probe = [p \in Probes |-> "idle"]
  /\ elapsed = [p \in Probes |-> 0]
  /\ gone = {}
  /\ ping = [p \in Probes |-> [d \in Deps |-> "new"]]
  /\ attempt = [p \in Probes |-> 0]
  /\ background = [p \in Probes |-> "none"]
  /\ check = [p \in Probes |-> NoCheck]
  /\ code = [p \in Probes |-> 0]
  /\ drained = {}
  /\ troubled = [p \in Probes |-> {}]

-----------------------------------------------------------------------------
(* Decisions, each after a plausible mistake in it (Bug...) that nothing   *)
(* uses: it is swapped in to see that the properties notice.               *)

(* The context of a call is done.                                          *)
Expired(p) == elapsed[p] >= Deadline \/ p \in gone

BugCanStart(p, d) ==
  /\ probe[p] = "pinging" /\ d \in configured /\ ping[p][d] = "new"
  /\ d # "postgres" /\ "postgres" \in configured
       => ping[p]["postgres"] \in {"ok", "error"}

(* wg.Go for each configured dependency: all three at once.                *)
CanStart(p, d) == probe[p] = "pinging" /\ d \in configured /\ ping[p][d] = "new"

(* The read timeout of the cache's client has ended its attempt.           *)
AttemptOver(p) == elapsed[p] >= attempt[p] + AttemptLimit

BugGivesUp(p, d) == ping[p][d] = "pending" /\ Expired(p) /\ d # "queue"

(* A ping ends without an answer.  pgx honours the context, and so does    *)
(* the select of Queue.Ping, whose PING goes on without it.  The cache's   *)
(* client may be at a point where it looks at the context, and fails       *)
(* anyway when its last attempt is over.                                   *)
GivesUp(p, d) ==
  ping[p][d] = "pending" /\ (Expired(p) \/ (d = "redis" /\ AttemptOver(p)))

(* The cache's client tries again only while the context allows it.        *)
CanRetry(p) ==
  /\ ping[p]["redis"] = "pending" /\ ~Expired(p)
  /\ up["redis"] = "down" \/ AttemptOver(p)

Answers(p, d) == ping[p][d] = "pending" /\ up[d] # "hung"

(* wg.Wait returns.                                                        *)
AllBack(p) ==
  probe[p] = "pinging" /\ \A d \in configured : ping[p][d] \in {"ok", "error"}

CheckOf(p, d) ==
  IF d \notin configured THEN "not_configured"
  ELSE IF ping[p][d] = "ok" THEN "ok" ELSE "unavailable"

BugStatusCode(c) == IF c["postgres"] = "ok" /\ c["redis"] # "unavailable" THEN 200 ELSE 503

(* Only PostgreSQL takes the instance out of the load balancer.            *)
StatusCode(c) == IF c["postgres"] = "ok" THEN 200 ELSE 503

(* The checks of an instance that drains keep to the documented values.    *)
DrainChecks == [d \in Deps |-> "unavailable"]

Troubled == {d \in Deps : up[d] # "up"}

BugLateResultIsTaken(p) == ping[p]["queue"] = "pending"

(* The channel Queue.Ping's goroutine sends to has room for the result,    *)
(* also when nobody receives it any more.                                  *)
LateResultIsTaken(p) == TRUE

-----------------------------------------------------------------------------
(* A call arrives.  While draining it is answered at once.                 *)
Health(p) ==
  /\ probe[p] = "idle"
  /\ IF draining
       THEN /\ probe' = [probe EXCEPT ![p] = "answered"]
            /\ code' = [code EXCEPT ![p] = 503]
            /\ check' = [check EXCEPT ![p] = DrainChecks]
            /\ drained' = drained \union {p}
            /\ UNCHANGED troubled
       ELSE /\ probe' = [probe EXCEPT ![p] = "pinging"]
            /\ troubled' = [troubled EXCEPT ![p] = Troubled]
            /\ UNCHANGED <<code, check, drained>>
  /\ UNCHANGED <<configured, up, changes, draining, elapsed, gone, pingVars>>

(* The goroutine of one ping begins.  Queue.Ping looks at the context      *)
(* before it starts a PING of its own.                                     *)
StartPing(p, d) ==
  /\ CanStart(p, d)
  /\ IF Expired(p)
       THEN /\ ping' = [ping EXCEPT ![p][d] = "error"]
            /\ UNCHANGED <<attempt, background>>
       ELSE /\ ping' = [ping EXCEPT ![p][d] = "pending"]
            /\ attempt' = IF d = "redis" THEN [attempt EXCEPT ![p] = elapsed[p]] ELSE attempt
            /\ background' = IF d = "queue" THEN [background EXCEPT ![p] = "running"]
                                            ELSE background
  /\ UNCHANGED <<configured, up, changes, draining, probe, elapsed, gone, check, code,
                 drained, troubled>>

(* The dependency answers, or refuses.                                     *)
PingReturns(p, d) ==
  /\ Answers(p, d)
  /\ ping' = [ping EXCEPT ![p][d] = IF up[d] = "up" THEN "ok" ELSE "error"]
  /\ background' = IF d = "queue" THEN [background EXCEPT ![p] = "none"] ELSE background
  /\ UNCHANGED <<configured, up, changes, draining, probe, elapsed, gone, attempt, check,
                 code, drained, troubled>>

(* The context is done first; the PING of the queue goes on.               *)
PingGivesUp(p, d) ==
  /\ GivesUp(p, d)
  /\ ping' = [ping EXCEPT ![p][d] = "error"]
  /\ UNCHANGED <<configured, up, changes, draining, probe, elapsed, gone, attempt, background,
                 check, code, drained, troubled>>

RetryPing(p) ==
  /\ CanRetry(p)
  /\ attempt' = [attempt EXCEPT ![p] = elapsed[p]]
  /\ UNCHANGED <<configured, up, changes, draining, probe, elapsed, gone, ping, background,
                 check, code, drained, troubled>>

(* An abandoned PING comes to its end: an answer, or go-redis's own        *)
(* timeout.                                                                *)
LatePing(p) ==
  /\ background[p] = "running" /\ ping[p]["queue"] # "pending"
  /\ LateResultIsTaken(p)
  /\ background' = [background EXCEPT ![p] = "none"]
  /\ UNCHANGED <<configured, up, changes, draining, probe, elapsed, gone, ping, attempt, check,
                 code, drained, troubled>>

Answer(p) ==
  LET c == [d \in Deps |-> CheckOf(p, d)] IN
  /\ AllBack(p)
  /\ probe' = [probe EXCEPT ![p] = "answered"]
  /\ check' = [check EXCEPT ![p] = c]
  /\ code' = [code EXCEPT ![p] = StatusCode(c)]
  /\ UNCHANGED <<configured, up, changes, draining, elapsed, gone, pingVars,
                 drained, troubled>>

-----------------------------------------------------------------------------
(* Time passes for the calls in progress.  A goroutine that can go on does *)
(* so first, and a dependency that can answer does so within a tick; the   *)
(* cache's client waits between two attempts that were refused, as long as *)
(* the context lets it, and notices the context only when an attempt ends. *)
Urgent(p) ==
  \/ AllBack(p)
  \/ \E d \in Deps :
       \/ CanStart(p, d)
       \/ GivesUp(p, d) /\ (d = "redis" => AttemptOver(p))
       \/ /\ Answers(p, d) /\ elapsed[p] > 0
          /\ d = "redis" /\ up[d] = "down" => Expired(p)

Tick ==
  /\ \E p \in Probes : probe[p] = "pinging"
  /\ \A p \in Probes : ~Urgent(p) /\ elapsed[p] < Horizon
  /\ elapsed' = [p \in Probes |-> IF probe[p] = "pinging" THEN elapsed[p] + 1
                                                          ELSE elapsed[p]]
  /\ UNCHANGED <<configured, up, changes, draining, probe, gone, pingVars,
                 check, code, drained, troubled>>

ClientGone(p) ==
  /\ probe[p] = "pinging" /\ p \notin gone
  /\ gone' = gone \union {p}
  /\ UNCHANGED <<configured, up, changes, draining, probe, elapsed, pingVars,
                 check, code, drained, troubled>>

(* A dependency fails, hangs or recovers.                                  *)
DepChanges(d) ==
  /\ changes < MaxChanges
  /\ changes' = changes + 1
  /\ \E s \in {"up", "down", "hung"} \ {up[d]} : up' = [up EXCEPT ![d] = s]
  /\ troubled' = [p \in Probes |->
                    IF probe[p] = "pinging" /\ up'[d] # "up"
                      THEN troubled[p] \union {d} ELSE troubled[p]]
  /\ UNCHANGED <<configured, draining, probe, elapsed, gone, pingVars, check,
                 code, drained>>

(* serveAPI begins to drain.                                               *)
Drain ==
  /\ ~draining
  /\ draining' = TRUE
  /\ UNCHANGED <<configured, up, changes, probeVars>>

Next ==
  \/ \E p \in Probes :
       \/ Health(p) \/ Answer(p) \/ ClientGone(p) \/ LatePing(p) \/ RetryPing(p)
       \/ \E d \in Deps : StartPing(p, d) \/ PingReturns(p, d) \/ PingGivesUp(p, d)
  \/ \E d \in Deps : DepChanges(d)
  \/ Tick \/ Drain

Spec == Init /\ [][Next]_vars

(* Goroutines are scheduled, time passes, a dependency that can answer     *)
(* does, and go-redis ends a PING.                                         *)
Fairness ==
  /\ WF_vars(Tick)
  /\ \A p \in Probes :
       /\ WF_vars(Answer(p))
       /\ WF_vars(LatePing(p))
       /\ \A d \in Deps :
            /\ WF_vars(StartPing(p, d))
            /\ WF_vars(PingReturns(p, d))
            /\ WF_vars(PingGivesUp(p, d))

FairSpec == Spec /\ Fairness
-----------------------------------------------------------------------------
(* Properties.                                                             *)

(* Types of the variables.                                                 *)
TypeOK ==
  /\ configured \subseteq Deps
  /\ up \in [Deps -> {"up", "down", "hung"}]
  /\ changes \in 0..MaxChanges
  /\ draining \in BOOLEAN
  /\ probe \in [Probes -> {"idle", "pinging", "answered"}]
  /\ elapsed \in [Probes -> 0..Horizon]
  /\ gone \subseteq Probes /\ drained \subseteq Probes
  /\ ping \in [Probes -> [Deps -> {"new", "pending", "ok", "error"}]]
  /\ attempt \in [Probes -> 0..Horizon]
  /\ background \in [Probes -> {"none", "running"}]
  /\ check \in [Probes -> [Deps -> {"none", "ok", "unavailable", "not_configured"}]]
  /\ code \in [Probes -> {0, 200, 503}]
  /\ troubled \in [Probes -> SUBSET Deps]

(* Trouble with Redis alone never takes an instance out of the load        *)
(* balancer: a 503 means draining, or PostgreSQL missing or in trouble     *)
(* while the call was going on.                                            *)
UnhealthyHasReason ==
  \A p \in Probes :
    code[p] = 503 /\ p \notin gone =>
      p \in drained \/ "postgres" \notin configured \/ "postgres" \in troubled[p]

(* A dependency that was up all the time is reported so, however slow the  *)
(* others are: the pings do not eat each other's budget.                   *)
HealthyIsReported ==
  \A p \in Probes, d \in Deps :
    /\ probe[p] = "answered" /\ p \notin drained \union gone
    /\ d \in configured /\ d \notin troubled[p]
    => check[p][d] = "ok"

(* The answer comes within the deadline even when PostgreSQL hangs, or the *)
(* queue's client, that knows no context.  Only trouble with the cache can *)
(* delay it, by the one attempt that was going on at the deadline.         *)
AnswersInTime ==
  \A p \in Probes :
    \/ elapsed[p] <= Deadline
    \/ /\ "redis" \in configured \intersect troubled[p]
       /\ elapsed[p] < Deadline + AttemptLimit

(* No PING goroutine is left behind for ever.                              *)
NoPingLeaks == \A p \in Probes : background[p] = "running" ~> background[p] = "none"
=============================================================================
