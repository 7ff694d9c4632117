---------------------------- MODULE RateLimiter ----------------------------
(***************************************************************************)
(* IPRateLimiter: a map from client address to token bucket that is filled *)
(* lazily, and a goroutine that drops the entries of clients that have not *)
(* been seen for three minutes.  Time is counted in ticks, Sub of them per *)
(* token; a minute is the time in which an empty bucket fills up.          *)
(***************************************************************************)
EXTENDS Naturals, FiniteSets

CONSTANTS
  Ips,      \* client addresses
  Burst,    \* requestsPerMinute
  Sub,      \* ticks in which one token is refilled
  Late,     \* bound: ticks the cleanup goroutine may lag behind its ticker
  MaxTime   \* bound: ticks of a behaviour

ASSUME ConstantsAssumption ==
  /\ Burst \in Nat \ {0}
  /\ Sub \in Nat \ {0}
  /\ Late \in Nat
  /\ MaxTime \in Nat

Capacity == Burst * Sub
Minute == Capacity
EvictAfter == 3 * Minute
SweepEvery == Minute

VARIABLES
  now,
  visitors,  \* the addresses in the map
  bucket,    \* tokens (in 1/Sub) and time of the last grant, per address
  lastSeen,  \* time of the last request, per address
  loop,      \* cleanupLoop: "idle", "sweeping" (cutoff taken), "done"
  cutoff,    \* the cutoff a sweep was started with
  ticked,    \* the ticker's channel holds a tick
  tickedAt,  \* when it fired last
  stop,      \* Stop: "none", "waiting" for done, "returned"
  answer     \* the outcome of the last request, per address

sweepVars == <<loop, cutoff, ticked, tickedAt, stop>>
vars == <<now, visitors, bucket, lastSeen, sweepVars, answer>>

NoBucket == [tokens |-> 0, last |-> 0]

Init ==
  /\ now = 0
  /\ visitors = {}
  /\ bucket = [ip \in Ips |-> NoBucket]
  /\ lastSeen = [ip \in Ips |-> 0]
  /\ loop = "idle" /\ cutoff = 0 /\ ticked = FALSE /\ tickedAt = 0
  /\ stop = "none"
  /\ answer = [ip \in Ips |-> "none"]

-----------------------------------------------------------------------------
(* Decisions, each after a plausible mistake in it (Bug...) that nothing   *)
(* uses: it is swapped in to see that the properties notice.               *)

BugFilled(tokens, elapsed) == tokens + elapsed

(* rate.Limiter's advance: refilled since the last grant, up to the burst. *)
Filled(tokens, elapsed) ==
  IF tokens + elapsed < Capacity THEN tokens + elapsed ELSE Capacity

(* The tokens a request finds; a new visitor starts with a full bucket.    *)
Available(ip) ==
  IF ip \in visitors
    THEN Filled(bucket[ip].tokens, now - bucket[ip].last)
    ELSE Capacity

BugNeverExpired(ip) == FALSE

(* cleanup: v.lastSeen.Before(cutoff).                                     *)
Expired(ip) == ip \in visitors /\ lastSeen[ip] < cutoff

BugCutoff == now

(* time.Now().Add(-3 * time.Minute); what is before the start counts as 0. *)
Cutoff == IF now > EvictAfter THEN now - EvictAfter ELSE 0

-----------------------------------------------------------------------------
(* allow, under the lock: create the visitor, note the time, ask the       *)
(* bucket.  A rejected request leaves the bucket as it is.                 *)
Allow(ip) ==
  /\ visitors' = visitors \union {ip}
  /\ lastSeen' = [lastSeen EXCEPT ![ip] = now]
  /\ IF Available(ip) >= Sub
       THEN /\ bucket' = [bucket EXCEPT ![ip] =
                            [tokens |-> Available(ip) - Sub, last |-> now]]
            /\ answer' = [answer EXCEPT ![ip] = "pass"]
       ELSE /\ answer' = [answer EXCEPT ![ip] = "reject"]
            /\ UNCHANGED bucket
  /\ UNCHANGED <<now, sweepVars>>

(* Time passes, but the cleanup goroutine does not lag more than Late      *)
(* ticks behind its ticker, which drops a tick that is not taken.          *)
Tick ==
  /\ now < MaxTime
  /\ loop # "done" /\ (ticked \/ loop = "sweeping") => now < tickedAt + Late
  /\ now' = now + 1
  /\ IF now' % SweepEvery = 0
       THEN ticked' = TRUE /\ tickedAt' = now'
       ELSE UNCHANGED <<ticked, tickedAt>>
  /\ UNCHANGED <<visitors, bucket, lastSeen, loop, cutoff, stop, answer>>

(* cleanupLoop takes a tick and computes the cutoff; requests may come in  *)
(* before cleanup has the lock.                                            *)
TakeTick ==
  /\ loop = "idle" /\ ticked
  /\ loop' = "sweeping"
  /\ cutoff' = Cutoff
  /\ ticked' = FALSE
  /\ UNCHANGED <<now, visitors, bucket, lastSeen, tickedAt, stop, answer>>

(* cleanup, under the lock.                                                *)
Cleanup ==
  /\ loop = "sweeping"
  /\ visitors' = {ip \in visitors : ~Expired(ip)}
  /\ bucket' = [ip \in Ips |-> IF Expired(ip) THEN NoBucket ELSE bucket[ip]]
  /\ lastSeen' = [ip \in Ips |-> IF Expired(ip) THEN 0 ELSE lastSeen[ip]]
  /\ loop' = "idle"
  /\ UNCHANGED <<now, cutoff, ticked, tickedAt, stop, answer>>

(* Stop closes the channel once and waits for cleanupLoop to be done.      *)
Stop ==
  /\ stop = "none"
  /\ stop' = "waiting"
  /\ UNCHANGED <<now, visitors, bucket, lastSeen, loop, cutoff, ticked, tickedAt, answer>>

BugLoopEnds ==
  /\ loop = "idle" /\ ticked /\ stop # "none"
  /\ loop' = "done"
  /\ UNCHANGED <<now, visitors, bucket, lastSeen, cutoff, ticked, tickedAt, stop, answer>>

LoopEnds ==
  /\ loop = "idle" /\ stop # "none"
  /\ loop' = "done"
  /\ UNCHANGED <<now, visitors, bucket, lastSeen, cutoff, ticked, tickedAt, stop, answer>>

StopReturns ==
  /\ stop = "waiting" /\ loop = "done"
  /\ stop' = "returned"
  /\ UNCHANGED <<now, visitors, bucket, lastSeen, loop, cutoff, ticked, tickedAt, answer>>

-----------------------------------------------------------------------------
Next ==
  \/ \E ip \in Ips : Allow(ip)
  \/ Tick \/ TakeTick \/ Cleanup
  \/ Stop \/ LoopEnds \/ StopReturns

Spec == Init /\ [][Next]_vars

(* The goroutines are scheduled; whether time passes or requests come is   *)
(* not assumed.                                                            *)
Fairness == WF_vars(TakeTick \/ LoopEnds) /\ WF_vars(Cleanup) /\ WF_vars(StopReturns)

FairSpec == Spec /\ Fairness
-----------------------------------------------------------------------------
(* Properties.                                                             *)

(* Types of the variables.                                                 *)
TypeOK ==
  /\ now \in 0..MaxTime
  /\ visitors \subseteq Ips
  /\ bucket \in [Ips -> [tokens : 0..Capacity, last : 0..MaxTime]]
  /\ lastSeen \in [Ips -> 0..MaxTime]
  /\ loop \in {"idle", "sweeping", "done"}
  /\ cutoff \in 0..MaxTime
  /\ ticked \in BOOLEAN /\ tickedAt \in 0..MaxTime
  /\ stop \in {"none", "waiting", "returned"}
  /\ answer \in [Ips -> {"none", "pass", "reject"}]

(* The map does not grow with the clients of the past: an entry outlives   *)
(* its last request by three minutes, one period of the ticker and the lag *)
(* of the goroutine, as long as cleanupLoop runs.                          *)
MapIsBounded ==
  loop # "done" =>
    \A ip \in visitors : now - lastSeen[ip] <= EvictAfter + SweepEvery + Late

(* Forgetting a client and starting it afresh cannot be told from keeping  *)
(* its bucket: the limiter behaves like one bucket per client for ever.    *)
Level == [ip \in Ips |-> Available(ip)]

Bucket == INSTANCE TokenBucket WITH Cost <- Sub, level <- Level

BucketSpec == Bucket!Spec

(* Stop, which Shutdown and Close call, does not hang.                     *)
StopIsAnswered == stop = "waiting" ~> stop = "returned"
=============================================================================
