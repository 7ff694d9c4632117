------------------------- MODULE RateLimiter_proofs -------------------------
(* That forgetting idle clients is invisible: RateLimiter implements       *)
(* TokenBucket, for any set of addresses, burst, resolution of time and    *)
(* lag of the cleanup goroutine; and that idle clients are forgotten, as   *)
(* long as the goroutine lags less than a period of its ticker; and that   *)
(* a request passes exactly when no window before it is full.              *)
EXTENDS RateLimiterHistory, Integers, TLAPS

(* The sizes the proofs use; the products behind them stay folded.         *)
LEMMA Sizes ==
  /\ Capacity \in Nat /\ Sub \in Nat /\ 0 < Sub /\ Sub <= Capacity
  /\ SweepEvery \in Nat /\ 0 < SweepEvery
  /\ EvictAfter \in Nat /\ Capacity <= EvictAfter
<1>1. Burst \in Nat /\ 1 <= Burst /\ Sub \in Nat /\ 1 <= Sub
  BY ConstantsAssumption
<1>2. Capacity \in Nat /\ Sub <= Capacity
  BY <1>1, SMTT(30) DEF Capacity
<1> QED
  BY <1>1, <1>2 DEF SweepEvery, EvictAfter, Minute

(* What a sweep relies on: an entry was seen no earlier than its last      *)
(* grant, a new entry is written by a grant, and a cutoff in use is three  *)
(* minutes old.                                                            *)
SeenInv ==
  \A ip \in visitors : bucket[ip].last <= lastSeen[ip] /\ lastSeen[ip] <= now

CutoffInv == loop = "sweeping" => cutoff = 0 \/ cutoff + EvictAfter <= now

TickInv == tickedAt <= now

IInv == TypeOK /\ SeenInv /\ CutoffInv /\ TickInv

LEMMA InitIInv == Init => IInv
<1> SUFFICES ASSUME Init PROVE IInv
  OBVIOUS
<1> USE Sizes, ConstantsAssumption
<1>1. TypeOK
  <2>1. NoBucket \in [tokens : 0..Capacity, last : 0..MaxTime]
    BY DEF NoBucket
  <2>2. 0 \in 0..MaxTime
    OBVIOUS
  <2>3. bucket \in [Ips -> [tokens : 0..Capacity, last : 0..MaxTime]]
    BY <2>1 DEF Init
  <2> QED
    BY <2>2, <2>3 DEF Init, TypeOK
<1>2. SeenInv
  BY DEF Init, SeenInv
<1>3. CutoffInv /\ TickInv
  BY DEF Init, CutoffInv, TickInv
<1> QED
  BY <1>1, <1>2, <1>3 DEF IInv

(* What a request finds is a number of tokens up to the capacity.          *)
LEMMA AvailableType ==
  ASSUME IInv, NEW ip \in Ips
  PROVE  Available(ip) \in 0..Capacity
<1>1. CASE ip \notin visitors
  BY <1>1, Sizes DEF Available
<1>2. CASE ip \in visitors
  <2>1. /\ bucket[ip].tokens \in 0..Capacity /\ bucket[ip].last \in Nat
        /\ bucket[ip].last <= now /\ now \in Nat
    BY <1>2, ConstantsAssumption DEF IInv, TypeOK, SeenInv
  <2> QED
    BY <1>2, <2>1, Sizes DEF Available, Filled
<1> QED
  BY <1>1, <1>2

(* A request leaves its bucket as the abstract one does, and no other.     *)
LEMMA AllowLevel ==
  ASSUME IInv, NEW ip \in Ips, Allow(ip)
  PROVE  /\ Available(ip) >= Sub =>
              /\ Level' = [Level EXCEPT ![ip] = @ - Sub]
              /\ answer' = [answer EXCEPT ![ip] = "pass"]
         /\ ~(Available(ip) >= Sub) =>
              /\ UNCHANGED Level
              /\ answer' = [answer EXCEPT ![ip] = "reject"]
<1> USE Sizes, ConstantsAssumption
<1>0. now \in Nat /\ now' = now /\ visitors' = visitors \union {ip}
  BY DEF Allow, IInv, TypeOK
<1>1. \A u \in Ips : u # ip => Available(u)' = Available(u)
  <2> TAKE u \in Ips
  <2> HAVE u # ip
  <2>1. bucket'[u] = bucket[u]
    BY DEF Allow, IInv, TypeOK
  <2>2. u \in visitors' <=> u \in visitors
    BY <1>0
  <2> QED
    BY <2>1, <2>2, <1>0 DEF Available, Filled
<1>2. Available(ip) \in 0..Capacity
  BY AvailableType
<1>3. CASE Available(ip) >= Sub
  <2>1. bucket'[ip] = [tokens |-> Available(ip) - Sub, last |-> now]
    BY <1>3 DEF Allow, IInv, TypeOK
  <2>2. Available(ip)' = Filled(bucket'[ip].tokens, now - bucket'[ip].last)
    BY <1>0 DEF Available, Filled
  <2>3. Available(ip)' = Available(ip) - Sub
    BY <2>1, <2>2, <1>0, <1>2 DEF Filled
  <2>4. \A u \in Ips : Level'[u] = IF u = ip THEN Level[u] - Sub ELSE Level[u]
    BY <1>1, <2>3 DEF Level
  <2>5. Level' = [Level EXCEPT ![ip] = @ - Sub]
    BY <2>4 DEF Level
  <2> QED
    BY <2>5, <1>3 DEF Allow
<1>4. CASE ~(Available(ip) >= Sub)
  <2>1. ip \in visitors /\ bucket'[ip] = bucket[ip]
    BY <1>4 DEF Available, Allow
  <2>2. Available(ip)' = Available(ip)
    BY <2>1, <1>0 DEF Available, Filled
  <2>3. UNCHANGED Level
    BY <1>1, <2>2 DEF Level
  <2> QED
    BY <2>3, <1>4 DEF Allow
<1> QED
  BY <1>3, <1>4

(* An entry that cleanup drops has a full bucket.                          *)
LEMMA ExpiredIsFull ==
  ASSUME IInv, loop = "sweeping", NEW ip \in Ips, Expired(ip)
  PROVE  Available(ip) = Capacity
<1>1. /\ bucket[ip].tokens \in Nat /\ bucket[ip].last \in Nat
      /\ lastSeen[ip] \in Nat /\ cutoff \in Nat /\ now \in Nat
  BY ConstantsAssumption, Sizes DEF IInv, TypeOK
<1>2. ip \in visitors /\ bucket[ip].last <= lastSeen[ip] /\ lastSeen[ip] < cutoff
  BY DEF IInv, SeenInv, Expired
<1>3. cutoff + EvictAfter <= now
  BY <1>1, <1>2 DEF IInv, CutoffInv
<1>4. Capacity <= now - bucket[ip].last
  BY <1>1, <1>2, <1>3, Sizes
<1> QED
  BY <1>1, <1>2, <1>4, Sizes DEF Available, Filled

(* So a sweep changes no level.                                            *)
LEMMA CleanupLevel ==
  ASSUME IInv, Cleanup
  PROVE  UNCHANGED Level
<1>1. \A ip \in Ips : Available(ip)' = Available(ip)
  <2> TAKE ip \in Ips
  <2>1. CASE Expired(ip)
    <3>1. ip \notin visitors' /\ Available(ip) = Capacity
      BY <2>1, ExpiredIsFull DEF Cleanup
    <3> QED
      BY <3>1 DEF Available, Capacity
  <2>2. CASE ~Expired(ip)
    BY <2>2 DEF Cleanup, Available, Filled, Capacity
  <2> QED
    BY <2>1, <2>2
<1> QED
  BY <1>1 DEF Level

(* A tick fills every bucket by one unit.                                  *)
LEMMA TickLevel ==
  ASSUME IInv, Tick
  PROVE  Level' = [ip \in Ips |-> IF Level[ip] < Capacity THEN Level[ip] + 1 ELSE Capacity]
<1>1. \A ip \in Ips :
        Available(ip)' = IF Available(ip) < Capacity THEN Available(ip) + 1 ELSE Capacity
  <2> TAKE ip \in Ips
  <2>1. CASE ip \notin visitors
    BY <2>1, Sizes DEF Tick, Available, Capacity
  <2>2. CASE ip \in visitors
    <3>1. /\ bucket[ip].tokens \in 0..Capacity /\ bucket[ip].last \in Nat
          /\ bucket[ip].last <= now /\ now \in Nat
      BY <2>2, ConstantsAssumption DEF IInv, TypeOK, SeenInv
    <3>2. now' = now + 1 /\ visitors' = visitors /\ bucket' = bucket
      BY DEF Tick
    <3> QED
      BY <2>2, <3>1, <3>2, Sizes DEF Available, Filled
  <2> QED
    BY <2>1, <2>2
<1> QED
  BY <1>1 DEF Level

LEMMA NextIInv == IInv /\ [Next]_vars => IInv'
<1> SUFFICES ASSUME IInv, [Next]_vars PROVE IInv'
  OBVIOUS
<1> USE Sizes, ConstantsAssumption
<1>1. ASSUME NEW ip \in Ips, Allow(ip) PROVE IInv'
  <2>1. Available(ip) \in 0..Capacity
    BY AvailableType
  <2>2. bucket' \in [Ips -> [tokens : 0..Capacity, last : 0..MaxTime]]
    <3>1. CASE Available(ip) >= Sub
      <4>1. [tokens |-> Available(ip) - Sub, last |-> now]
              \in [tokens : 0..Capacity, last : 0..MaxTime]
        BY <2>1, <3>1 DEF IInv, TypeOK
      <4> QED
        BY <1>1, <3>1, <4>1 DEF Allow, IInv, TypeOK
    <3>2. CASE ~(Available(ip) >= Sub)
      BY <1>1, <3>2 DEF Allow, IInv, TypeOK
    <3> QED
      BY <3>1, <3>2
  <2>3. TypeOK'
    BY <1>1, <2>2 DEF Allow, IInv, TypeOK, sweepVars
  <2>4. SeenInv'
    <3> SUFFICES ASSUME NEW u \in visitors'
                 PROVE  bucket'[u].last <= lastSeen'[u] /\ lastSeen'[u] <= now'
      BY DEF SeenInv
    <3>1. u \in Ips /\ now' = now /\ now \in Nat
      BY <2>3, <1>1 DEF TypeOK, Allow, IInv
    <3>2. CASE u # ip
      <4>1. u \in visitors /\ bucket'[u] = bucket[u] /\ lastSeen'[u] = lastSeen[u]
        BY <1>1, <3>1, <3>2 DEF Allow, IInv, TypeOK
      <4> QED
        BY <4>1, <3>1 DEF IInv, SeenInv
    <3>3. CASE u = ip
      <4>1. lastSeen'[u] = now
        BY <1>1, <3>1, <3>3 DEF Allow, IInv, TypeOK
      <4>2. CASE Available(ip) >= Sub
        <5>1. bucket'[u] = [tokens |-> Available(ip) - Sub, last |-> now]
          BY <1>1, <3>1, <3>3, <4>2 DEF Allow, IInv, TypeOK
        <5> QED
          BY <5>1, <4>1, <3>1
      <4>3. CASE ~(Available(ip) >= Sub)
        <5>1. u \in visitors /\ bucket'[u] = bucket[u]
          BY <1>1, <3>3, <4>3 DEF Allow, Available
        <5>2. bucket[u].last <= lastSeen[u] /\ lastSeen[u] <= now
          BY <5>1 DEF IInv, SeenInv
        <5>3. bucket[u].last \in Nat /\ lastSeen[u] \in Nat
          BY <3>1 DEF IInv, TypeOK
        <5> QED
          BY <5>1, <5>2, <5>3, <4>1, <3>1
      <4> QED
        BY <4>2, <4>3
    <3> QED
      BY <3>2, <3>3
  <2> QED
    BY <1>1, <2>3, <2>4 DEF IInv, CutoffInv, TickInv, Allow, sweepVars
<1>2. CASE Tick
  <2>0. now' \in 0..MaxTime /\ tickedAt' \in 0..MaxTime /\ ticked' \in BOOLEAN
    <3>1. CASE now' % SweepEvery = 0
      BY <1>2, <3>1 DEF Tick, IInv, TypeOK
    <3>2. CASE ~(now' % SweepEvery = 0)
      BY <1>2, <3>2 DEF Tick, IInv, TypeOK
    <3> QED
      BY <3>1, <3>2
  <2>1. TypeOK'
    BY <1>2, <2>0 DEF Tick, IInv, TypeOK
  <2>2. SeenInv'
    <3> SUFFICES ASSUME NEW u \in visitors
                 PROVE  bucket[u].last <= lastSeen[u] /\ lastSeen[u] <= now + 1
      BY <1>2 DEF SeenInv, Tick
    <3>1. u \in Ips /\ lastSeen[u] \in Nat /\ now \in Nat
      BY DEF IInv, TypeOK
    <3> QED
      BY <3>1 DEF IInv, SeenInv
  <2>3. CutoffInv' /\ TickInv'
    BY <1>2 DEF Tick, IInv, TypeOK, CutoffInv, TickInv
  <2> QED
    BY <2>1, <2>2, <2>3 DEF IInv
<1>3. CASE TakeTick
  <2>1. Cutoff \in 0..MaxTime /\ (Cutoff = 0 \/ Cutoff + EvictAfter <= now)
    BY DEF Cutoff, IInv, TypeOK
  <2>2. TypeOK'
    BY <1>3, <2>1 DEF TakeTick, IInv, TypeOK
  <2>3. SeenInv' /\ TickInv'
    BY <1>3 DEF TakeTick, IInv, SeenInv, TickInv
  <2>4. CutoffInv'
    BY <1>3, <2>1 DEF TakeTick, CutoffInv
  <2> QED
    BY <2>2, <2>3, <2>4 DEF IInv
<1>4. CASE Cleanup
  <2>1. NoBucket \in [tokens : 0..Capacity, last : 0..MaxTime]
    BY DEF NoBucket
  <2>2. TypeOK'
    BY <1>4, <2>1 DEF Cleanup, IInv, TypeOK
  <2>3. SeenInv'
    BY <1>4 DEF Cleanup, IInv, TypeOK, SeenInv
  <2> QED
    BY <1>4, <2>2, <2>3 DEF Cleanup, IInv, CutoffInv, TickInv
<1>5. CASE Stop
  BY <1>5 DEF Stop, IInv, TypeOK, SeenInv, CutoffInv, TickInv
<1>6. CASE LoopEnds
  BY <1>6 DEF LoopEnds, IInv, TypeOK, SeenInv, CutoffInv, TickInv
<1>7. CASE StopReturns
  BY <1>7 DEF StopReturns, IInv, TypeOK, SeenInv, CutoffInv, TickInv
<1>8. CASE UNCHANGED vars
  BY <1>8 DEF vars, sweepVars, IInv, TypeOK, SeenInv, CutoffInv, TickInv
<1> QED
  BY <1>1, <1>2, <1>3, <1>4, <1>5, <1>6, <1>7, <1>8 DEF Next

(* The inductive invariant holds in every reachable state.                 *)
THEOREM Invariance == Spec => []IInv
<1> QED
  BY InitIInv, NextIInv, PTL DEF Spec

(* Every reachable state is well typed: no bucket holds more than its      *)
(* capacity (allow, cleanup).                                              *)
THEOREM TypeCorrect == Spec => []TypeOK
<1>1. IInv => TypeOK
  BY DEF IInv
<1> QED
  BY Invariance, <1>1, PTL

(* Every step of the limiter is a step of the everlasting buckets.         *)
LEMMA RefinementStep == IInv /\ [Next]_vars => [Bucket!Next]_(Bucket!vars)
<1> SUFFICES ASSUME IInv, [Next]_vars PROVE [Bucket!Next]_(Bucket!vars)
  OBVIOUS
<1>1. ASSUME NEW ip \in Ips, Allow(ip) PROVE Bucket!Next
  <2>1. Level[ip] = Available(ip) /\ now' = now
    BY <1>1 DEF Level, Allow
  <2>2. Bucket!Request(ip)
    BY <1>1, <2>1, AllowLevel DEF Bucket!Request
  <2> QED
    BY <2>2 DEF Bucket!Next
<1>2. CASE Tick
  <2>1. Bucket!Tick
    BY <1>2, TickLevel DEF Tick, Bucket!Tick
  <2> QED
    BY <2>1 DEF Bucket!Next
<1>3. CASE Cleanup
  BY <1>3, CleanupLevel DEF Cleanup, Bucket!vars
<1>4. CASE TakeTick \/ Stop \/ LoopEnds \/ StopReturns \/ UNCHANGED vars
  <2>1. now' = now /\ visitors' = visitors /\ bucket' = bucket /\ answer' = answer
    BY <1>4 DEF TakeTick, Stop, LoopEnds, StopReturns, vars
  <2> QED
    BY <2>1 DEF Bucket!vars, Level, Available, Filled
<1> QED
  BY <1>1, <1>2, <1>3, <1>4 DEF Next

(* The limiter with its lazily filled map and its cleanup goroutine        *)
(* implements one everlasting bucket per address.                          *)
THEOREM Refinement == Spec => BucketSpec
<1>1. Init => Bucket!Init
  BY DEF Init, Bucket!Init, Level, Available
<1> QED
  BY <1>1, RefinementStep, Invariance, PTL DEF Spec, BucketSpec, Bucket!Spec

-----------------------------------------------------------------------------
(* That the map is bounded.  A sweep is under way or due:                  *)
Pending == ticked \/ loop = "sweeping"

(* The ticker has fired at the last multiple of its period ...             *)
GridInv ==
  /\ \E k \in Nat : tickedAt = SweepEvery * k
  /\ now < tickedAt + SweepEvery

(* ... and what the sweeps so far have left was seen within three minutes  *)
(* of that, or of the tick before when the sweep is still to come.         *)
SweptInv ==
  loop # "done" =>
    /\ Pending => now <= tickedAt + Late
    /\ loop = "sweeping" => ~ticked /\ tickedAt <= cutoff + EvictAfter
    /\ \A ip \in visitors :
         tickedAt <= lastSeen[ip] + EvictAfter + (IF Pending THEN SweepEvery ELSE 0)

(* Multiples of s.                                                         *)
LEMMA NoMultipleBetween ==
  ASSUME NEW s \in Int, 0 < s, NEW k \in Int, NEW j \in Int, 0 < j, j < s
  PROVE  (s * k + j) % s # 0
  BY SMTT(20)

LEMMA NextMultiple ==
  ASSUME NEW s \in Int, 0 < s, NEW k \in Int
  PROVE  s * k + s = s * (k + 1) /\ (s * (k + 1)) % s = 0
  BY SMTT(20)

(* The ticker fires exactly one period after it fired last.                *)
LEMMA TickGrid ==
  ASSUME IInv, GridInv, Tick
  PROVE  /\ GridInv'
         /\ now' % SweepEvery = 0 <=> now' = tickedAt + SweepEvery
<1> USE Sizes
<1>1. now \in Nat /\ now' = now + 1 /\ tickedAt \in Nat /\ tickedAt <= now
  BY ConstantsAssumption DEF IInv, TypeOK, Tick, TickInv
<1>2. PICK k \in Nat : tickedAt = SweepEvery * k
  BY DEF GridInv
<1>3. CASE now + 1 = tickedAt + SweepEvery
  <2>1. now + 1 = SweepEvery * (k + 1) /\ (now + 1) % SweepEvery = 0
    BY <1>2, <1>3, NextMultiple
  <2>2. tickedAt' = now + 1
    BY <1>1, <2>1 DEF Tick
  <2> QED
    BY <1>1, <1>3, <2>1, <2>2 DEF GridInv
<1>4. CASE now + 1 # tickedAt + SweepEvery
  <2> DEFINE j == now + 1 - tickedAt
  <2>1. 0 < j /\ j < SweepEvery /\ j \in Int
    BY <1>1, <1>4 DEF GridInv
  <2>2. now + 1 = SweepEvery * k + j
    BY <1>1, <1>2
  <2>3. (now + 1) % SweepEvery # 0
    BY <2>1, <2>2, NoMultipleBetween
  <2>4. tickedAt' = tickedAt
    BY <1>1, <2>3 DEF Tick
  <2> QED
    BY <1>1, <1>2, <1>4, <2>1, <2>3, <2>4 DEF GridInv
<1> QED
  BY <1>3, <1>4

LEMMA SweptStep ==
  ASSUME Late < SweepEvery, IInv, GridInv, SweptInv, [Next]_vars
  PROVE  GridInv' /\ SweptInv'
<1> USE Sizes
<1>1. /\ now \in Nat /\ tickedAt \in Nat /\ cutoff \in Nat /\ Late \in Nat
      /\ visitors \subseteq Ips /\ \A ip \in Ips : lastSeen[ip] \in Nat
  BY ConstantsAssumption DEF IInv, TypeOK
<1>2. ASSUME NEW ip \in Ips, Allow(ip) PROVE GridInv' /\ SweptInv'
  <2>1. UNCHANGED <<now, loop, cutoff, ticked, tickedAt>>
    BY <1>2 DEF Allow, sweepVars
  <2>2. GridInv'
    BY <2>1 DEF GridInv
  <2>3. ASSUME NEW u \in visitors', loop # "done"
        PROVE  tickedAt <= lastSeen'[u] + EvictAfter + (IF Pending THEN SweepEvery ELSE 0)
    <3>1. CASE u = ip
      <4>1. lastSeen'[u] = now
        BY <1>2, <3>1 DEF Allow, IInv, TypeOK
      <4> QED
        BY <4>1, <1>1 DEF IInv, TickInv
    <3>2. CASE u # ip
      <4>1. u \in visitors /\ lastSeen'[u] = lastSeen[u]
        BY <1>2, <2>3, <3>2, <1>1 DEF Allow, IInv, TypeOK
      <4> QED
        BY <4>1, <2>3 DEF SweptInv
    <3> QED
      BY <3>1, <3>2
  <2> QED
    BY <2>1, <2>2, <2>3 DEF SweptInv, Pending
<1>3. CASE Tick
  <2>0. /\ now' = now + 1 /\ UNCHANGED <<visitors, lastSeen, loop, cutoff>>
        /\ loop # "done" /\ Pending => now < tickedAt + Late
    BY <1>3 DEF Tick, Pending
  <2>1. CASE now' = tickedAt + SweepEvery
    <3>1. tickedAt' = tickedAt + SweepEvery /\ ticked'
      BY <1>3, <2>1, TickGrid DEF Tick
    <3>2. loop # "done" => ~Pending
      BY <2>0, <2>1, <1>1
    <3>3. ASSUME loop # "done", NEW u \in visitors
          PROVE  tickedAt + SweepEvery <= lastSeen[u] + EvictAfter + SweepEvery
      BY <3>2, <3>3, <1>1 DEF SweptInv
    <3> QED
      BY <1>3, <2>0, <2>1, <3>1, <3>2, <3>3, <1>1, TickGrid DEF SweptInv, Pending
  <2>2. CASE now' # tickedAt + SweepEvery
    <3>1. tickedAt' = tickedAt /\ ticked' = ticked
      BY <1>3, <2>2, TickGrid DEF Tick
    <3> QED
      BY <1>3, <2>0, <3>1, <1>1, TickGrid DEF SweptInv, Pending
  <2> QED
    BY <2>1, <2>2
<1>4. CASE TakeTick
  <2>1. /\ UNCHANGED <<now, visitors, lastSeen, tickedAt>>
        /\ loop = "idle" /\ ticked /\ loop' = "sweeping" /\ ~ticked' /\ cutoff' = Cutoff
    BY <1>4 DEF TakeTick
  <2>2. tickedAt <= Cutoff + EvictAfter
    BY <1>1 DEF Cutoff, IInv, TickInv
  <2>3. GridInv'
    BY <2>1 DEF GridInv
  <2> QED
    BY <2>1, <2>2, <2>3 DEF SweptInv, Pending
<1>5. CASE Cleanup
  <2>1. /\ UNCHANGED <<now, cutoff, ticked, tickedAt>> /\ loop = "sweeping" /\ loop' = "idle"
        /\ visitors' = {ip \in visitors : ~Expired(ip)}
    BY <1>5 DEF Cleanup
  <2>2. ~ticked /\ tickedAt <= cutoff + EvictAfter
    BY <2>1 DEF SweptInv
  <2>3. ASSUME NEW u \in visitors'
        PROVE  tickedAt <= lastSeen'[u] + EvictAfter /\ lastSeen'[u] \in Nat
    <3>1. u \in visitors /\ u \in Ips /\ ~Expired(u)
      BY <2>1, <1>1
    <3>2. lastSeen'[u] = lastSeen[u]
      BY <1>5, <3>1 DEF Cleanup
    <3>3. cutoff <= lastSeen[u]
      BY <3>1, <1>1 DEF Expired
    <3> QED
      BY <2>2, <3>1, <3>2, <3>3, <1>1
  <2>4. GridInv'
    BY <2>1 DEF GridInv
  <2> QED
    BY <2>1, <2>2, <2>3, <2>4, <1>1 DEF SweptInv, Pending
<1>6. CASE Stop \/ StopReturns \/ UNCHANGED vars
  <2>1. UNCHANGED <<now, visitors, lastSeen, loop, cutoff, ticked, tickedAt>>
    BY <1>6 DEF Stop, StopReturns, vars, sweepVars
  <2> QED
    BY <2>1 DEF GridInv, SweptInv, Pending
<1>7. CASE LoopEnds
  BY <1>7 DEF LoopEnds, GridInv, SweptInv
<1> QED
  BY <1>2, <1>3, <1>4, <1>5, <1>6, <1>7 DEF Next

(* The map does not grow with the clients of the past, provided that the   *)
(* cleanup goroutine lags less than a period of its ticker: the ticker     *)
(* drops the ticks of one that lags longer (cleanupLoop, cleanup).         *)
THEOREM MapCorrect ==
  ASSUME Late < SweepEvery
  PROVE  Spec => []MapIsBounded
<1>1. Init => GridInv /\ SweptInv
  <2> SUFFICES ASSUME Init PROVE GridInv /\ SweptInv
    OBVIOUS
  <2>1. tickedAt = SweepEvery * 0
    BY Sizes DEF Init
  <2> QED
    BY <2>1, Sizes DEF Init, GridInv, SweptInv, Pending
<1>2. IInv /\ GridInv /\ SweptInv /\ [Next]_vars => GridInv' /\ SweptInv'
  BY SweptStep
<1>3. IInv /\ GridInv /\ SweptInv => MapIsBounded
  <2> SUFFICES ASSUME IInv, GridInv, SweptInv, loop # "done", NEW ip \in visitors
               PROVE  now - lastSeen[ip] <= EvictAfter + SweepEvery + Late
    BY DEF MapIsBounded
  <2>1. /\ now \in Nat /\ tickedAt \in Nat /\ Late \in Nat /\ lastSeen[ip] \in Nat
    BY ConstantsAssumption DEF IInv, TypeOK
  <2>2. CASE Pending
    BY <2>1, <2>2, Sizes DEF SweptInv
  <2>3. CASE ~Pending
    BY <2>1, <2>3, Sizes DEF SweptInv, GridInv
  <2> QED
    BY <2>2, <2>3
<1> QED
  BY <1>1, <1>2, <1>3, Invariance, PTL DEF Spec

-----------------------------------------------------------------------------
(* That the answers are exact.  For every window that ends now, what was   *)
(* granted in it and what is left fit into the burst and the refill of its *)
(* length, and for one of them they fill it.                               *)
WindowInv ==
  /\ grants \in [Ips -> [0..MaxTime -> Nat]]
  /\ \A ip \in Ips :
       /\ \A s \in 0..MaxTime : s > now => grants[ip][s] = 0
       /\ \A s \in 0..now : grants[ip][s] * Sub + Level[ip] <= Capacity + (now - s)
       /\ \E s \in 0..now : grants[ip][s] * Sub + Level[ip] = Capacity + (now - s)

LEMMA Products ==
  ASSUME NEW g \in Nat
  PROVE  g * Sub \in Nat /\ (g + 1) * Sub = g * Sub + Sub /\ 0 * Sub = 0
<1>1. Sub \in Nat
  BY Sizes
<1> QED
  BY <1>1, SMTT(20)

LEMMA LevelType ==
  ASSUME IInv, NEW ip \in Ips
  PROVE  Level[ip] = Available(ip) /\ Level[ip] \in 0..Capacity
BY AvailableType DEF Level

(* The answer follows from the level, and the level from the windows.      *)
LEMMA AnswerStep ==
  ASSUME IInv, WindowInv, NEW ip \in Ips, Allow(ip)
  PROVE  answer'[ip] = "pass" <=> Conforms(ip)
<1>1. /\ now \in Nat /\ now \in 0..MaxTime /\ Level[ip] \in Nat
      /\ Sub \in Nat /\ Capacity \in Nat /\ answer \in [Ips -> {"none", "pass", "reject"}]
  BY LevelType, Sizes, ConstantsAssumption DEF IInv, TypeOK
<1>2. answer'[ip] = "pass" <=> Level[ip] >= Sub
  BY <1>1, LevelType DEF Allow
<1>3. ASSUME NEW s \in 0..now
      PROVE  /\ grants[ip][s] \in Nat /\ grants[ip][s] * Sub \in Nat
             /\ (grants[ip][s] + 1) * Sub = grants[ip][s] * Sub + Sub
  <2>1. s \in 0..MaxTime
    BY <1>1, ConstantsAssumption
  <2>2. grants[ip][s] \in Nat
    BY <2>1 DEF WindowInv
  <2> QED
    BY <2>2, Products
<1>4. ASSUME Level[ip] >= Sub PROVE Conforms(ip)
  <2> SUFFICES ASSUME NEW s \in 0..now
               PROVE  (grants[ip][s] + 1) * Sub <= Capacity + (now - s)
    BY DEF Conforms
  <2> DEFINE used == grants[ip][s] * Sub
  <2>1. used + Level[ip] <= Capacity + (now - s) /\ used \in Nat
    BY <1>3 DEF WindowInv
  <2>2. (grants[ip][s] + 1) * Sub = used + Sub
    BY <1>3
  <2> HIDE DEF used
  <2> QED
    BY <1>1, <1>4, <2>1, <2>2
<1>5. ASSUME Conforms(ip) PROVE Level[ip] >= Sub
  <2>1. PICK s \in 0..now : grants[ip][s] * Sub + Level[ip] = Capacity + (now - s)
    BY DEF WindowInv
  <2> DEFINE used == grants[ip][s] * Sub
  <2>2. used + Sub <= Capacity + (now - s) /\ used \in Nat
    BY <1>3, <1>5 DEF Conforms
  <2>3. used + Level[ip] = Capacity + (now - s)
    BY <2>1
  <2> HIDE DEF used
  <2> QED
    BY <1>1, <2>2, <2>3
<1> QED
  BY <1>2, <1>4, <1>5

(* A grant takes one token, and one from every window that ends now.       *)
LEMMA GrantStep ==
  ASSUME IInv, WindowInv, NEW ip \in Ips, Granted(ip),
         grants' = [grants EXCEPT ![ip] =
                      [s \in 0..MaxTime |-> IF s <= now THEN @[s] + 1 ELSE @[s]]]
  PROVE  WindowInv'
<1>1. /\ now \in Nat /\ now \in 0..MaxTime /\ MaxTime \in Nat
      /\ Sub \in Nat /\ Capacity \in Nat /\ answer \in [Ips -> {"none", "pass", "reject"}]
      /\ grants \in [Ips -> [0..MaxTime -> Nat]]
  <2>1. now \in Nat /\ now \in 0..MaxTime /\ answer \in [Ips -> {"none", "pass", "reject"}]
    BY ConstantsAssumption DEF IInv, TypeOK
  <2>2. grants \in [Ips -> [0..MaxTime -> Nat]]
    BY DEF WindowInv
  <2> QED
    BY <2>1, <2>2, Sizes, ConstantsAssumption
<1>2. Available(ip) >= Sub /\ now' = now
  BY <1>1 DEF Granted, Allow
<1>3. Level' = [Level EXCEPT ![ip] = @ - Sub]
  BY <1>2, AllowLevel DEF Granted
<1>4. \A u \in Ips : Level[u] \in Nat /\ Level'[u] = IF u = ip THEN Level[u] - Sub ELSE Level[u]
  <2>1. \A u \in Ips : Level[u] \in Nat
    BY LevelType, Sizes
  <2> QED
    BY <1>3, <2>1 DEF Level
<1>5. /\ grants' \in [Ips -> [0..MaxTime -> Nat]]
      /\ \A u \in Ips, s \in 0..MaxTime :
           grants'[u][s] = IF u = ip /\ s <= now THEN grants[u][s] + 1 ELSE grants[u][s]
  BY <1>1
<1>6. ASSUME NEW u \in Ips, NEW s \in 0..now
      PROVE  /\ grants[u][s] * Sub \in Nat
             /\ grants'[u][s] * Sub + Level'[u] = grants[u][s] * Sub + Level[u]
  <2>1. s \in 0..MaxTime /\ s <= now
    BY <1>1
  <2>2. grants[u][s] \in Nat
    BY <1>1, <2>1
  <2>3. grants[u][s] * Sub \in Nat /\ (grants[u][s] + 1) * Sub = grants[u][s] * Sub + Sub
    BY <2>2, Products
  <2>4. grants'[u][s] * Sub = IF u = ip THEN grants[u][s] * Sub + Sub ELSE grants[u][s] * Sub
    BY <1>5, <2>1, <2>3
  <2> QED
    BY <1>1, <1>4, <2>3, <2>4
<1>7. \A u \in Ips, s \in 0..MaxTime : s > now' => grants'[u][s] = 0
  BY <1>1, <1>2, <1>5 DEF WindowInv
<1>8. \A u \in Ips, s \in 0..now' : grants'[u][s] * Sub + Level'[u] <= Capacity + (now' - s)
  BY <1>2, <1>6 DEF WindowInv
<1>9. ASSUME NEW u \in Ips
      PROVE  \E s \in 0..now' : grants'[u][s] * Sub + Level'[u] = Capacity + (now' - s)
  <2>1. PICK s \in 0..now : grants[u][s] * Sub + Level[u] = Capacity + (now - s)
    BY DEF WindowInv
  <2>2. grants'[u][s] * Sub + Level'[u] = grants[u][s] * Sub + Level[u]
    BY <1>6
  <2> QED
    BY <1>2, <2>1, <2>2
<1>10. grants' \in [Ips -> [0..MaxTime -> Nat]]
  BY <1>5
<1> QED
  BY <1>7, <1>8, <1>9, <1>10 DEF WindowInv, Capacity

(* A tick opens the empty window that begins with it; the others grow by   *)
(* one unit, as the level does until it is full.                           *)
LEMMA TickWindows ==
  ASSUME IInv, WindowInv, Tick, UNCHANGED grants
  PROVE  WindowInv'
<1>1. /\ now \in Nat /\ now < MaxTime /\ MaxTime \in Nat /\ now' = now + 1
      /\ Capacity \in Nat /\ grants \in [Ips -> [0..MaxTime -> Nat]]
  BY Sizes, ConstantsAssumption DEF IInv, TypeOK, WindowInv, Tick
<1>2. ASSUME NEW u \in Ips
      PROVE  /\ Level[u] \in 0..Capacity
             /\ Level'[u] = IF Level[u] < Capacity THEN Level[u] + 1 ELSE Capacity
  BY TickLevel, LevelType
<1>3. ASSUME NEW u \in Ips, NEW s \in 0..now
      PROVE  grants[u][s] * Sub \in Nat
  <2>1. grants[u][s] \in Nat
    BY <1>1
  <2> QED
    BY <2>1, Products
<1>4. ASSUME NEW u \in Ips
      PROVE  grants[u][now + 1] * Sub = 0
  <2>1. grants[u][now + 1] = 0
    BY <1>1 DEF WindowInv
  <2> QED
    BY <2>1, Products
<1>5. ASSUME NEW u \in Ips, NEW s \in 0..(now + 1)
      PROVE  grants[u][s] * Sub + Level'[u] <= Capacity + (now + 1 - s)
  <2>1. CASE s = now + 1
    BY <1>1, <1>2, <1>4, <2>1
  <2>2. CASE s # now + 1
    <3>1. s \in 0..now
      BY <1>1, <2>2
    <3> DEFINE used == grants[u][s] * Sub
    <3>2. used + Level[u] <= Capacity + (now - s) /\ used \in Nat
      BY <1>3, <3>1 DEF WindowInv
    <3> DEFINE l == Level[u]
               m == Level'[u]
    <3>3. /\ l \in Nat /\ m = IF l < Capacity THEN l + 1 ELSE Capacity
          /\ l <= Capacity /\ used + l <= Capacity + (now - s)
      BY <1>1, <1>2, <3>2
    <3> HIDE DEF used, l, m
    <3>4. used + m <= Capacity + (now + 1 - s)
      BY <1>1, <3>1, <3>2, <3>3
    <3> QED
      BY <3>4 DEF used, m
  <2> QED
    BY <2>1, <2>2
<1>6. ASSUME NEW u \in Ips
      PROVE  \E s \in 0..(now + 1) : grants[u][s] * Sub + Level'[u] = Capacity + (now + 1 - s)
  <2>1. CASE Level[u] < Capacity
    <3>1. PICK s \in 0..now : grants[u][s] * Sub + Level[u] = Capacity + (now - s)
      BY DEF WindowInv
    <3> DEFINE used == grants[u][s] * Sub
    <3>2. used \in Nat /\ used + Level[u] = Capacity + (now - s)
      BY <1>3, <3>1
    <3> DEFINE l == Level[u]
               m == Level'[u]
    <3>3. l \in Nat /\ m = l + 1 /\ used + l = Capacity + (now - s)
      BY <1>1, <1>2, <2>1, <3>2
    <3> HIDE DEF used, l, m
    <3>4. used + m = Capacity + (now + 1 - s) /\ s \in 0..(now + 1)
      BY <1>1, <3>1, <3>2, <3>3
    <3> QED
      BY <3>4 DEF used, m
  <2>2. CASE ~(Level[u] < Capacity)
    <3>1. now + 1 \in 0..(now + 1) /\ Capacity + (now + 1 - (now + 1)) = Capacity
      BY <1>1
    <3>2. grants[u][now + 1] * Sub + Level'[u] = Capacity
      BY <1>1, <1>2, <1>4, <2>2
    <3> QED
      BY <3>1, <3>2
  <2> QED
    BY <2>1, <2>2
<1>7. \A u \in Ips, s \in 0..MaxTime : s > now' => grants'[u][s] = 0
  BY <1>1 DEF WindowInv
<1>8. \A u \in Ips, s \in 0..now' : grants'[u][s] * Sub + Level'[u] <= Capacity + (now' - s)
  BY <1>1, <1>5
<1>9. \A u \in Ips : \E s \in 0..now' : grants'[u][s] * Sub + Level'[u] = Capacity + (now' - s)
  BY <1>1, <1>6
<1>10. grants' \in [Ips -> [0..MaxTime -> Nat]]
  BY <1>1
<1> QED
  BY <1>7, <1>8, <1>9, <1>10 DEF WindowInv, Capacity

LEMMA WindowStep ==
  ASSUME IInv, WindowInv, [HNext]_hvars
  PROVE  WindowInv'
<1>1. ASSUME UNCHANGED <<now, Level, grants>> PROVE WindowInv'
  BY <1>1 DEF WindowInv
<1>2. ASSUME NEW ip \in Ips, Granted(ip),
             grants' = [grants EXCEPT ![ip] =
                          [s \in 0..MaxTime |-> IF s <= now THEN @[s] + 1 ELSE @[s]]]
      PROVE  WindowInv'
  BY <1>2, GrantStep
<1>3. ASSUME NEW ip \in Ips, Allow(ip), ~Granted(ip), UNCHANGED grants PROVE WindowInv'
  <2>1. ~(Available(ip) >= Sub)
    BY <1>3 DEF Granted, Allow, IInv, TypeOK
  <2> QED
    BY <1>1, <1>3, <2>1, AllowLevel DEF Allow
<1>4. ASSUME Tick, UNCHANGED grants PROVE WindowInv'
  BY <1>4, TickWindows
<1>5. ASSUME Cleanup, UNCHANGED grants PROVE WindowInv'
  BY <1>1, <1>5, CleanupLevel DEF Cleanup
<1>6. ASSUME TakeTick \/ Stop \/ LoopEnds \/ StopReturns \/ UNCHANGED vars, UNCHANGED grants
      PROVE  WindowInv'
  <2>1. now' = now /\ visitors' = visitors /\ bucket' = bucket
    BY <1>6 DEF TakeTick, Stop, LoopEnds, StopReturns, vars
  <2> QED
    BY <1>1, <1>6, <2>1 DEF Level, Available, Filled
<1> QED
  BY <1>2, <1>3, <1>4, <1>5, <1>6 DEF HNext, Next, hvars

(* A request passes exactly when it conforms: no window before it holds    *)
(* more than the burst and the refill of its length, and no request that   *)
(* would fit is turned away (allow, cleanup).                              *)
THEOREM AnswersCorrect == HSpec => AnswersAreExact
<1>1. HInit => IInv /\ WindowInv
  <2> SUFFICES ASSUME HInit PROVE IInv /\ WindowInv
    OBVIOUS
  <2>1. IInv
    BY InitIInv DEF HInit
  <2>2. ASSUME NEW ip \in Ips
        PROVE  Level[ip] = Capacity /\ grants[ip][0] * Sub = 0 /\ grants[ip][0] = 0
    <3>1. Level[ip] = Capacity
      BY DEF HInit, Init, Level, Available
    <3>2. grants[ip][0] = 0
      BY ConstantsAssumption DEF HInit
    <3> QED
      BY <3>1, <3>2, Products
  <2>3. now = 0 /\ Capacity \in Nat /\ grants = [ip \in Ips |-> [s \in 0..MaxTime |-> 0]]
    BY Sizes DEF HInit, Init
  <2>4. ASSUME NEW ip \in Ips, NEW s \in 0..now
        PROVE  grants[ip][s] * Sub + Level[ip] = Capacity + (now - s)
    <3>1. s = 0
      BY <2>3
    <3>2. grants[ip][0] * Sub = 0 /\ Level[ip] = Capacity
      BY <2>2
    <3> QED
      BY <2>3, <3>1, <3>2
  <2>5. grants \in [Ips -> [0..MaxTime -> Nat]]
    BY <2>3
  <2>6. \A ip \in Ips, s \in 0..MaxTime : s > now => grants[ip][s] = 0
    BY <2>3
  <2>7. \A ip \in Ips, s \in 0..now : grants[ip][s] * Sub + Level[ip] <= Capacity + (now - s)
    <3>1. \A s \in 0..now : Capacity + (now - s) <= Capacity + (now - s)
      BY <2>3
    <3> QED
      BY <2>4, <3>1
  <2>8. \A ip \in Ips : \E s \in 0..now : grants[ip][s] * Sub + Level[ip] = Capacity + (now - s)
    <3>1. 0 \in 0..now
      BY <2>3
    <3> QED
      BY <2>4, <3>1
  <2>9. WindowInv
    BY <2>5, <2>6, <2>7, <2>8 DEF WindowInv
  <2> QED
    BY <2>1, <2>9
<1>2. IInv /\ WindowInv /\ [HNext]_hvars => IInv' /\ WindowInv'
  <2>1. [HNext]_hvars => [Next]_vars
    BY DEF HNext, hvars, Granted, Next
  <2> QED
    BY <2>1, NextIInv, WindowStep
<1>3. IInv /\ WindowInv =>
        [\A ip \in Ips : Allow(ip) => (answer'[ip] = "pass" <=> Conforms(ip))]_hvars
  BY AnswerStep
<1> QED
  BY <1>1, <1>2, <1>3, PTL DEF HSpec, AnswersAreExact
=============================================================================
