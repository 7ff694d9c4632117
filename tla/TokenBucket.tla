---------------------------- MODULE TokenBucket ----------------------------
(***************************************************************************)
(* What the rate limiter promises: every client has a bucket of its own    *)
(* that exists for ever, is full at the start and fills by one unit per    *)
(* tick.  A request passes and takes the units of one token when they are  *)
(* there, else it is rejected and takes nothing.                           *)
(***************************************************************************)
EXTENDS Naturals

CONSTANTS Ips, Capacity, Cost, MaxTime

VARIABLES now, level, answer

vars == <<now, level, answer>>

Init ==
  /\ now = 0
  /\ level = [ip \in Ips |-> Capacity]
  /\ answer = [ip \in Ips |-> "none"]

Tick ==
  /\ now < MaxTime
  /\ now' = now + 1
  /\ level' = [ip \in Ips |-> IF level[ip] < Capacity THEN level[ip] + 1 ELSE Capacity]
  /\ UNCHANGED answer

Request(ip) ==
  /\ IF level[ip] >= Cost
       THEN /\ level' = [level EXCEPT ![ip] = @ - Cost]
            /\ answer' = [answer EXCEPT ![ip] = "pass"]
       ELSE /\ answer' = [answer EXCEPT ![ip] = "reject"]
            /\ UNCHANGED level
  /\ UNCHANGED now

Next == Tick \/ \E ip \in Ips : Request(ip)

Spec == Init /\ [][Next]_vars
=============================================================================
