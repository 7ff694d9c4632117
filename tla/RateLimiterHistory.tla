-------------------------- MODULE RateLimiterHistory --------------------------
(***************************************************************************)
(* RateLimiter with the history of its answers: for every moment, how many *)
(* requests of an address have been granted since then.  TLC checks it for *)
(* one address and a burst of two; what two addresses have in common is    *)
(* the sweep, which the theorems cover for any number of them.             *)
(***************************************************************************)
EXTENDS RateLimiter

VARIABLE grants   \* history: requests granted per address since each tick

hvars == <<vars, grants>>

HInit == Init /\ grants = [ip \in Ips |-> [s \in 0..MaxTime |-> 0]]

Granted(ip) == Allow(ip) /\ answer'[ip] = "pass"

HNext ==
  \/ \E ip \in Ips :
       /\ Granted(ip)
       /\ grants' = [grants EXCEPT ![ip] =
                       [s \in 0..MaxTime |-> IF s <= now THEN @[s] + 1 ELSE @[s]]]
  \/ /\ Next
     /\ ~\E ip \in Ips : Granted(ip)
     /\ UNCHANGED grants

HSpec == HInit /\ [][HNext]_hvars /\ Fairness

(* The reference: one more request fits into every window that ends now,   *)
(* for a burst of Burst requests and one more per refill interval.         *)
Conforms(ip) ==
  \A s \in 0..now : (grants[ip][s] + 1) * Sub <= Capacity + (now - s)

(* A request passes exactly when it conforms: per address no window holds  *)
(* more than the burst and the refill of its length, and no request is     *)
(* turned away that would fit, whatever cleanup forgot in between.         *)
AnswersAreExact ==
  [][\A ip \in Ips : Allow(ip) => (answer'[ip] = "pass" <=> Conforms(ip))]_hvars
=============================================================================
