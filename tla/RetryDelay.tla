----------------------------- MODULE RetryDelay -----------------------------
(* The delay before the retry n of a task: base doubled n times, at most   *)
(* max, computed on integers of Width bits that wrap around.  The code has *)
(* 64 bits and the threshold 30.                                           *)
EXTENDS Integers

CONSTANTS
  Width,     \* bits of a duration
  Threshold  \* from this retry on the power is not computed

ASSUME WidthAssumption ==
  /\ Width \in Nat \ {0} /\ Threshold \in Nat
  /\ Threshold < Width

(* What is left of x in two's complement.                                  *)
Wrapped(x) ==
  LET low == x % 2^Width
  IN  IF low < 2^(Width - 1) THEN low ELSE low - 2^Width

computeRetryDelay(n, base, max) ==
  LET delay == Wrapped(2^(IF n < 0 THEN 0 ELSE n) * base)
  IN  IF n >= Threshold \/ delay <= 0 \/ delay > max THEN max ELSE delay

(* What the comment of the code promises.                                  *)
Promised(n, base, max) == IF 2^n * base > max THEN max ELSE 2^n * base

(* The promise is kept when the last power computed does not wrap and the  *)
(* first one that is not computed would exceed max.                        *)
InRange(base, max) ==
  2^(Threshold - 1) * base < 2^(Width - 1) /\ max <= 2^Threshold * base

(* For every retry, base and max of these: the delay is the promised one   *)
(* in range, and is between 1 and max wherever it wraps.                   *)
DelayIsRight(bases, maxima) ==
  \A n \in -1..Threshold + 2, base \in bases, max \in maxima :
    LET delay == computeRetryDelay(n, base, max)
    IN  /\ delay \in 1..max
        /\ n >= 0 /\ InRange(base, max) => delay = Promised(n, base, max)
=============================================================================
