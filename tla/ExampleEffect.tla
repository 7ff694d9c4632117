---------------------------- MODULE ExampleEffect ----------------------------
(***************************************************************************)
(* What the asynchronous example task promises to whoever enqueued it,     *)
(* with no queue, no lease, no retry and no worker in sight:               *)
(*   - a task with an idempotency key has its effect at most once, however *)
(*     often it is executed; one without may have it several times;        *)
(*   - a task is reported done only after its effect, or after it was      *)
(*     waived: a template without its service consumes tasks with no       *)
(*     effect, and says so;                                                *)
(*   - done and dead are final.                                            *)
(* A dead task may have had its effect, and may still have it afterwards:  *)
(* an attempt nobody waits for any more cannot be called back.             *)
(***************************************************************************)
EXTENDS Naturals

CONSTANT Tasks

VARIABLES keyed, effects, waived, verdict

avars == <<keyed, effects, waived, verdict>>

Init ==
  /\ keyed = {}
  /\ effects = [t \in Tasks |-> 0]
  /\ waived = {}
  /\ verdict = [t \in Tasks |-> "absent"]

Submit(t, k) ==
  /\ verdict[t] = "absent"
  /\ verdict' = [verdict EXCEPT ![t] = "open"]
  /\ keyed' = IF k THEN keyed \union {t} ELSE keyed
  /\ UNCHANGED <<effects, waived>>

Apply(t) ==
  /\ verdict[t] # "absent"
  /\ t \in keyed => effects[t] = 0
  /\ effects' = [effects EXCEPT ![t] = @ + 1]
  /\ UNCHANGED <<keyed, waived, verdict>>

Waive(t) ==
  /\ verdict[t] # "absent"
  /\ waived' = waived \union {t}
  /\ UNCHANGED <<keyed, effects, verdict>>

Complete(t) ==
  /\ verdict[t] = "open"
  /\ effects[t] > 0 \/ t \in waived
  /\ verdict' = [verdict EXCEPT ![t] = "done"]
  /\ UNCHANGED <<keyed, effects, waived>>

GiveUp(t) ==
  /\ verdict[t] = "open"
  /\ verdict' = [verdict EXCEPT ![t] = "dead"]
  /\ UNCHANGED <<keyed, effects, waived>>

Next ==
  \E t \in Tasks :
    \/ \E k \in BOOLEAN : Submit(t, k)
    \/ Apply(t) \/ Waive(t) \/ Complete(t) \/ GiveUp(t)

Spec == Init /\ [][Next]_avars
=============================================================================
