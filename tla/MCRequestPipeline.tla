------------------------- MODULE MCRequestPipeline -------------------------
(* Instances of RequestPipeline for TLC.                                   *)
EXTENDS RequestPipeline, Tokens

CONSTANTS q1, q2

(* With and without a deadline; with everything configured and with        *)
(* nothing.                                                                *)
MCConfigs ==
  { [deadline |-> TRUE, queue |-> TRUE, devToken |-> TRUE],
    [deadline |-> TRUE, queue |-> FALSE, devToken |-> FALSE],
    [deadline |-> FALSE, queue |-> TRUE, devToken |-> TRUE] }

(* One request of every kind, next to a list request, which may hang,      *)
(* fail, panic or be cut like any other.                                   *)
MCSends == [r \in Requests |-> IF r = q1 THEN Routes ELSE {"list"}]

(* A token of 3.5 s, signed in the middle of a second: accepted at once,   *)
(* refused from its last whole second on, and by another issuer.           *)
ASSUME TokensAssumption ==
  LET here == [secret |-> "s", issuer |-> "i", ttl |-> 3500]
      there == [here EXCEPT !.issuer = "j"]
      token == GenerateToken(here, "a", 10400)
  IN  /\ CanGenerate(here, "a")
      /\ \A now \in 10000..14000 : ParseToken(here, token, now) <=> now < 13000
      /\ \A now \in 10000..14000 : ~ParseToken(there, token, now)
=============================================================================
