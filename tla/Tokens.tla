------------------------------- MODULE Tokens -------------------------------
(* The bearer tokens of pkg/auth: what GenerateToken signs, and what       *)
(* ParseToken accepts at a moment.  Moments are in milliseconds, the times *)
(* of a token in whole seconds, since a NumericDate drops the rest.        *)
(* Left out: the form of the header ("Bearer" or the bare token).          *)
EXTENDS Integers

Second == 1000

NumericDate(t) == t - (t % Second)

(* A manager has a secret, an issuer ("" when none is configured), and a   *)
(* lifetime.  A token is known by the secret and the method it is signed   *)
(* with, its claims, and what of them is missing.                          *)
NoTime == -1

GenerateToken(manager, subject, now) ==
  [ secret |-> manager.secret, method |-> "HS256", issuer |-> manager.issuer,
    subject |-> subject, notBefore |-> NumericDate(now),
    expires |-> NumericDate(now + manager.ttl) ]

(* GenerateToken refuses a blank subject and a manager without a lifetime. *)
CanGenerate(manager, subject) == subject # "" /\ manager.ttl > 0

(* golang-jwt: a token is over in the very moment of exp, and begins in    *)
(* the moment of nbf; a missing nbf is no bound, a missing exp a refusal.  *)
InTime(token, now) ==
  /\ token.expires # NoTime /\ now < token.expires
  /\ token.notBefore # NoTime => token.notBefore <= now

ParseToken(manager, token, now) ==
  /\ token.method = "HS256" /\ token.secret = manager.secret
  /\ InTime(token, now)
  /\ manager.issuer # "" => token.issuer = manager.issuer
  /\ token.subject # ""
=============================================================================
