--------------------------- MODULE MCHealthProbe ---------------------------
(* Instances of HealthProbe for TLC; one call, because calls share nothing *)
(* but the flag and the dependencies, which change around it.              *)
EXTENDS HealthProbe
=============================================================================
