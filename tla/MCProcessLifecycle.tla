------------------------- MODULE MCProcessLifecycle -------------------------
(* Instances of ProcessLifecycle for TLC.                                  *)
EXTENDS ProcessLifecycle

MCConfigs == Config
MCApi == [mode : {"api"}, metricsPort : {TRUE}, obsPort : {FALSE}]
MCAll == [mode : {"all"}, metricsPort : {TRUE}, obsPort : {TRUE}]
=============================================================================
