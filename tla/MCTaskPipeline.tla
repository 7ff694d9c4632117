--------------------------- MODULE MCTaskPipeline ---------------------------
(* Instances of TaskPipeline for TLC.                                      *)
EXTENDS TaskPipeline, RetryDelay

(* A message without a task_key, left by an older release; one of a newer  *)
(* schema; one that is no example payload at all.                          *)
MCOtherPayloads ==
  { NoKeyTask,
    [NewExampleTask EXCEPT !.v = PayloadSchemaVersion + 1],
    NoPayload }

(* A production worker, one of a template without a database, and one that *)
(* must not start: production without a database.                          *)
MCDeployments ==
  { [production |-> TRUE,  database |-> TRUE],
    [production |-> FALSE, database |-> FALSE],
    [production |-> TRUE,  database |-> FALSE] }

(* The delays, with bases around the one whose last doubling wraps.        *)
ASSUME RetryDelayAssumption ==
  DelayIsRight((1..20) \union (505..520) \union (1020..1030), 1..60 \union (500..700))
=============================================================================
