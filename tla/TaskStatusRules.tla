--------------------------- MODULE TaskStatusRules ---------------------------
(***************************************************************************)
(* The task vocabulary shared by the API and the worker                    *)
(* (packages/shared/src/types/enums.ts and utils/index.ts): the statuses,  *)
(* the table of legal transitions and the two predicates every command     *)
(* handler decides with.                                                   *)
(***************************************************************************)

TaskStatus == {"PENDING", "QUEUED", "RUNNING", "COMPLETED",
               "FAILED", "RETRYING", "CANCELLED", "DEAD_LETTERED"}

\* The table as a relation: <<from, to>> is in it iff `to` is listed for `from`.
TASK_STATUS_TRANSITIONS ==
  {<<"PENDING", "QUEUED">>, <<"PENDING", "CANCELLED">>,
   <<"QUEUED", "RUNNING">>, <<"QUEUED", "CANCELLED">>,
   <<"RUNNING", "COMPLETED">>, <<"RUNNING", "FAILED">>,
   <<"RUNNING", "RETRYING">>, <<"RUNNING", "CANCELLED">>,
   <<"RETRYING", "QUEUED">>, <<"RETRYING", "CANCELLED">>,
   <<"FAILED", "QUEUED">>, <<"DEAD_LETTERED", "QUEUED">>}

\* mutant: any change to a task that has not ended
CanTransition_AnyLive(from, to) == <<from, "CANCELLED">> \in TASK_STATUS_TRANSITIONS
CanTransition(from, to) == <<from, to>> \in TASK_STATUS_TRANSITIONS

IsTerminalStatus(st) == st \in {"COMPLETED", "FAILED", "CANCELLED", "DEAD_LETTERED"}

\* UpdateTaskHandler's own list of the statuses a row may be edited in.
MUTABLE_STATUSES == {"PENDING", "QUEUED"}

\* The statuses a worker reports (task-runner.ts); nothing else calls the handler.
Reportable == {"RUNNING", "COMPLETED", "FAILED", "RETRYING"}
=============================================================================
