------------------------------ MODULE MCPipeline ------------------------------
(***************************************************************************)
(* TLC instances of Pipeline, and statements the repository makes about    *)
(* the whole system that the code does not keep.                           *)
(***************************************************************************)
EXTENDS Pipeline, TLC

Symmetry == Permutations(Request) \cup Permutations(Worker)

\* "The connection manager handles its own reconnect-on-drop internally"
\* (apps/worker/src/main.ts:22): a worker that lost its connection consumes again.
DroppedWorkersConsumeAgain == \A w \in Worker : proc[w] = "deaf" ~> proc[w] = "consuming"

\* "A task that's been accepted is never silently lost, even if the broker or a worker
\* crashes mid-execution" (docs/system-design.md:8): here without any crash, failure or
\* operator, for a task whose job is published and whose row says so.
AcceptedTasksFinish ==
  \A t \in TaskId : task[t].status = "QUEUED" ~> IsTerminalStatus(task[t].status)
=============================================================================
