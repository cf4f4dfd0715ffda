-------------------------- MODULE MCWorkerRegistry --------------------------
(* TLC instances of WorkerRegistry; a tick is ten seconds.                *)
EXTENDS WorkerRegistry, TLC

CONSTANT Shared

\* The replicas of docker-compose.yml, which all have the WORKER_NAME of .env.
SharedName == [p \in Process |-> Shared]

Replicas == Permutations(Process)
=============================================================================
