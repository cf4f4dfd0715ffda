---------------------------- MODULE WorkContract ----------------------------
(***************************************************************************)
(* What the pipeline promises of the job of a task (docs/system-design.md   *)
(* 1, 3.2 and 5): once a queue has it, it is leased to one lane at a time,  *)
(* returns when its worker's connection ends, and is settled by its holder  *)
(* alone, when it is known what became of the task.                         *)
(*                                                                         *)
(* The promise has exceptions, and the contract names them: a job may be    *)
(* lost before it reaches a queue, the result of an excused task may not be *)
(* known when its job is settled, and a task that an operator retries has   *)
(* jobs of which nothing more is said.                                      *)
(***************************************************************************)
CONSTANTS TaskId, Worker, Lane, NoLane

VARIABLES
  work,      \* where the job of a task is
  holder,    \* the lane that has it
  result     \* what is known of the task

contractVars == <<work, holder, result>>

ContractInit ==
  /\ work = [t \in TaskId |-> "before"]
  /\ holder = [t \in TaskId |-> NoLane]
  /\ result = [t \in TaskId |-> "open"]

Offer(t) ==
  /\ work[t] = "before"
  /\ work' = [work EXCEPT ![t] = "offered"] /\ UNCHANGED <<holder, result>>

Lease(t, l) ==
  /\ work[t] = "offered"
  /\ work' = [work EXCEPT ![t] = "leased"] /\ holder' = [holder EXCEPT ![t] = l]
  /\ UNCHANGED result

\* The connection of w ends: what its lanes hold, and nothing else, is offered again.
Revoke(w) ==
  LET its == {t \in TaskId : work[t] = "leased" /\ holder[t][1] = w}
  IN  /\ work' = [t \in TaskId |-> IF t \in its THEN "offered" ELSE work[t]]
      /\ holder' = [t \in TaskId |-> IF t \in its THEN NoLane ELSE holder[t]]
      /\ UNCHANGED result

\* The holder is done.
Settle(t) ==
  /\ work[t] = "leased"
  /\ work' = [work EXCEPT ![t] = "over"] /\ holder' = [holder EXCEPT ![t] = NoLane]
  /\ \/ result[t] # "open" /\ UNCHANGED result
     \/ result' = [result EXCEPT ![t] = "excused"]

\* A result is not taken back.
Conclude(t) ==
  /\ result[t] = "open"
  /\ result' = [result EXCEPT ![t] = "known"] /\ UNCHANGED <<work, holder>>

\* Jobs that no queue has yet are lost, and tasks are excused.
Mishap(lost, excused) ==
  /\ \A t \in lost : work[t] = "before"
  /\ work' = [t \in TaskId |-> IF t \in lost THEN "over" ELSE work[t]]
  /\ result' = [t \in TaskId |-> IF t \in excused THEN "excused" ELSE result[t]]
  /\ UNCHANGED holder

\* An operator retries the task.
Reissue(t) ==
  /\ work' = [work EXCEPT ![t] = "reissued"] /\ holder' = [holder EXCEPT ![t] = NoLane]
  /\ result' = [result EXCEPT ![t] = "excused"]

ContractNext ==
  \/ \E t \in TaskId :
       Offer(t) \/ Settle(t) \/ Conclude(t) \/ Reissue(t) \/ \E l \in Lane : Lease(t, l)
  \/ \E w \in Worker : Revoke(w)
  \/ \E lost, excused \in SUBSET TaskId : Mishap(lost, excused)

ContractSpec == ContractInit /\ [][ContractNext]_contractVars
=============================================================================
