---------------------------- MODULE TaskCommands ----------------------------
(***************************************************************************)
(* The command side of the API's Tasks module                              *)
(* (apps/api/src/tasks/commands).  Every handler is split at its `await`s: *)
(* one action per statement Postgres executes or per hand-over to the      *)
(* RabbitMQ channel, because any other request can be served in between.   *)
(* What a handler read before an await stays in its request slot.          *)
(*                                                                         *)
(* The first step of a handler (its read, or its insert) is merged with    *)
(* the arrival of the request: nothing is touched before it.               *)
(***************************************************************************)
EXTENDS Naturals, Sequences, TaskStatusRules

CONSTANTS
  TaskId,       \* ids Postgres can generate; an id is never used twice
  Request,      \* HTTP requests the API serves at the same time
  Key,          \* idempotency keys clients send
  Priority,     \* the task priorities in use
  MaxRetries,   \* the maxRetries values clients ask for
  NoKey, NoTask,
  OutboxBound,  \* bound: messages in the channel's write buffer
  CountBound    \* bound: retryCount up to which a row may be reported RETRYING

ASSUME TaskCommandsAssumption ==
  /\ MaxRetries \subseteq Nat /\ OutboxBound \in Nat /\ CountBound \in Nat
  /\ NoKey \notin Key /\ NoTask \notin TaskId /\ Priority # {}

VARIABLES
  task,    \* the tasks table, by id
  req,     \* the state of each request being served
  outbox   \* messages in the channel's write buffer, oldest first

vars == <<task, req, outbox>>

RowStatus == TaskStatus \cup {"ABSENT", "DELETED"}

\* completedAt: whether the column holds a date.
Row == [status: RowStatus, retryCount: Nat, maxRetries: Nat, priority: Priority,
        completedAt: BOOLEAN, idempotencyKey: Key \cup {NoKey}]

\* tier = 0: published to the TASKS exchange; 1..6: to that tier of RETRY.
Message == [task: TaskId, attempt: Nat, maxRetries: Nat, priority: Priority, tier: 0..6]

\* `seen` is the status the handler read, `next` the one a worker reports;
\* `count`, `limit` and `priority` are what it read, was given, or got back.
Slot == [pc: {"idle", "create.insert", "create.publish", "create.markQueued",
              "report.write", "report.schedule", "cancel.write",
              "retry.write", "retry.publish", "delete.write", "update.write"},
         task: TaskId \cup {NoTask}, seen: RowStatus, next: RowStatus,
         count: Nat, limit: Nat, priority: Priority, key: Key \cup {NoKey}]

IdleSlot == [pc |-> "idle", task |-> NoTask, seen |-> "ABSENT", next |-> "ABSENT",
             count |-> 0, limit |-> 0, priority |-> CHOOSE p \in Priority : TRUE,
             key |-> NoKey]

\* mutant: a soft delete that later updates still find
Exists_SoftDelete(t) == t # NoTask /\ task[t].status # "ABSENT"
Exists(t) == task[t].status \in TaskStatus

Init ==
  /\ task = [t \in TaskId |->
               [status |-> "ABSENT", retryCount |-> 0, maxRetries |-> 0,
                priority |-> CHOOSE p \in Priority : TRUE,
                completedAt |-> FALSE, idempotencyKey |-> NoKey]]
  /\ req = [s \in Request |-> IdleSlot]
  /\ outbox = <<>>

\* task.update / task.delete by id: an error (P2025) when the row is gone.
UpdateById(t, row) == task' = IF Exists(t) THEN [task EXCEPT ![t] = row] ELSE task

Idle(s) == req[s].pc = "idle"
Finish(s) == req' = [req EXCEPT ![s] = IdleSlot]

\* The handler has read (or written) row t and keeps what it saw in its slot.
Remember(s, pc, t, row, next) ==
  req' = [req EXCEPT ![s] = [pc |-> pc, task |-> t, seen |-> row.status, next |-> next,
                             count |-> row.retryCount, limit |-> row.maxRetries,
                             priority |-> row.priority, key |-> NoKey]]
-----------------------------------------------------------------------------
(* Handing a message to the channel (task.producer.ts).  "full": publish    *)
(* returned false, which the producer turns into an error although amqplib  *)
(* has buffered the message.  "refused": there is no open channel.          *)

PublishOutcome == {"ok", "full", "refused"}

Publish(m, outcome) ==
  /\ outcome # "refused" => Len(outbox) < OutboxBound
  /\ outbox' = IF outcome = "refused" THEN outbox ELSE Append(outbox, m)

TaskMessage(r) == [task |-> r.task, attempt |-> 1, maxRetries |-> r.limit,
                   priority |-> r.priority, tier |-> 0]

\* scheduleRetry overwrites the attempt its caller put in the message.
RetryMessage(r) == [task |-> r.task, attempt |-> r.count, maxRetries |-> r.limit,
                    priority |-> r.priority, tier |-> IF r.count < 6 THEN r.count ELSE 6]
-----------------------------------------------------------------------------
(* CreateTaskHandler                                                        *)

KeyTaken(k) == k # NoKey /\ \E t \in TaskId : Exists(t) /\ task[t].idempotencyKey = k

\* The unique index on Task.idempotencyKey.  mutant: the column without @unique
UniqueIndexAllows_Always(k) == TRUE
UniqueIndexAllows(k) == ~KeyTaken(k)

\* findUnique by key: a taken key answers with the existing task.
CreateLookup(s, k, p, m) ==
  /\ Idle(s) /\ k \in Key
  /\ IF KeyTaken(k)
       THEN UNCHANGED req
       ELSE req' = [req EXCEPT ![s] = [IdleSlot EXCEPT !.pc = "create.insert", !.key = k,
                                                       !.limit = m, !.priority = p]]
  /\ UNCHANGED <<task, outbox>>

\* task.create, when the index lets it; the handler keeps the created row.
InsertRow(s, t, k, p, m) ==
  LET row == [status |-> "PENDING", retryCount |-> 0, maxRetries |-> m, priority |-> p,
              completedAt |-> FALSE, idempotencyKey |-> k]
  IN  /\ task[t].status = "ABSENT" /\ UniqueIndexAllows(k)
      /\ task' = [task EXCEPT ![t] = row]
      /\ Remember(s, "create.publish", t, row, "QUEUED")
      /\ UNCHANGED outbox

CreateInsert(s) ==
  /\ req[s].pc = "create.insert"
  /\ \E t \in TaskId : InsertRow(s, t, req[s].key, req[s].priority, req[s].limit)

\* The index refuses the row: the call fails with 409.
CreateConflict(s) ==
  /\ req[s].pc = "create.insert" /\ ~UniqueIndexAllows(req[s].key)
  /\ Finish(s) /\ UNCHANGED <<task, outbox>>

\* A request without a key starts at the insert.
CreateUnkeyed(s, p, m) ==
  Idle(s) /\ \E t \in TaskId : InsertRow(s, t, NoKey, p, m)

\* A failed publish is caught: the call answers with the PENDING task.
CreatePublish(s) ==
  /\ req[s].pc = "create.publish"
  /\ \E outcome \in PublishOutcome :
       /\ Publish(TaskMessage(req[s]), outcome)
       /\ IF outcome = "ok" THEN req' = [req EXCEPT ![s].pc = "create.markQueued"]
                            ELSE Finish(s)
  /\ UNCHANGED task

\* task.update({ where: { id } }) whatever the row holds by now.
CreateMarkQueued(s) ==
  /\ req[s].pc = "create.markQueued"
  /\ UpdateById(req[s].task, [task[req[s].task] EXCEPT !.status = "QUEUED"])
  /\ Finish(s) /\ UNCHANGED outbox
-----------------------------------------------------------------------------
(* UpdateTaskStatusHandler: a worker reports status n of task t             *)

ReportRead(s, t, n) ==
  /\ Idle(s) /\ Exists(t) /\ CanTransition(task[t].status, n)
  /\ n = "RETRYING" => task[t].retryCount < CountBound
  /\ Remember(s, "report.write", t, task[t], n)
  /\ UNCHANGED <<task, outbox>>

\* The row after applyTransition, from the snapshot the handler holds.
\* mutant: retryCount counted down, as retries left
Transitioned_CountDown(row, r) ==
  [row EXCEPT !.status = r.next, !.retryCount = IF r.next = "RETRYING" THEN r.count - 1 ELSE @,
              !.completedAt = IF r.next \in {"COMPLETED", "FAILED"} THEN TRUE ELSE @]
Transitioned(row, r) ==
  [row EXCEPT !.status = r.next,
              !.retryCount = IF r.next = "RETRYING" THEN r.count + 1 ELSE @,
              !.completedAt = IF r.next \in {"COMPLETED", "FAILED"} THEN TRUE ELSE @]

ReportWrite(s) ==
  /\ req[s].pc = "report.write"
  /\ LET t == req[s].task
         row == Transitioned(task[t], req[s])
     IN  /\ UpdateById(t, row)
         /\ IF Exists(t) /\ req[s].next = "RETRYING"
              THEN Remember(s, "report.schedule", t, row, "DEAD_LETTERED")
              ELSE Finish(s)
  /\ UNCHANGED outbox

\* mutant: >= for >
Exhausted_AtLimit(r) == r.count >= r.limit
Exhausted(r) == r.count > r.limit

DeadLettered(row) == [row EXCEPT !.status = "DEAD_LETTERED", !.completedAt = TRUE]

\* scheduleRetry, more retries than allowed: the row is dead-lettered.
ReportDeadLetter(s) ==
  /\ req[s].pc = "report.schedule" /\ Exhausted(req[s])
  /\ UpdateById(req[s].task, DeadLettered(task[req[s].task]))
  /\ Finish(s) /\ UNCHANGED outbox

\* scheduleRetry, otherwise: the job goes to a retry tier.  An error there
\* answers 500 and leaves the row RETRYING.
ReportSchedule(s) ==
  /\ req[s].pc = "report.schedule" /\ ~Exhausted(req[s])
  /\ \E outcome \in PublishOutcome : Publish(RetryMessage(req[s]), outcome)
  /\ Finish(s) /\ UNCHANGED task
-----------------------------------------------------------------------------
(* CancelTaskHandler                                                        *)

\* mutant: the date is forgotten
Cancelled_NoDate(row) == [row EXCEPT !.status = "CANCELLED"]
Cancelled(row) == [row EXCEPT !.status = "CANCELLED", !.completedAt = TRUE]

CancelRead(s, t) ==
  /\ Idle(s) /\ Exists(t) /\ CanTransition(task[t].status, "CANCELLED")
  /\ Remember(s, "cancel.write", t, task[t], "CANCELLED")
  /\ UNCHANGED <<task, outbox>>

CancelWrite(s) ==
  /\ req[s].pc = "cancel.write"
  /\ UpdateById(req[s].task, Cancelled(task[req[s].task]))
  /\ Finish(s) /\ UNCHANGED outbox
-----------------------------------------------------------------------------
(* RetryTaskHandler: an operator re-queues a task                           *)

RetryRead(s, t) ==
  /\ Idle(s) /\ Exists(t) /\ CanTransition(task[t].status, "QUEUED")
  /\ Remember(s, "retry.write", t, task[t], "QUEUED")
  /\ UNCHANGED <<task, outbox>>

RetryWrite(s) ==
  /\ req[s].pc = "retry.write"
  /\ LET t == req[s].task
         row == [task[t] EXCEPT !.status = "QUEUED", !.retryCount = 0]
     IN  /\ UpdateById(t, row)
         /\ IF Exists(t) THEN Remember(s, "retry.publish", t, row, "QUEUED") ELSE Finish(s)
  /\ UNCHANGED outbox

\* republish; an error answers 500 and leaves the row QUEUED.
RetryPublish(s) ==
  /\ req[s].pc = "retry.publish"
  /\ \E outcome \in PublishOutcome : Publish(TaskMessage(req[s]), outcome)
  /\ Finish(s) /\ UNCHANGED task
-----------------------------------------------------------------------------
(* DeleteTaskHandler and UpdateTaskHandler                                  *)

DeleteRead(s, t) ==
  /\ Idle(s) /\ Exists(t) /\ IsTerminalStatus(task[t].status)
  /\ Remember(s, "delete.write", t, task[t], "DELETED")
  /\ UNCHANGED <<task, outbox>>

DeleteWrite(s) ==
  /\ req[s].pc = "delete.write"
  /\ UpdateById(req[s].task, [task[req[s].task] EXCEPT !.status = "DELETED"])
  /\ Finish(s) /\ UNCHANGED outbox

UpdateRead(s, t, p, m) ==
  /\ Idle(s) /\ Exists(t) /\ task[t].status \in MUTABLE_STATUSES
  /\ Remember(s, "update.write", t, [task[t] EXCEPT !.priority = p, !.maxRetries = m], "ABSENT")
  /\ UNCHANGED <<task, outbox>>

UpdateWrite(s) ==
  /\ req[s].pc = "update.write"
  /\ UpdateById(req[s].task, [task[req[s].task] EXCEPT !.priority = req[s].priority,
                                                       !.maxRetries = req[s].limit])
  /\ Finish(s) /\ UNCHANGED outbox
-----------------------------------------------------------------------------
(* The environment                                                          *)

\* The socket carries the oldest buffered message to the broker.
Flush == outbox # <<>> /\ outbox' = Tail(outbox) /\ UNCHANGED <<task, req>>

\* A statement fails, or its answer is lost: the handler throws (500).
DbError(s) == ~Idle(s) /\ Finish(s) /\ UNCHANGED <<task, outbox>>

\* The API process dies: handlers stop where they are, the buffer is gone.
ApiCrash ==
  /\ req' = [s \in Request |-> IdleSlot] /\ outbox' = <<>>
  /\ UNCHANGED task

\* The AMQP connection drops: what was buffered on it is gone.
ConnectionLost == outbox # <<>> /\ outbox' = <<>> /\ UNCHANGED <<task, req>>

Arrive(s) ==
  \/ \E k \in Key, p \in Priority, m \in MaxRetries : CreateLookup(s, k, p, m)
  \/ \E p \in Priority, m \in MaxRetries : CreateUnkeyed(s, p, m)
  \/ \E t \in TaskId :
       \/ \E n \in Reportable : ReportRead(s, t, n)
       \/ CancelRead(s, t)
       \/ RetryRead(s, t)
       \/ DeleteRead(s, t)
       \/ \E p \in Priority, m \in MaxRetries : UpdateRead(s, t, p, m)

Continue(s) ==
  \/ CreateInsert(s) \/ CreateConflict(s) \/ CreatePublish(s) \/ CreateMarkQueued(s)
  \/ ReportWrite(s) \/ ReportDeadLetter(s) \/ ReportSchedule(s)
  \/ CancelWrite(s) \/ RetryWrite(s) \/ RetryPublish(s)
  \/ DeleteWrite(s) \/ UpdateWrite(s)

Next ==
  \/ \E s \in Request : Arrive(s) \/ Continue(s) \/ DbError(s)
  \/ Flush \/ ApiCrash \/ ConnectionLost

Spec == Init /\ [][Next]_vars

TypeOK ==
  /\ task \in [TaskId -> Row]
  /\ req \in [Request -> Slot]
  /\ outbox \in Seq(Message)
-----------------------------------------------------------------------------
(* Properties                                                               *)

StatusStep(t) == task'[t].status # task[t].status

\* The table, the life of the row itself, and scheduleRetry's dead-lettering.
LegalStep(t) ==
  \/ <<task[t].status, task'[t].status>> \in TASK_STATUS_TRANSITIONS
  \/ task[t].status = "ABSENT" /\ task'[t].status = "PENDING"
  \/ task[t].status = "RETRYING" /\ task'[t].status = "DEAD_LETTERED"
  \/ IsTerminalStatus(task[t].status) /\ task'[t].status = "DELETED"

\* The handler that takes this step decided on a status the row has left.
StaleWriter(t) ==
  \E s \in Request : /\ req'[s] # req[s] /\ ~Idle(s)
                     /\ req[s].task = t /\ req[s].seen # task[t].status

\* Every status the API writes is one its handler was entitled to write: where
\* a step leaves the transition table (enums.ts), the row changed between that
\* handler's read and its unconditional update, and nothing else is to blame.
OnlyStaleWritesBreakTheTable ==
  [][\A t \in TaskId : StatusStep(t) => LegalStep(t) \/ StaleWriter(t)]_vars

\* No status of any task ever changes in a way the table does not list, but for
\* the dead-lettering of exhausted retries.  True of handlers run one by one.
TransitionTableObeyed ==
  [][\A t \in TaskId : StatusStep(t) => LegalStep(t)]_vars

\* A task the dashboard calls finished has a completion date, whichever handlers
\* raced on it (completedAt feeds the throughput metrics and the task list).
TerminalHasCompletedAt ==
  \A t \in TaskId : IsTerminalStatus(task[t].status) => task[t].completedAt

\* A deleted task stays deleted: a handler that read the row before the delete
\* cannot bring it back with its late update.
DeletedStaysDeleted ==
  [][\A t \in TaskId : task[t].status = "DELETED" => task'[t].status = "DELETED"]_vars

\* An idempotency key names at most one task, however the lookups and inserts
\* of concurrent creates interleave.
KeyNamesOneTask ==
  \A t, u \in TaskId :
    Exists(t) /\ Exists(u) /\ task[t].idempotencyKey = task[u].idempotencyKey
      => t = u \/ task[t].idempotencyKey = NoKey

\* A DEAD_LETTERED task really has used up its retries: its retryCount is above
\* its own maxRetries (system-design.md 3.4).  True of handlers run one by one.
DeadLetteredIsExhausted ==
  \A t \in TaskId : task[t].status = "DEAD_LETTERED" => task[t].retryCount > task[t].maxRetries
=============================================================================
