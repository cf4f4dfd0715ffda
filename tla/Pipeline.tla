------------------------------ MODULE Pipeline ------------------------------
(***************************************************************************)
(* The way of a task through the whole system: the API's command handlers  *)
(* (TaskCommands), the broker (Broker) and the workers (WorkerProcess),    *)
(* joined where they meet.  A message leaves the API's write buffer for    *)
(* the broker; a delivery starts a job; a job's report is a request the    *)
(* API serves; its answer lets the job go on; settling it acknowledges the *)
(* delivery.                                                               *)
(*                                                                         *)
(* What may go wrong, and what operators may do, is drawn from the set     *)
(* Disturbance, at most `budget` times in a behaviour.  That the handlers  *)
(* of a task run side by side is no disturbance: the API serves requests   *)
(* as they come.                                                           *)
(*                                                                         *)
(* No action reads `marks`: it is history, for properties that say of each *)
(* task what alone can break them.                                         *)
(***************************************************************************)
EXTENDS TaskCommands

CONSTANTS
  Worker, Prefetch, Runnable,
  Nothing, NoLane,
  Disturbance,   \* what may happen in this run
  Budget         \* how often

VARIABLES
  queue, held,   \* the broker
  proc, job,     \* the workers
  caller,        \* the lane whose report a slot serves and which awaits the answer
  late,          \* reports under way to the API that nobody waits for any more
  budget,        \* disturbances left
  marks          \* per task, what has happened to it

apiVars == <<task, req, outbox>>
brokerVars == <<queue, held>>
workerVars == <<proc, job>>
notes == <<late, budget, marks>>
pipelineVars == <<apiVars, brokerVars, workerVars, caller, notes>>

B == INSTANCE Broker WITH unsent <- {}
W == INSTANCE WorkerProcess WITH Lane <- B!Lane, JobMessage <- Message

ASSUME PipelineAssumption ==
  /\ Budget \in Nat /\ Prefetch \in Nat \ {0} /\ Runnable \subseteq TaskId
  /\ NoLane \notin B!Lane /\ Nothing \notin Message

Lane == B!Lane
LanesOf(w) == B!LanesOf(w)
TaskOf(l) == job[l].msg.task

PipelineInit ==
  /\ Init /\ W!WorkerInit
  /\ queue = [q \in B!Queue |-> <<>>] /\ held = [l \in Lane |-> Nothing]
  /\ caller = [s \in Request |-> NoLane] /\ late = {} /\ budget = Budget
  /\ marks = [t \in TaskId |-> {}]

Disturb(kind) == kind \in Disturbance /\ budget > 0 /\ budget' = budget - 1

\* "overlap": a handler read the row while another was at work on the task.
\* "unheard": a worker went on although the API had not read the row for its report.
\* "broken": a handler failed or died, or took a buffered message for refused.
\* "retry": an operator has asked for a retry.
Mark == {"overlap", "unheard", "broken", "retry"}
Note(t, kinds) == marks' = [marks EXCEPT ![t] = @ \cup kinds]

AtWorkOn(t) == \E s \in Request : req[s].task = t
Met(t) == IF AtWorkOn(t) THEN {"overlap"} ELSE {}

\* What these lanes have sent and the API has not read.
Sent(lanes) == {<<TaskOf(l), job[l].next>> : l \in {k \in lanes : job[k].pc = "sending"}}

\* The slots of these lanes have nobody to answer any more.
Forget(lanes) == caller' = [s \in Request |-> IF caller[s] \in lanes THEN NoLane ELSE caller[s]]
-----------------------------------------------------------------------------
(* Clients and operators                                                    *)

Create(s) ==
  /\ \E p \in Priority, m \in MaxRetries : CreateUnkeyed(s, p, m)
  /\ UNCHANGED <<brokerVars, workerVars, caller, notes>>

\* The operators' requests, at any time.
Operate(s, t) ==
  /\ \/ CancelRead(s, t) /\ Disturb("cancel") /\ Note(t, Met(t))
     \/ RetryRead(s, t) /\ Disturb("retry") /\ Note(t, Met(t) \cup {"retry"})
     \/ DeleteRead(s, t) /\ Disturb("delete") /\ Note(t, Met(t))
     \/ /\ \E p \in Priority, m \in MaxRetries : UpdateRead(s, t, p, m)
        /\ Disturb("update") /\ Note(t, Met(t))
  /\ UNCHANGED <<brokerVars, workerVars, caller, late>>
-----------------------------------------------------------------------------
(* The API and the broker                                                   *)

\* The handler handed its message over, and knows it.
Publishing(s) ==
  \/ req[s].pc \in {"create.publish", "retry.publish"}
  \/ req[s].pc = "report.schedule" /\ ~Exhausted(req[s])
HandedOver(s) ==
  outbox' # outbox /\ (req[s].pc = "create.publish" => req'[s].pc = "create.markQueued")

ApiStep(s) ==
  /\ Continue(s)
  /\ IF Publishing(s) /\ ~HandedOver(s)
       THEN Disturb("publish") /\ Note(req[s].task, {"broken"})
       ELSE UNCHANGED <<budget, marks>>
  /\ caller' = IF req'[s].pc = "idle" THEN [caller EXCEPT ![s] = NoLane] ELSE caller
  /\ UNCHANGED <<brokerVars, workerVars, late>>

StatementFails(s) ==
  /\ DbError(s) /\ Disturb("db") /\ Note(req[s].task, {"broken"})
  /\ caller' = [caller EXCEPT ![s] = NoLane]
  /\ UNCHANGED <<brokerVars, workerVars, late>>

\* The connections of the requests it has not read are reset too.
ApiDies ==
  /\ ApiCrash /\ Disturb("apiCrash") /\ Forget(Lane) /\ late' = {}
  /\ marks' = [t \in TaskId |-> marks[t] \cup IF AtWorkOn(t) THEN {"broken"} ELSE {}]
  /\ UNCHANGED <<brokerVars, workerVars>>

BufferLost ==
  /\ ConnectionLost /\ Disturb("apiDrop")
  /\ UNCHANGED <<brokerVars, workerVars, caller, late, marks>>

ToBroker ==
  /\ Flush /\ B!Publish(Head(outbox))
  /\ UNCHANGED <<workerVars, caller, notes>>

RetryDue(n) == B!Expire(n) /\ UNCHANGED <<apiVars, workerVars, caller, notes>>
-----------------------------------------------------------------------------
(* Workers                                                                  *)

StartWorker(w) == W!Start(w) /\ UNCHANGED <<apiVars, brokerVars, caller, notes>>

TakeJob(l) ==
  /\ B!Deliver(l) /\ W!Take(l, Head(queue[B!Source(l)]))
  /\ UNCHANGED <<apiVars, caller, notes>>

RunJob(l) == W!Execute(l) /\ UNCHANGED <<apiVars, brokerVars, caller, notes>>

\* What a job does when its report is over, however it ended: `left` is what it
\* leaves under way, and when that ends the process, so are its other jobs' reports.
Resume(l, left) ==
  \/ W!Proceed(l) /\ Forget({l}) /\ late' = late \cup left /\ UNCHANGED brokerVars
  \/ W!Settle(l) /\ B!Ack(l) /\ Forget({l}) /\ late' = late \cup left
  \/ /\ W!SettleClosed(l) /\ Forget(LanesOf(l[1])) /\ UNCHANGED brokerVars
     /\ late' = late \cup left \cup Sent(LanesOf(l[1]) \ {l})

ReportArrives(l, s) ==
  /\ W!Call(l) /\ ReportRead(s, TaskOf(l), job[l].next) /\ Note(TaskOf(l), Met(TaskOf(l)))
  /\ caller' = [caller EXCEPT ![s] = l]
  /\ UNCHANGED <<brokerVars, late, budget>>

\* The row is gone (404, swallowed) or the table forbids the change: the answer
\* comes at once.
Refused(t, n) == ~(Exists(t) /\ CanTransition(task[t].status, n))
ReportIgnored(l) ==
  /\ job[l].pc = "sending" /\ Refused(TaskOf(l), job[l].next)
  /\ Resume(l, {}) /\ Note(TaskOf(l), Met(TaskOf(l)))
  /\ UNCHANGED <<apiVars, budget>>

ReportAnswered(l) ==
  /\ job[l].pc = "waiting" /\ \A s \in Request : caller[s] # l
  /\ Resume(l, {}) /\ UNCHANGED <<apiVars, budget, marks>>

\* The API cannot be reached.
ReportFails(l) ==
  /\ job[l].pc = "sending" /\ Disturb("unreachable")
  /\ Resume(l, {}) /\ Note(TaskOf(l), {"unheard"}) /\ UNCHANGED apiVars

\* Ten seconds without an answer, while the handler is still at work.
ReportTimesOut(l) ==
  /\ job[l].pc = "waiting" /\ \E s \in Request : caller[s] = l
  /\ Disturb("timeout") /\ Resume(l, {}) /\ UNCHANGED <<apiVars, marks>>

\* Ten seconds in which the API has not come to read the row: it may yet.
ReportOverdue(l) ==
  /\ job[l].pc = "sending" /\ Disturb("timeout")
  /\ Resume(l, Sent({l})) /\ Note(TaskOf(l), {"unheard"}) /\ UNCHANGED apiVars

WorkerCrash(w) ==
  /\ W!Die(w) /\ B!Disconnect(w) /\ Forget(LanesOf(w)) /\ Disturb("workerCrash")
  /\ late' = late \cup Sent(LanesOf(w)) /\ UNCHANGED <<apiVars, marks>>

WorkerDrop(w) ==
  /\ W!ConnectionDrop(w) /\ B!Disconnect(w) /\ Disturb("workerDrop")
  /\ UNCHANGED <<apiVars, caller, late, marks>>

WorkerShutdown(w) ==
  /\ W!Shutdown(w) /\ B!Disconnect(w) /\ Disturb("shutdown")
  /\ UNCHANGED <<apiVars, caller, late, marks>>

WorkerExit(w) ==
  /\ W!Exit(w) /\ Forget(LanesOf(w)) /\ late' = late \cup Sent(LanesOf(w))
  /\ UNCHANGED <<apiVars, brokerVars, budget, marks>>

\* Two of a kind about one task count as one; one that is refused changes nothing.
LateReportArrives(r, s) ==
  /\ r \in late /\ ReportRead(s, r[1], r[2]) /\ late' = late \ {r}
  /\ Note(r[1], Met(r[1]))
  /\ UNCHANGED <<brokerVars, workerVars, caller, budget>>
-----------------------------------------------------------------------------
\* What the running system does by itself.
Progress ==
  \/ \E s \in Request : ApiStep(s)
  \/ ToBroker
  \/ \E n \in B!Tier : RetryDue(n)
  \/ \E l \in Lane : TakeJob(l) \/ RunJob(l) \/ ReportIgnored(l) \/ ReportAnswered(l)
  \/ \E l \in Lane, s \in Request : ReportArrives(l, s)
  \/ \E w \in Worker : StartWorker(w) \/ WorkerExit(w)

\* What comes from outside.
Outside ==
  \/ \E s \in Request : Create(s) \/ StatementFails(s) \/ \E t \in TaskId : Operate(s, t)
  \/ ApiDies \/ BufferLost
  \/ \E l \in Lane : ReportFails(l) \/ ReportTimesOut(l) \/ ReportOverdue(l)
  \/ \E r \in late, s \in Request : LateReportArrives(r, s)
  \/ \E w \in Worker : WorkerCrash(w) \/ WorkerDrop(w) \/ WorkerShutdown(w)

PipelineNext == Progress \/ Outside
PipelineSpec == PipelineInit /\ [][PipelineNext]_pipelineVars

\* A step the system can take by itself is not put off for ever: event loops,
\* the broker and Docker's restart policy all keep going.
FairPipeline == PipelineSpec /\ WF_pipelineVars(Progress /\ budget' = budget)

PipelineTypeOK ==
  /\ TypeOK /\ W!WorkerTypeOK
  /\ queue \in [B!Queue -> Seq(Message)] /\ held \in [Lane -> Message \cup {Nothing}]
  /\ caller \in [Request -> Lane \cup {NoLane}] /\ budget \in 0..Budget
  /\ late \subseteq TaskId \X Reportable /\ marks \in [TaskId -> SUBSET Mark]
-----------------------------------------------------------------------------
(* Properties                                                               *)

InSeq(sq, t) == \E i \in DOMAIN sq : sq[i].task = t
Holding(t) == {l \in Lane : held[l] # Nothing /\ held[l].task = t}
Working(t) == {l \in Lane : W!Busy(l) /\ TaskOf(l) = t}

\* The broker has a job of t, in a priority queue or delivered.
Entrusted(t) == Holding(t) # {} \/ \E q \in B!TaskQueues : InSeq(queue[q], t)

\* A job for t exists: about to be published, on its way, queued or delivered.
Carried(t) ==
  \/ \E s \in Request : req[s].task = t /\ Publishing(s)
  \/ InSeq(outbox, t) \/ Entrusted(t)
  \/ \E n \in B!Tier : InSeq(queue[B!RetryQueue(n)], t)

\* The job that the create of t publishes has not left the API.
Unpublished(t) ==
  \/ task[t].status = "ABSENT"
  \/ \E s \in Request : req[s].task = t /\ req[s].pc = "create.publish"
  \/ \E i \in DOMAIN outbox : outbox[i].task = t /\ outbox[i].tier = 0

\* What became of t is on record, or a handler is about to write it.
Recorded(t) ==
  \/ task[t].status \notin {"ABSENT", "PENDING", "QUEUED", "RUNNING"}
  \/ \E s \in Request : req[s].task = t /\ req[s].pc = "report.write" /\ req[s].next # "RUNNING"

Retried(t) == "retry" \in marks[t]
Place(t) ==
  IF Retried(t) THEN "reissued"
  ELSE IF Holding(t) # {} THEN "leased"
  ELSE IF Entrusted(t) THEN "offered"
  ELSE IF Unpublished(t) THEN "before" ELSE "over"
Holder(t) == IF Retried(t) \/ Holding(t) = {} THEN NoLane ELSE CHOOSE l \in Holding(t) : TRUE
Result(t) == IF marks[t] # {} THEN "excused" ELSE IF Recorded(t) THEN "known" ELSE "open"

Places == [t \in TaskId |-> Place(t)]
Holders == [t \in TaskId |-> Holder(t)]
Results == [t \in TaskId |-> Result(t)]
Contract == INSTANCE WorkContract WITH work <- Places, holder <- Holders, result <- Results

\* The pipeline keeps the contract, with every fault, operator and overlap of handlers:
\* one lane at a time holds the job of a task, only the end of its connection takes it
\* away, it is not settled twice, and not before it is known what became of the task,
\* unless handlers met on it, a handler failed or a report was not heard.
ContractKept == Contract!ContractSpec

\* Of the lanes at work on a task at most one is a subscribed worker's: a second
\* runner is one whose connection is gone, so that it cannot acknowledge the job,
\* as long as no operator has a second one published.
OneSubscribedRunner ==
  \A l, k \in Lane :
    /\ W!Busy(l) /\ W!Busy(k) /\ TaskOf(l) = TaskOf(k)
    /\ proc[l[1]] = "consuming" /\ proc[k[1]] = "consuming"
    => l = k \/ "retry" \in marks[TaskOf(l)]

\* What the broker counts as delivered is what the process works on: a consuming
\* worker's busy lanes are exactly its unsettled deliveries, with their messages,
\* and a process without its first channel holds none.
DeliveriesMatchJobs ==
  \A l \in Lane :
    held[l] = IF proc[l[1]] = "consuming" THEN job[l].msg ELSE Nothing

\* The job the broker has of a task leaves it in one way only: a subscribed worker
\* has run it, its report of the outcome is over, and it acknowledges its own
\* delivery.  No fault, shutdown or operator takes it away, and no worker settles
\* another's (the at-least-once half of system-design.md 3.2).
JobsLeaveWhenRun ==
  [][\A t \in TaskId :
       Entrusted(t) /\ ~Entrusted(t)' =>
         \E l \in Lane : W!Outcome(l) /\ TaskOf(l) = t /\ held[l] = job[l].msg /\ B!Ack(l)]_pipelineVars

\* And by then what became of the task is on record or about to be, unless one of four
\* things has happened to it: its handlers met (a job overtaking the create that
\* published it, a report overtaking the one the worker gave up), a report ended before
\* the API read the row, a handler failed, or an operator retried it.  Nothing else, such
\* as a crash, a lost connection, a redelivery or a slow answer, loses an outcome.
OutcomesAreRecorded ==
  [][\A t \in TaskId :
       Entrusted(t) /\ ~Entrusted(t)' => Recorded(t) \/ marks'[t] # {}]_pipelineVars

\* A task shown RUNNING is being run, or its job is still to be redelivered, or a
\* handler is at work on it, unless one of the same four has happened to it: no restart,
\* lost connection, shutdown, slow answer, cancel, delete or edit strands it.
RunningTasksHaveAJob ==
  \A t \in TaskId :
    task[t].status = "RUNNING" =>
      Carried(t) \/ Working(t) # {} \/ AtWorkOn(t) \/ marks[t] # {}

\* The status of a task whose handlers have not met goes by the table, with every
\* fault, retry and operator around them.
TableObeyedInTurn ==
  [][\A t \in TaskId : StatusStep(t) => LegalStep(t) \/ "overlap" \in marks[t]]_pipelineVars

\* A DEAD_LETTERED task whose handlers have not met is past its own retry limit,
\* whatever limits its jobs carry.
ExhaustedInTurn ==
  \A t \in TaskId :
    task[t].status = "DEAD_LETTERED" =>
      task[t].retryCount > task[t].maxRetries \/ "overlap" \in marks[t]
=============================================================================
