--------------------------- MODULE PipelineProofs ---------------------------
(***************************************************************************)
(* Theorems about Pipeline, for any number of tasks, requests, workers,    *)
(* priorities, lanes, retries and disturbances.                            *)
(*                                                                         *)
(* First what holds of the whole: it refines TaskCommands, so every        *)
(* theorem about the API's handlers holds of the system; its state is well *)
(* formed; the broker's deliveries and the workers' jobs agree; and a task *)
(* whose handlers have not met obeys the transition table and its own      *)
(* retry limit.                                                            *)
(*                                                                         *)
(* Then the jobs: where those of a task are (in a handler about to publish *)
(* one, in the write buffer, in a priority queue, or delivered to a lane), *)
(* who runs them, how they leave the broker, what is on record by then,    *)
(* and the refinement of WorkContract.                                     *)
(***************************************************************************)
EXTENDS Pipeline, TaskCommandsProofs, FiniteSetTheorems

-----------------------------------------------------------------------------
(* The broker's steps keep its state well formed                            *)

QueueTypes ==
  /\ queue \in [B!Queue -> Seq(Message)]
  /\ held \in [Lane -> Message \cup {Nothing}]

LEMMA RoutedType ==
  ASSUME NEW qs \in [B!Queue -> Seq(Message)], NEW exchange, NEW m \in Message
  PROVE  B!Routed(qs, exchange, m) \in [B!Queue -> Seq(Message)]
<1>1. \A q \in B!Queue : qs[q] \in Seq(Message) /\ Append(qs[q], m) \in Seq(Message)
  BY AppendProperties
<1> QED BY <1>1 DEF B!Routed

LEMMA QueueNames ==
  /\ \A l \in Lane : B!Source(l) \in B!Queue
  /\ \A n \in B!Tier : B!RetryQueue(n) \in B!Queue
  /\ \A q \in B!TaskQueues : \E p \in Priority : q = B!TaskQueue(p) /\ q[2] = p
BY DEF Lane, B!Lane, B!Source, B!Queue, B!TaskQueues, B!TaskQueue, B!RetryQueue, B!Tier

LEMMA PublishQueues ==
  ASSUME QueueTypes, NEW m \in Message, B!Publish(m) PROVE QueueTypes'
BY RoutedType DEF QueueTypes, B!Publish

LEMMA ExpireQueues ==
  ASSUME QueueTypes, NEW n \in B!Tier, B!Expire(n) PROVE QueueTypes'
<1> DEFINE q == B!RetryQueue(n)
<1>1. q \in B!Queue /\ queue[q] \in Seq(Message) /\ queue[q] # <<>>
  BY QueueNames DEF QueueTypes, B!Expire
<1>2. Head(queue[q]) \in Message /\ Tail(queue[q]) \in Seq(Message)
  BY <1>1, HeadTailProperties
<1>3. [queue EXCEPT ![q] = Tail(@)] \in [B!Queue -> Seq(Message)]
  BY <1>1, <1>2 DEF QueueTypes
<1>4. queue' = B!Routed([queue EXCEPT ![q] = Tail(@)], "TASKS", Head(queue[q])) /\ held' = held
  BY DEF B!Expire
<1>5. queue' \in [B!Queue -> Seq(Message)]
  BY <1>2, <1>3, <1>4, RoutedType
<1> QED BY <1>4, <1>5 DEF QueueTypes

LEMMA DeliverQueues ==
  ASSUME QueueTypes, NEW l \in Lane, B!Deliver(l)
  PROVE  QueueTypes' /\ Head(queue[B!Source(l)]) \in Message
<1>1. B!Source(l) \in B!Queue /\ queue[B!Source(l)] \in Seq(Message) /\ queue[B!Source(l)] # <<>>
  BY QueueNames DEF QueueTypes, B!Deliver
<1>2. Head(queue[B!Source(l)]) \in Message /\ Tail(queue[B!Source(l)]) \in Seq(Message)
  BY <1>1, HeadTailProperties
<1> QED BY <1>1, <1>2 DEF QueueTypes, B!Deliver

LEMMA AckQueues == ASSUME QueueTypes, NEW l \in Lane, B!Ack(l) PROVE QueueTypes'
BY DEF QueueTypes, B!Ack

LEMMA UnsettledFinite ==
  ASSUME NEW w \in Worker, NEW p \in Priority
  PROVE  IsFiniteSet(B!Unsettled(w, p)) /\ B!Unsettled(w, p) \subseteq Lane
<1> DEFINE D == 1..Prefetch
           f == [i \in D |-> <<w, p, i>>]
           T == {w} \X {p} \X D
<1>1. IsFiniteSet(D)
  BY FS_Interval, PipelineAssumption
<1>2. f \in Surjection(D, T)
  BY DEF Surjection
<1>3. IsFiniteSet(T)
  BY <1>1, <1>2, FS_Surjection DEF ExistsSurjection
<1>4. B!Unsettled(w, p) \in SUBSET T
  BY DEF B!Unsettled
<1>5. T \subseteq Lane
  BY DEF Lane, B!Lane
<1> HIDE DEF T
<1> QED BY <1>3, <1>4, <1>5, FS_Subset

LEMMA SameCardinality == ASSUME NEW S PROVE B!Cardinality(S) = Cardinality(S)
BY DEF B!Cardinality, Cardinality

LEMMA DisconnectQueues ==
  ASSUME QueueTypes, NEW w \in Worker, B!Disconnect(w) PROVE QueueTypes'
<1>1. PICK order \in B!Orders(w) :
        queue' = [q \in B!Queue |->
                    IF q \in B!TaskQueues
                      THEN [i \in DOMAIN order[q[2]] |-> held[order[q[2]][i]]] \o queue[q]
                      ELSE queue[q]]
  BY DEF B!Disconnect
<1>2. ASSUME NEW p \in Priority
      PROVE  [i \in DOMAIN order[p] |-> held[order[p][i]]] \in Seq(Message)
  <2> DEFINE U == B!Unsettled(w, p)
  <2>1. order[p] \in B!SetToSeqs(U)
    BY <1>2 DEF B!Orders
  <2>2. Cardinality(U) \in Nat
    BY UnsettledFinite, FS_CardinalityType
  <2>3. order[p] \in [1..Cardinality(U) -> U]
    BY <2>1, SameCardinality DEF B!SetToSeqs
  <2>4. \A l \in U : held[l] \in Message
    BY UnsettledFinite DEF B!Unsettled, QueueTypes
  <2>5. [i \in DOMAIN order[p] |-> held[order[p][i]]] \in [1..Cardinality(U) -> Message]
    BY <2>3, <2>4
  <2> QED BY <2>2, <2>5, IsASeq
<1>3. ASSUME NEW q \in B!Queue PROVE queue'[q] \in Seq(Message)
  <2>1. queue[q] \in Seq(Message)
    BY DEF QueueTypes
  <2>2. CASE q \in B!TaskQueues
    <3>1. PICK p \in Priority : q[2] = p
      BY <2>2, QueueNames
    <3>2. queue'[q] = [i \in DOMAIN order[p] |-> held[order[p][i]]] \o queue[q]
      BY <1>1, <2>2, <3>1
    <3> QED BY <1>2, <2>1, <3>2, ConcatProperties
  <2>3. CASE q \notin B!TaskQueues
    BY <1>1, <2>1, <2>3
  <2> QED BY <2>2, <2>3
<1>4. held' \in [Lane -> Message \cup {Nothing}]
  BY DEF B!Disconnect, B!Released, QueueTypes, Lane
<1>5. queue' \in [B!Queue -> Seq(Message)]
  BY <1>1, <1>3
<1> QED BY <1>4, <1>5 DEF QueueTypes

-----------------------------------------------------------------------------
(* Deliveries and jobs.  `Agreement` is the inductive strengthening of      *)
(* DeliveriesMatchJobs: a process that is down runs nothing, so that it     *)
(* starts without deliveries, and a lane at work holds a message.           *)

BusyHasJob == \A l \in Lane : W!Busy(l) => job[l].msg \in Message
DownIsIdle == \A l \in Lane : proc[l[1]] = "down" => job[l].msg = Nothing

Agreement == W!WorkerTypeOK /\ QueueTypes /\ BusyHasJob /\ DownIsIdle /\ DeliveriesMatchJobs

LEMMA WorkerShape ==
  ASSUME W!WorkerTypeOK
  PROVE  /\ proc \in [Worker -> W!ProcState]
         /\ job \in [Lane -> [pc: {"idle", "sending", "waiting", "executing"},
                              msg: Message \cup {Nothing},
                              next: {"RUNNING", "COMPLETED", "FAILED", "RETRYING"}]]
         /\ \A l \in Lane : l[1] \in Worker
BY DEF W!WorkerTypeOK, W!Job, Lane, B!Lane

LEMMA IdleJobType == W!IdleJob \in W!Job /\ W!IdleJob.pc = "idle" /\ W!IdleJob.msg = Nothing
BY DEF W!IdleJob, W!Job

\* A step that changes one lane's job but not its message, nor the deliveries.
LEMMA SameMessage ==
  ASSUME Agreement, UNCHANGED <<queue, held, proc>>, NEW l \in Lane, W!Busy(l), NEW j \in W!Job,
         j.msg = job[l].msg, job' = [job EXCEPT ![l] = j]
  PROVE  Agreement'
<1>1. W!WorkerTypeOK'
  BY DEF Agreement, W!WorkerTypeOK, Lane
<1>2. \A k \in Lane : job'[k].msg = job[k].msg /\ (W!Busy(k)' => W!Busy(k))
  BY DEF Agreement, W!WorkerTypeOK, Lane, W!Busy
<1>3. BusyHasJob' /\ DownIsIdle' /\ DeliveriesMatchJobs'
  BY <1>2 DEF Agreement, BusyHasJob, DownIsIdle, DeliveriesMatchJobs, Lane
<1> QED BY <1>1, <1>3 DEF Agreement, QueueTypes

LEMMA ReportStepAgrees ==
  ASSUME Agreement, UNCHANGED <<queue, held>>, NEW l \in Lane,
         W!Call(l) \/ W!Proceed(l) \/ W!Execute(l)
  PROVE  Agreement'
<1>1. job[l] \in W!Job
  BY DEF Agreement, W!WorkerTypeOK, Lane
<1>2. CASE W!Call(l)
  <2> DEFINE j == [job[l] EXCEPT !.pc = "waiting"]
  <2>1. j \in W!Job /\ j.msg = job[l].msg /\ job' = [job EXCEPT ![l] = j] /\ proc' = proc
    BY <1>1, <1>2 DEF W!Call, W!Job
  <2> QED BY <1>2, <2>1, SameMessage DEF W!Call, W!Busy
<1>3. CASE W!Proceed(l)
  <2> DEFINE j == [job[l] EXCEPT !.pc = "executing"]
  <2>1. j \in W!Job /\ j.msg = job[l].msg /\ job' = [job EXCEPT ![l] = j] /\ proc' = proc
    BY <1>1, <1>3 DEF W!Proceed, W!Job
  <2> QED BY <1>3, <2>1, SameMessage DEF W!Proceed, W!Reporting, W!Busy
<1>4. CASE W!Execute(l)
  <2> PICK o \in W!Outcomes(job[l].msg) : job' = [job EXCEPT ![l].pc = "sending", ![l].next = o]
    BY <1>4 DEF W!Execute
  <2> DEFINE j == [job[l] EXCEPT !.pc = "sending", !.next = o]
  <2>1. o \in {"COMPLETED", "FAILED", "RETRYING"}
    BY DEF W!Outcomes
  <2>2. j \in W!Job /\ j.msg = job[l].msg /\ job' = [job EXCEPT ![l] = j] /\ proc' = proc
    BY <1>1, <1>4, <2>1 DEF W!Execute, W!Job, Agreement, W!WorkerTypeOK, Lane
  <2> QED BY <1>4, <2>2, SameMessage DEF W!Execute, W!Busy
<1> QED BY <1>2, <1>3, <1>4

LEMMA TakeAgrees == ASSUME Agreement, NEW l \in Lane, TakeJob(l) PROVE Agreement'
<1> DEFINE m == Head(queue[B!Source(l)])
           j == [pc |-> "sending", msg |-> m, next |-> "RUNNING"]
<1>1. QueueTypes' /\ m \in Message
  BY DeliverQueues DEF Agreement, TakeJob
<1>2. /\ proc[l[1]] = "consuming" /\ proc' = proc
      /\ job' = [job EXCEPT ![l] = j] /\ held' = [held EXCEPT ![l] = m]
  BY DEF TakeJob, W!Take, B!Deliver, W!Owner
<1>3. j \in W!Job /\ j.msg = m
  BY <1>1 DEF W!Job
<1> HIDE DEF j, m
<1>4. W!WorkerTypeOK'
  BY <1>2, <1>3 DEF Agreement, W!WorkerTypeOK, Lane
<1>5. \A k \in Lane : IF k = l THEN job'[k].msg = m /\ held'[k] = m
                              ELSE job'[k] = job[k] /\ held'[k] = held[k]
  BY <1>2, <1>3 DEF Agreement, W!WorkerTypeOK, QueueTypes, Lane
<1>6. BusyHasJob' /\ DownIsIdle' /\ DeliveriesMatchJobs'
  BY <1>1, <1>2, <1>5 DEF Agreement, BusyHasJob, DownIsIdle, DeliveriesMatchJobs, W!Busy, Lane
<1> QED BY <1>1, <1>4, <1>6 DEF Agreement

LEMMA SettleAgrees ==
  ASSUME Agreement, NEW l \in Lane, W!Settle(l), B!Ack(l) PROVE Agreement'
<1>1. /\ proc' = proc /\ queue' = queue
      /\ job' = [job EXCEPT ![l] = W!IdleJob] /\ held' = [held EXCEPT ![l] = Nothing]
  BY DEF W!Settle, B!Ack
<1>2. W!WorkerTypeOK' /\ QueueTypes'
  BY <1>1, AckQueues, IdleJobType DEF Agreement, W!WorkerTypeOK, Lane
<1>3. \A k \in Lane : IF k = l THEN job'[k] = W!IdleJob /\ held'[k] = Nothing
                              ELSE job'[k] = job[k] /\ held'[k] = held[k]
  BY <1>1 DEF Agreement, W!WorkerTypeOK, QueueTypes, Lane
<1>4. BusyHasJob' /\ DownIsIdle' /\ DeliveriesMatchJobs'
  BY <1>1, <1>3, IdleJobType
     DEF Agreement, BusyHasJob, DownIsIdle, DeliveriesMatchJobs, W!Busy, Lane
<1> QED BY <1>2, <1>4 DEF Agreement

LEMMA StartAgrees == ASSUME Agreement, NEW w \in Worker, StartWorker(w) PROVE Agreement'
<1>1. /\ proc[w] = "down" /\ proc' = [proc EXCEPT ![w] = "consuming"]
      /\ UNCHANGED <<job, queue, held>>
  BY DEF StartWorker, W!Start, brokerVars
<1>2. W!WorkerTypeOK' /\ QueueTypes'
  BY <1>1 DEF Agreement, W!WorkerTypeOK, W!ProcState, QueueTypes, Lane
<1>3. \A l \in Lane : l[1] = w => held[l] = Nothing /\ job[l].msg = Nothing
  BY <1>1 DEF Agreement, DownIsIdle, DeliveriesMatchJobs
<1>4. BusyHasJob' /\ DownIsIdle' /\ DeliveriesMatchJobs'
  BY <1>1, <1>3, WorkerShape
     DEF Agreement, BusyHasJob, DownIsIdle, DeliveriesMatchJobs, W!Busy, Lane, W!ProcState
<1> QED BY <1>2, <1>4 DEF Agreement

\* The end of a process, with its deliveries returned or already gone.
LEMMA DeathAgrees ==
  ASSUME Agreement, NEW w \in Worker, W!Die(w), QueueTypes',
         \A l \in Lane : held'[l] = IF l[1] = w THEN Nothing ELSE held[l]
  PROVE  Agreement'
<1>1. /\ proc' = [proc EXCEPT ![w] = "down"]
      /\ job' = [l \in Lane |-> IF l[1] = w THEN W!IdleJob ELSE job[l]]
  BY DEF W!Die, W!Owner, Lane
<1>2. W!WorkerTypeOK'
  BY <1>1, IdleJobType DEF Agreement, W!WorkerTypeOK, W!ProcState, Lane
<1>3. BusyHasJob' /\ DownIsIdle' /\ DeliveriesMatchJobs'
  BY <1>1, IdleJobType, WorkerShape
     DEF Agreement, BusyHasJob, DownIsIdle, DeliveriesMatchJobs, W!Busy, Lane, W!ProcState
<1> QED BY <1>2, <1>3 DEF Agreement

LEMMA ReleasedLanes ==
  ASSUME NEW w \in Worker, B!Disconnect(w)
  PROVE  \A l \in Lane : held'[l] = IF l[1] = w THEN Nothing ELSE held[l]
BY DEF B!Disconnect, B!Released, B!LanesOf, Lane, B!Lane

\* A process whose connection is gone but which goes on.
LEMMA DropAgrees ==
  ASSUME Agreement, NEW w \in Worker, B!Disconnect(w), NEW st \in {"deaf", "closing"},
         proc' = [proc EXCEPT ![w] = st], job' = job
  PROVE  Agreement'
<1>1. QueueTypes'
  BY DisconnectQueues DEF Agreement
<1>2. W!WorkerTypeOK'
  BY DEF Agreement, W!WorkerTypeOK, W!ProcState, Lane
<1>3. BusyHasJob' /\ DownIsIdle' /\ DeliveriesMatchJobs'
  BY ReleasedLanes, WorkerShape
     DEF Agreement, BusyHasJob, DownIsIdle, DeliveriesMatchJobs, W!Busy, Lane, W!ProcState
<1> QED BY <1>1, <1>2, <1>3 DEF Agreement

LEMMA ResumeAgrees == ASSUME Agreement, NEW l \in Lane, NEW left, Resume(l, left) PROVE Agreement'
<1>1. CASE W!Proceed(l) /\ UNCHANGED brokerVars
  BY <1>1, ReportStepAgrees DEF brokerVars
<1>2. CASE W!Settle(l) /\ B!Ack(l)
  BY <1>2, SettleAgrees
<1>3. CASE W!SettleClosed(l) /\ UNCHANGED brokerVars
  <2>1. l[1] \in Worker /\ W!Die(l[1]) /\ proc[l[1]] # "consuming"
    BY <1>3, WorkerShape DEF Agreement, W!SettleClosed, W!Owner
  <2>2. \A k \in Lane : held'[k] = IF k[1] = l[1] THEN Nothing ELSE held[k]
    BY <1>3, <2>1 DEF Agreement, DeliveriesMatchJobs, brokerVars
  <2> QED BY <1>3, <2>1, <2>2, DeathAgrees DEF brokerVars, QueueTypes, Agreement
<1> QED BY <1>1, <1>2, <1>3 DEF Resume

LEMMA SameWorkers ==
  ASSUME Agreement, UNCHANGED <<held, proc, job>>, QueueTypes' PROVE Agreement'
BY DEF Agreement, W!WorkerTypeOK, BusyHasJob, DownIsIdle, DeliveriesMatchJobs, W!Busy, Lane

\* A message that reaches the broker is a message.
LEMMA ToBrokerAgrees == ASSUME Agreement, TypeOK, ToBroker PROVE Agreement'
<1>1. Head(outbox) \in Message
  BY HeadTailProperties DEF TypeOK, ToBroker, Flush
<1>2. B!Publish(Head(outbox)) /\ UNCHANGED <<proc, job>>
  BY DEF ToBroker, workerVars
<1>3. QueueTypes' /\ held' = held
  BY <1>1, <1>2, PublishQueues DEF Agreement, B!Publish
<1> QED BY <1>2, <1>3, SameWorkers

LEMMA RetryDueAgrees == ASSUME Agreement, NEW n \in B!Tier, RetryDue(n) PROVE Agreement'
<1>1. QueueTypes' /\ UNCHANGED <<held, proc, job>>
  BY ExpireQueues DEF Agreement, RetryDue, B!Expire, workerVars
<1> QED BY <1>1, SameWorkers

LEMMA ApiAgrees == ASSUME Agreement, UNCHANGED <<brokerVars, workerVars>> PROVE Agreement'
BY SameWorkers DEF brokerVars, workerVars, Agreement, QueueTypes

LEMMA WorkerLossAgrees ==
  ASSUME Agreement, NEW w \in Worker, WorkerCrash(w) \/ WorkerDrop(w) \/ WorkerShutdown(w)
  PROVE  Agreement'
<1>1. CASE WorkerCrash(w)
  <2>1. W!Die(w) /\ B!Disconnect(w)
    BY <1>1 DEF WorkerCrash
  <2> QED BY <2>1, DisconnectQueues, ReleasedLanes, DeathAgrees DEF Agreement
<1>2. CASE WorkerDrop(w)
  BY <1>2, DropAgrees DEF WorkerDrop, W!ConnectionDrop
<1>3. CASE WorkerShutdown(w)
  BY <1>3, DropAgrees DEF WorkerShutdown, W!Shutdown
<1> QED BY <1>1, <1>2, <1>3

LEMMA WorkerExitAgrees == ASSUME Agreement, NEW w \in Worker, WorkerExit(w) PROVE Agreement'
<1>1. W!Die(w) /\ proc[w] = "closing" /\ UNCHANGED <<queue, held>>
  BY DEF WorkerExit, W!Exit, brokerVars
<1>2. \A l \in Lane : held'[l] = IF l[1] = w THEN Nothing ELSE held[l]
  BY <1>1 DEF Agreement, DeliveriesMatchJobs
<1> QED BY <1>1, <1>2, DeathAgrees DEF Agreement, QueueTypes

-----------------------------------------------------------------------------
(* The steps of the pipeline                                                *)

LEMMA StepAgrees == ASSUME Agreement, TypeOK, PipelineNext PROVE Agreement'
<1>1. CASE Progress
  <2>1. ASSUME NEW s \in Request, ApiStep(s) PROVE Agreement'
    BY <2>1, ApiAgrees DEF ApiStep
  <2>2. ASSUME NEW l \in Lane,
               TakeJob(l) \/ RunJob(l) \/ ReportIgnored(l) \/ ReportAnswered(l)
        PROVE  Agreement'
    BY <2>2, TakeAgrees, ReportStepAgrees, ResumeAgrees
       DEF RunJob, ReportIgnored, ReportAnswered, brokerVars
  <2>3. ASSUME NEW l \in Lane, NEW s \in Request, ReportArrives(l, s) PROVE Agreement'
    BY <2>3, ReportStepAgrees DEF ReportArrives, brokerVars
  <2> QED BY <1>1, <2>1, <2>2, <2>3, ToBrokerAgrees, RetryDueAgrees, StartAgrees, WorkerExitAgrees
          DEF Progress
<1>2. CASE Outside
  <2>1. ASSUME NEW s \in Request,
               Create(s) \/ StatementFails(s) \/ \E t \in TaskId : Operate(s, t)
        PROVE  Agreement'
    BY <2>1, ApiAgrees DEF Create, StatementFails, Operate
  <2>2. CASE ApiDies \/ BufferLost
    BY <2>2, ApiAgrees DEF ApiDies, BufferLost
  <2>3. ASSUME NEW l \in Lane, ReportFails(l) \/ ReportTimesOut(l) \/ ReportOverdue(l)
        PROVE  Agreement'
    BY <2>3, ResumeAgrees DEF ReportFails, ReportTimesOut, ReportOverdue
  <2>4. ASSUME NEW r \in late, NEW s \in Request, LateReportArrives(r, s) PROVE Agreement'
    BY <2>4, ApiAgrees DEF LateReportArrives
  <2> QED BY <1>2, <2>1, <2>2, <2>3, <2>4, WorkerLossAgrees DEF Outside
<1> QED BY <1>1, <1>2 DEF PipelineNext

\* A lane at work reports something of a task.
LEMMA JobsOfTasks ==
  ASSUME Agreement, NEW l \in Lane
  PROVE  /\ job[l].next \in Reportable
         /\ W!Busy(l) => job[l].msg \in Message /\ TaskOf(l) \in TaskId
<1>1. job[l].next \in Reportable
  BY WorkerShape DEF Agreement, Reportable
<1>2. W!Busy(l) => job[l].msg \in Message
  BY DEF Agreement, BusyHasJob
<1> QED BY <1>1, <1>2 DEF TaskOf, Message

LateTypes == late \subseteq TaskId \X Reportable

\* What a step of the pipeline does to the tasks table, the handlers and the
\* write buffer is a step of the command handlers, or nothing.
LEMMA PipelineStepIsCommandStep == Agreement /\ LateTypes /\ PipelineNext => [Next]_vars
<1> SUFFICES ASSUME Agreement, LateTypes, PipelineNext PROVE [Next]_vars
  OBVIOUS
<1>1. CASE Progress
  <2>1. ASSUME NEW s \in Request, ApiStep(s) PROVE Next
    BY <2>1 DEF ApiStep, Next
  <2>2. ASSUME NEW l \in Lane, TakeJob(l) \/ RunJob(l) \/ ReportIgnored(l) \/ ReportAnswered(l)
        PROVE  UNCHANGED vars
    BY <2>2 DEF TakeJob, RunJob, ReportIgnored, ReportAnswered, apiVars, vars
  <2>3. ASSUME NEW l \in Lane, NEW s \in Request, ReportArrives(l, s) PROVE Next
    <3>1. W!Busy(l) /\ ReportRead(s, TaskOf(l), job[l].next)
      BY <2>3 DEF ReportArrives, W!Call, W!Busy
    <3> QED BY <3>1, JobsOfTasks DEF Next, Arrive
  <2>4. ToBroker => Next
    BY DEF ToBroker, Next
  <2>5. ASSUME NEW n \in B!Tier, RetryDue(n) PROVE UNCHANGED vars
    BY <2>5 DEF RetryDue, apiVars, vars
  <2>6. ASSUME NEW w \in Worker, StartWorker(w) \/ WorkerExit(w) PROVE UNCHANGED vars
    BY <2>6 DEF StartWorker, WorkerExit, apiVars, vars
  <2> QED BY <1>1, <2>1, <2>2, <2>3, <2>4, <2>5, <2>6 DEF Progress
<1>2. CASE Outside
  <2>1. ASSUME NEW s \in Request, Create(s) PROVE Next
    <3> PICK p \in Priority, m \in MaxRetries : CreateUnkeyed(s, p, m)
      BY <2>1 DEF Create
    <3> QED BY DEF Next, Arrive
  <2>2. ASSUME NEW s \in Request, NEW t \in TaskId, Operate(s, t) PROVE Next
    <3>1. CASE CancelRead(s, t) \/ RetryRead(s, t) \/ DeleteRead(s, t)
      BY <3>1 DEF Next, Arrive
    <3>2. CASE \E p \in Priority, m \in MaxRetries : UpdateRead(s, t, p, m)
      BY <3>2 DEF Next, Arrive
    <3> QED BY <2>2, <3>1, <3>2 DEF Operate
  <2>3. ASSUME NEW s \in Request, StatementFails(s) PROVE Next
    BY <2>3 DEF StatementFails, Next
  <2>4. ApiDies \/ BufferLost => Next
    BY DEF ApiDies, BufferLost, Next
  <2>5. ASSUME NEW l \in Lane, ReportFails(l) \/ ReportTimesOut(l) \/ ReportOverdue(l)
        PROVE  UNCHANGED vars
    BY <2>5 DEF ReportFails, ReportTimesOut, ReportOverdue, apiVars, vars
  <2>6. ASSUME NEW w \in Worker, WorkerCrash(w) \/ WorkerDrop(w) \/ WorkerShutdown(w)
        PROVE  UNCHANGED vars
    BY <2>6 DEF WorkerCrash, WorkerDrop, WorkerShutdown, apiVars, vars
  <2>7. ASSUME NEW r \in late, NEW s \in Request, LateReportArrives(r, s) PROVE Next
    <3>1. r[1] \in TaskId /\ r[2] \in Reportable /\ ReportRead(s, r[1], r[2])
      BY <2>7 DEF LateReportArrives, LateTypes
    <3> QED BY <3>1 DEF Next, Arrive
  <2> QED BY <1>2, <2>1, <2>2, <2>3, <2>4, <2>5, <2>6, <2>7 DEF Outside
<1> QED BY <1>1, <1>2 DEF PipelineNext

LEMMA InitAgrees == PipelineInit => Agreement
<1> SUFFICES ASSUME PipelineInit PROVE Agreement
  OBVIOUS
<1>1. \A l \in Lane : l[1] \in Worker /\ job[l] = W!IdleJob /\ proc[l[1]] = "down" /\ held[l] = Nothing
  BY DEF PipelineInit, W!WorkerInit, Lane, B!Lane
<1>2. W!WorkerTypeOK
  BY IdleJobType DEF PipelineInit, W!WorkerInit, W!WorkerTypeOK, W!ProcState
<1>3. QueueTypes
  BY EmptySeq DEF PipelineInit, QueueTypes
<1> QED BY <1>1, <1>2, <1>3, IdleJobType
        DEF Agreement, BusyHasJob, DownIsIdle, DeliveriesMatchJobs, W!Busy

-----------------------------------------------------------------------------
(* The rest of the type invariant: who awaits which answer, the reports      *)
(* nobody awaits, the budget and the history                                 *)

CallerTypes == caller \in [Request -> Lane \cup {NoLane}]
MarkTypes == marks \in [TaskId -> SUBSET Mark]
Books == CallerTypes /\ budget \in 0..Budget /\ LateTypes /\ MarkTypes

LEMMA ForgetType == ASSUME CallerTypes, NEW lanes, Forget(lanes) PROVE CallerTypes'
BY DEF Forget, CallerTypes

LEMMA SpendType ==
  ASSUME budget \in 0..Budget, NEW kind, Disturb(kind) PROVE budget' \in 0..Budget
BY PipelineAssumption DEF Disturb

LEMMA NoteType ==
  ASSUME MarkTypes, NEW t, NEW kinds \in SUBSET Mark, Note(t, kinds) PROVE MarkTypes'
BY DEF MarkTypes, Note

LEMMA MetType == \A t : Met(t) \in SUBSET Mark
BY DEF Met, Mark

LEMMA SentTypes ==
  ASSUME Agreement, NEW lanes \in SUBSET Lane PROVE Sent(lanes) \subseteq TaskId \X Reportable
<1>1. \A l \in lanes : job[l].pc = "sending" => TaskOf(l) \in TaskId /\ job[l].next \in Reportable
  BY JobsOfTasks DEF W!Busy
<1> QED BY <1>1 DEF Sent

LEMMA WorkersLanes == \A w \in Worker : LanesOf(w) \in SUBSET Lane
BY DEF LanesOf, Lane, B!LanesOf, B!Lane

LEMMA ResumeType ==
  ASSUME Agreement, CallerTypes, LateTypes, NEW l \in Lane,
         NEW left \in SUBSET (TaskId \X Reportable), Resume(l, left)
  PROVE  CallerTypes' /\ LateTypes'
<1>1. CallerTypes'
  BY ForgetType DEF Resume
<1>2. LanesOf(l[1]) \ {l} \in SUBSET Lane
  BY WorkersLanes, WorkerShape DEF Agreement
<1>3. Sent(LanesOf(l[1]) \ {l}) \subseteq TaskId \X Reportable
  BY <1>2, SentTypes
<1>4. late' \subseteq late \cup left \cup Sent(LanesOf(l[1]) \ {l})
  BY DEF Resume
<1> QED BY <1>1, <1>3, <1>4 DEF LateTypes

LEMMA BooksStep == ASSUME Books, Agreement, IInv, PipelineNext PROVE Books'
<1> USE DEF Books
<1>1. CASE Progress
  <2>1. ASSUME NEW s \in Request, ApiStep(s) PROVE Books'
    <3>1. budget' \in 0..Budget /\ LateTypes'
      BY <2>1, SpendType DEF ApiStep, LateTypes
    <3>2. CallerTypes'
      BY <2>1 DEF CallerTypes, ApiStep
    <3>3. MarkTypes'
      BY <2>1, NoteType DEF ApiStep, Mark, MarkTypes
    <3> QED BY <3>1, <3>2, <3>3
  <2>2. ASSUME NEW l \in Lane, TakeJob(l) \/ RunJob(l) \/ ReportIgnored(l) \/ ReportAnswered(l)
        PROVE  Books'
    <3>1. CASE TakeJob(l) \/ RunJob(l)
      BY <3>1 DEF TakeJob, RunJob, notes, CallerTypes, LateTypes, MarkTypes
    <3>2. CASE ReportIgnored(l) \/ ReportAnswered(l)
      <4>1. Resume(l, {}) /\ budget' = budget /\ (\/ marks' = marks \/ Note(TaskOf(l), Met(TaskOf(l))))
        BY <3>2 DEF ReportIgnored, ReportAnswered
      <4>2. MarkTypes'
        BY <4>1, NoteType, MetType DEF MarkTypes
      <4> QED BY <4>1, <4>2, ResumeType
    <3> QED BY <2>2, <3>1, <3>2
  <2>3. ASSUME NEW l \in Lane, NEW s \in Request, ReportArrives(l, s) PROVE Books'
    BY <2>3, NoteType, MetType DEF ReportArrives, CallerTypes, LateTypes
  <2>4. ToBroker => Books'
    BY DEF ToBroker, notes, CallerTypes, LateTypes, MarkTypes
  <2>5. ASSUME NEW n \in B!Tier, RetryDue(n) PROVE Books'
    BY <2>5 DEF RetryDue, notes, CallerTypes, LateTypes, MarkTypes
  <2>6. ASSUME NEW w \in Worker, StartWorker(w) PROVE Books'
    BY <2>6 DEF StartWorker, notes, CallerTypes, LateTypes, MarkTypes
  <2>7. ASSUME NEW w \in Worker, WorkerExit(w) PROVE Books'
    BY <2>7, ForgetType, SentTypes, WorkersLanes DEF WorkerExit, LateTypes, MarkTypes
  <2> QED BY <1>1, <2>1, <2>2, <2>3, <2>4, <2>5, <2>6, <2>7 DEF Progress
<1>2. CASE Outside
  <2>1. ASSUME NEW s \in Request, Create(s) PROVE Books'
    BY <2>1 DEF Create, notes, CallerTypes, LateTypes, MarkTypes
  <2>2. ASSUME NEW s \in Request, NEW t \in TaskId, Operate(s, t) PROVE Books'
    <3>1. Met(t) \in SUBSET Mark /\ Met(t) \cup {"retry"} \in SUBSET Mark
      BY MetType DEF Mark
    <3>2. MarkTypes' /\ budget' \in 0..Budget
      BY <2>2, <3>1, NoteType, SpendType DEF Operate
    <3> QED BY <2>2, <3>2 DEF Operate, CallerTypes, LateTypes
  <2>3. ASSUME NEW s \in Request, StatementFails(s) PROVE Books'
    <3>1. MarkTypes' /\ budget' \in 0..Budget
      BY <2>3, NoteType, SpendType DEF StatementFails, Mark
    <3> QED BY <2>3, <3>1 DEF StatementFails, CallerTypes, LateTypes
  <2>4. CASE ApiDies
    <3>1. MarkTypes'
      BY <2>4 DEF ApiDies, MarkTypes, Mark
    <3> QED BY <2>4, <3>1, SpendType, ForgetType DEF ApiDies, LateTypes
  <2>5. CASE BufferLost
    BY <2>5, SpendType DEF BufferLost, CallerTypes, LateTypes, MarkTypes
  <2>6. ASSUME NEW l \in Lane, ReportFails(l) \/ ReportTimesOut(l) \/ ReportOverdue(l)
        PROVE  Books'
    <3>1. Sent({l}) \in SUBSET (TaskId \X Reportable)
      BY SentTypes
    <3>2. \E left \in SUBSET (TaskId \X Reportable) : Resume(l, left)
      BY <2>6, <3>1 DEF ReportFails, ReportTimesOut, ReportOverdue
    <3>3. MarkTypes' /\ budget' \in 0..Budget
      BY <2>6, NoteType, SpendType DEF ReportFails, ReportTimesOut, ReportOverdue, Mark, MarkTypes
    <3> QED BY <3>2, <3>3, ResumeType
  <2>7. ASSUME NEW w \in Worker, WorkerCrash(w) PROVE Books'
    BY <2>7, SpendType, ForgetType, SentTypes, WorkersLanes DEF WorkerCrash, LateTypes, MarkTypes
  <2>8. ASSUME NEW w \in Worker, WorkerDrop(w) \/ WorkerShutdown(w) PROVE Books'
    BY <2>8, SpendType DEF WorkerDrop, WorkerShutdown, CallerTypes, LateTypes, MarkTypes
  <2>9. ASSUME NEW r \in late, NEW s \in Request, LateReportArrives(r, s) PROVE Books'
    BY <2>9, NoteType, MetType DEF LateReportArrives, CallerTypes, LateTypes
  <2> QED BY <1>2, <2>1, <2>2, <2>3, <2>4, <2>5, <2>6, <2>7, <2>8, <2>9 DEF Outside
<1> QED BY <1>1, <1>2 DEF PipelineNext

\* The inductive invariant of the pipeline.
LEMMA PipelineInvariant == PipelineSpec => [](Agreement /\ IInv /\ Books)
<1>1. PipelineInit => Agreement /\ IInv /\ Books
  <2>1. PipelineInit => Books
    BY PipelineAssumption DEF PipelineInit, Books, CallerTypes, LateTypes, MarkTypes
  <2> QED BY <2>1, InitAgrees, InitInv DEF PipelineInit
<1>2. Agreement /\ IInv /\ Books /\ [PipelineNext]_pipelineVars => Agreement' /\ IInv' /\ Books'
  <2> SUFFICES ASSUME Agreement, IInv, Books, [PipelineNext]_pipelineVars
               PROVE  Agreement' /\ IInv' /\ Books'
    OBVIOUS
  <2>1. CASE PipelineNext
    BY <2>1, StepAgrees, PipelineStepIsCommandStep, StepInv, BooksStep DEF IInv, Books
  <2>2. CASE UNCHANGED pipelineVars
    <3>1. UNCHANGED vars /\ UNCHANGED <<brokerVars, workerVars>> /\ UNCHANGED <<caller, notes>>
      BY <2>2 DEF pipelineVars, apiVars, vars
    <3>2. Books'
      BY <3>1 DEF Books, notes, CallerTypes, LateTypes, MarkTypes
    <3> QED BY <3>1, <3>2, ApiAgrees, StepInv
  <2> QED BY <2>1, <2>2
<1> QED BY <1>1, <1>2, PTL DEF PipelineSpec

-----------------------------------------------------------------------------
(* The theorems                                                             *)

\* The state of API, broker and workers is well formed.
THEOREM PipelineTypeCorrectness == PipelineSpec => []PipelineTypeOK
<1>1. Agreement /\ IInv /\ Books => PipelineTypeOK
  BY DEF Agreement, QueueTypes, Books, CallerTypes, LateTypes, MarkTypes, IInv, PipelineTypeOK
<1> QED BY <1>1, PipelineInvariant, PTL

\* The pipeline refines the command handlers: whatever workers, broker and
\* faults do, the API's state changes as TaskCommands lets it, so every theorem
\* of TaskCommandsProofs holds of the whole system.
THEOREM PipelineRefinesCommands == PipelineSpec => Spec
<1>1. PipelineInit => Init
  BY DEF PipelineInit
<1>2. Agreement /\ Books /\ [PipelineNext]_pipelineVars => [Next]_vars
  <2>1. UNCHANGED pipelineVars => UNCHANGED vars
    BY DEF pipelineVars, apiVars, vars
  <2> QED BY <2>1, PipelineStepIsCommandStep DEF Books
<1> QED BY <1>1, <1>2, PipelineInvariant, PTL DEF PipelineSpec, Spec

\* What the broker counts as delivered to a lane is what its process is working
\* on, through redeliveries, lost connections, shutdowns and crashes.
THEOREM DeliveriesMatch == PipelineSpec => []DeliveriesMatchJobs
<1>1. Agreement => DeliveriesMatchJobs
  BY DEF Agreement
<1> QED BY <1>1, PipelineInvariant, PTL

\* What is proved of the handlers therefore holds with workers, broker and
\* faults around them: finished tasks are dated, keys are unique, deleted tasks
\* stay deleted, and only stale unconditional updates leave the table.
THEOREM PipelineKeepsTheCommandsProperties ==
  PipelineSpec => /\ []TerminalHasCompletedAt /\ []KeyNamesOneTask
                  /\ DeletedStaysDeleted /\ OnlyStaleWritesBreakTheTable
BY PipelineRefinesCommands, FinishedIsDated, KeysAreUnique, DeletedForGood, StaleWritesOnly

-----------------------------------------------------------------------------
(* Handlers in turn.  As long as no two handlers have met on a task, at most *)
(* one is at work on it, and since no other touches its row, what it         *)
(* remembers of the row still holds.                                         *)

\* What is true of each slot, whatever meets: no insert waits for a lookup of its
\* key, a handler at work has a row, what it schedules is a retry, and who retries
\* the task by hand has left the mark.
Slotted(s) ==
  /\ req[s].pc # "create.insert"
  /\ IF Idle(s) THEN req[s].task = NoTask
                ELSE req[s].task \in TaskId /\ task[req[s].task].status # "ABSENT"
  /\ req[s].pc = "report.schedule" => req[s].count # 0
  /\ req[s].pc \in {"retry.write", "retry.publish"} => "retry" \in marks[req[s].task]

Alone(t) == \A s, u \in Request : req[s].task = t /\ req[u].task = t => s = u
Current(t) == \A s \in Request : req[s].task = t => Fresh(s)

HandlersInv ==
  /\ \A s \in Request : Slotted(s)
  /\ \A t \in TaskId : "overlap" \notin marks[t] => Alone(t) /\ Current(t)

LEMMA MarksGrow ==
  ASSUME Books, PipelineNext PROVE \A t \in TaskId : marks[t] \subseteq marks'[t]
<1>1. \/ UNCHANGED marks \/ ApiDies \/ \E t, kinds : Note(t, kinds)
  <2>1. CASE Progress
    BY <2>1 DEF Progress, ApiStep, ToBroker, RetryDue, TakeJob, RunJob, ReportIgnored, ReportAnswered,
       ReportArrives, StartWorker, WorkerExit, notes
  <2>2. CASE Outside
    BY <2>2 DEF Outside, Create, StatementFails, Operate, BufferLost, ReportFails, ReportTimesOut,
       ReportOverdue, LateReportArrives, WorkerCrash, WorkerDrop, WorkerShutdown, notes
  <2> QED BY <2>1, <2>2 DEF PipelineNext
<1>2. ApiDies => \A t \in TaskId : marks[t] \subseteq marks'[t]
  BY DEF ApiDies
<1>3. ASSUME NEW t, NEW kinds, Note(t, kinds) PROVE \A u \in TaskId : marks[u] \subseteq marks'[u]
  BY <1>3 DEF Note, Books, MarkTypes
<1> QED BY <1>1, <1>2, <1>3

Inserts(s, t) == Idle(s) /\ \E p \in Priority, m \in MaxRetries : InsertRow(s, t, NoKey, p, m)
Reads(s, t) ==
  \/ \E n \in Reportable : ReportRead(s, t, n)
  \/ CancelRead(s, t) \/ RetryRead(s, t) \/ DeleteRead(s, t)
  \/ \E p \in Priority, m \in MaxRetries : UpdateRead(s, t, p, m)
Noted(s, t) ==
  /\ Reads(s, t) /\ Met(t) \subseteq marks'[t]
  /\ req'[s].pc = "retry.write" => "retry" \in marks'[t]

LEMMA RememberArrives ==
  ASSUME TypeOK, NEW s \in Request, NEW pc, NEW t, NEW row, NEW n, Remember(s, pc, t, row, n)
  PROVE  /\ req'[s].pc = pc /\ req'[s].task = t /\ req'[s].next = n /\ req'[s].count = row.retryCount
         /\ \A u \in Request \ {s} : req'[u] = req[u]
BY DEF Remember, TypeOK

LEMMA InsertFacts ==
  ASSUME TypeOK, NEW s \in Request, NEW t \in TaskId, Inserts(s, t)
  PROVE  /\ Arrive(s) /\ Idle(s) /\ outbox' = outbox
         /\ task[t].status = "ABSENT" /\ task'[t].status = "PENDING"
         /\ \A u \in TaskId \ {t} : task'[u] = task[u]
         /\ req'[s].pc = "create.publish" /\ req'[s].task = t
         /\ \A u \in Request \ {s} : req'[u] = req[u]
<1>1. PICK p \in Priority, m \in MaxRetries : InsertRow(s, t, NoKey, p, m)
  BY DEF Inserts
<1>2. Arrive(s) /\ Idle(s)
  BY <1>1 DEF Arrive, CreateUnkeyed, Inserts
<1> QED BY <1>1, <1>2, RememberArrives DEF InsertRow, TypeOK

LEMMA ReadFacts ==
  ASSUME TypeOK, NEW s \in Request, NEW t \in TaskId, Reads(s, t)
  PROVE  /\ Arrive(s) /\ Idle(s) /\ Exists(t) /\ task[t].status # "ABSENT"
         /\ UNCHANGED <<task, outbox>>
         /\ req'[s].task = t
         /\ \A u \in Request \ {s} : req'[u] = req[u]
         /\ \/ req'[s].pc \in {"cancel.write", "retry.write", "delete.write", "update.write"}
            \/ /\ req'[s].pc = "report.write" /\ req'[s].next \in Reportable
               /\ CanTransition(task[t].status, req'[s].next)
<1>1. Arrive(s)
  BY DEF Arrive, Reads
<1>2. /\ Idle(s) /\ Exists(t) /\ task[t].status # "ABSENT"
      /\ UNCHANGED <<task, outbox>>
  BY DEF Reads, ReportRead, CancelRead, RetryRead, DeleteRead, UpdateRead, Exists, TaskStatus
<1>3. CASE \E n \in Reportable : ReportRead(s, t, n)
  BY <1>1, <1>2, <1>3, RememberArrives DEF ReportRead
<1>4. CASE ~\E n \in Reportable : ReportRead(s, t, n)
  <2>1. PICK pc \in {"cancel.write", "retry.write", "delete.write", "update.write"} :
          \E row, n : Remember(s, pc, t, row, n)
    BY <1>4 DEF Reads, CancelRead, RetryRead, DeleteRead, UpdateRead
  <2> QED BY <1>1, <1>2, <2>1, RememberArrives
<1> QED BY <1>3, <1>4

\* What a step of the pipeline is to the handlers.
LEMMA HandlerSteps ==
  ASSUME Agreement, IInv, Books, PipelineNext
  PROVE  \/ UNCHANGED <<task, req>>
         \/ ApiDies /\ ApiCrash
         \/ \E s \in Request : (ApiStep(s) /\ Continue(s)) \/ (StatementFails(s) /\ DbError(s))
         \/ \E s \in Request, t \in TaskId : Inserts(s, t) \/ Noted(s, t)
<1>0. TypeOK
  BY DEF IInv
<1>1. ASSUME NEW t \in TaskId, NEW kinds, Note(t, kinds) PROVE kinds \subseteq marks'[t]
  BY <1>1 DEF Note, Books, MarkTypes
<1>2. CASE Progress
  <2>1. ASSUME NEW l \in Lane, NEW s \in Request, ReportArrives(l, s)
        PROVE  TaskOf(l) \in TaskId /\ Noted(s, TaskOf(l))
    <3>1. W!Busy(l) /\ ReportRead(s, TaskOf(l), job[l].next) /\ Note(TaskOf(l), Met(TaskOf(l)))
      BY <2>1 DEF ReportArrives, W!Call, W!Busy
    <3>2. TaskOf(l) \in TaskId /\ job[l].next \in Reportable
      BY <3>1, JobsOfTasks
    <3>3. req'[s].pc = "report.write"
      BY <1>0, <3>1, RememberArrives DEF ReportRead
    <3> QED BY <1>1, <3>1, <3>2, <3>3 DEF Noted, Reads
  <2>2. ASSUME NEW s \in Request, ApiStep(s) PROVE Continue(s)
    BY <2>2 DEF ApiStep
  <2>3. ASSUME \/ ToBroker \/ \E n \in B!Tier : RetryDue(n)
               \/ \E l \in Lane : TakeJob(l) \/ RunJob(l) \/ ReportIgnored(l) \/ ReportAnswered(l)
               \/ \E w \in Worker : StartWorker(w) \/ WorkerExit(w)
        PROVE  UNCHANGED <<task, req>>
    BY <2>3 DEF ToBroker, Flush, RetryDue, TakeJob, RunJob, ReportIgnored, ReportAnswered,
                StartWorker, WorkerExit, apiVars
  <2> QED BY <1>2, <2>1, <2>2, <2>3 DEF Progress
<1>3. CASE Outside
  <2>1. ASSUME NEW s \in Request, Create(s) PROVE \E t \in TaskId : Inserts(s, t)
    BY <2>1 DEF Create, CreateUnkeyed, Inserts
  <2>2. ASSUME NEW s \in Request, NEW t \in TaskId, Operate(s, t) PROVE Noted(s, t)
    <3>1. CASE RetryRead(s, t) /\ Note(t, Met(t) \cup {"retry"})
      BY <1>1, <3>1 DEF Noted, Reads
    <3>2. CASE DeleteRead(s, t) /\ Note(t, Met(t))
      <4>1. req'[s].pc = "delete.write"
        BY <1>0, <3>2, RememberArrives DEF DeleteRead
      <4> QED BY <1>1, <3>2, <4>1 DEF Noted, Reads
    <3>3. CASE CancelRead(s, t) /\ Note(t, Met(t))
      <4>1. req'[s].pc = "cancel.write"
        BY <1>0, <3>3, RememberArrives DEF CancelRead
      <4> QED BY <1>1, <3>3, <4>1 DEF Noted, Reads
    <3>4. CASE (\E p \in Priority, m \in MaxRetries : UpdateRead(s, t, p, m)) /\ Note(t, Met(t))
      <4>1. req'[s].pc = "update.write"
        BY <1>0, <3>4, RememberArrives DEF UpdateRead
      <4> QED BY <1>1, <3>4, <4>1 DEF Noted, Reads
    <3> QED BY <2>2, <3>1, <3>2, <3>3, <3>4 DEF Operate
  <2>3. ASSUME NEW s \in Request, StatementFails(s) PROVE DbError(s)
    BY <2>3 DEF StatementFails
  <2>4. ASSUME \/ \E l \in Lane : ReportFails(l) \/ ReportTimesOut(l) \/ ReportOverdue(l)
               \/ \E w \in Worker : WorkerCrash(w) \/ WorkerDrop(w) \/ WorkerShutdown(w)
        PROVE  UNCHANGED <<task, req>>
    BY <2>4 DEF ReportFails, ReportTimesOut, ReportOverdue, WorkerCrash, WorkerDrop, WorkerShutdown, apiVars
  <2>5. BufferLost => UNCHANGED <<task, req>>
    BY DEF BufferLost, ConnectionLost
  <2>6. ApiDies => ApiCrash
    BY DEF ApiDies
  <2>7. ASSUME NEW r \in late, NEW s \in Request, LateReportArrives(r, s)
        PROVE  r[1] \in TaskId /\ Noted(s, r[1])
    <3>1. ReportRead(s, r[1], r[2]) /\ Note(r[1], Met(r[1])) /\ r[1] \in TaskId /\ r[2] \in Reportable
      BY <2>7 DEF LateReportArrives, Books, LateTypes
    <3>2. req'[s].pc = "report.write"
      BY <1>0, <3>1, RememberArrives DEF ReportRead
    <3> QED BY <1>1, <3>1, <3>2 DEF Noted, Reads
  <2> QED BY <1>3, <2>1, <2>2, <2>3, <2>4, <2>5, <2>6, <2>7 DEF Outside
<1> QED BY <1>2, <1>3 DEF PipelineNext

\* A handler that goes on stays with its task, or is done with it.
LEMMA ContinueSlot ==
  ASSUME IInv, NEW s \in Request, Slotted(s), Continue(s) \/ DbError(s)
  PROVE  /\ ~Idle(s)
         /\ \A u \in Request \ {s} : req'[u] = req[u]
         /\ \/ Finish(s) /\ Idle(s)' /\ req'[s].task = NoTask
            \/ /\ req'[s].task = req[s].task /\ ~Idle(s)' /\ req'[s].pc # "create.insert"
               /\ req'[s].pc = "report.schedule" => req'[s].count # 0
               /\ req'[s].pc \in {"retry.write", "retry.publish"} => req[s].pc = "retry.write"
<1>0. TypeOK /\ ~Idle(s)
  BY DEF IInv, Continue, CreateInsert, CreateConflict, CreatePublish, CreateMarkQueued, ReportWrite,
         ReportDeadLetter, ReportSchedule, CancelWrite, RetryWrite, RetryPublish, DeleteWrite,
         UpdateWrite, DbError, Idle
<1>1. CASE Finish(s)
  BY <1>0, <1>1 DEF TypeOK, Finish, IdleSlot, Idle
<1>2. CASE CreatePublish(s)
  <2>1. Finish(s) \/ req' = [req EXCEPT ![s].pc = "create.markQueued"]
    BY <1>2 DEF CreatePublish
  <2>2. CASE req' = [req EXCEPT ![s].pc = "create.markQueued"]
    BY <1>0, <1>2, <2>2 DEF CreatePublish, TypeOK, Slot, Idle
  <2> QED BY <1>1, <2>1, <2>2
<1>3. CASE ReportWrite(s)
  <2> DEFINE t == req[s].task
             row == Transitioned(task[t], req[s])
  <2>1. t \in TaskId /\ req[s] \in Slot /\ task[t] \in Row
    BY <1>0, <1>3 DEF ReportWrite, TypeOK, Slotted, Idle
  <2>2. Finish(s) \/ (req[s].next = "RETRYING" /\ Remember(s, "report.schedule", t, row, "DEAD_LETTERED"))
    BY <1>3 DEF ReportWrite
  <2>3. req[s].next = "RETRYING" => row.retryCount = req[s].count + 1 /\ req[s].count \in Nat
    BY <2>1 DEF Transitioned, Row, Slot
  <2> HIDE DEF row
  <2>4. CASE req[s].next = "RETRYING" /\ Remember(s, "report.schedule", t, row, "DEAD_LETTERED")
    BY <1>0, <2>3, <2>4, RememberArrives DEF Idle
  <2> QED BY <1>1, <2>2, <2>4
<1>4. CASE RetryWrite(s)
  <2> DEFINE t == req[s].task
             row == [task[t] EXCEPT !.status = "QUEUED", !.retryCount = 0]
  <2>1. req[s].pc = "retry.write" /\ (Finish(s) \/ Remember(s, "retry.publish", t, row, "QUEUED"))
    BY <1>4 DEF RetryWrite
  <2> HIDE DEF row
  <2>2. CASE Remember(s, "retry.publish", t, row, "QUEUED")
    BY <1>0, <2>1, <2>2, RememberArrives DEF Idle
  <2> QED BY <1>1, <2>1, <2>2
<1>5. CASE \/ CreateConflict(s) \/ CreateMarkQueued(s) \/ ReportDeadLetter(s) \/ ReportSchedule(s)
           \/ CancelWrite(s) \/ RetryPublish(s) \/ DeleteWrite(s) \/ UpdateWrite(s) \/ DbError(s)
  BY <1>1, <1>5 DEF CreateConflict, CreateMarkQueued, ReportDeadLetter, ReportSchedule,
     CancelWrite, RetryPublish, DeleteWrite, UpdateWrite, DbError
<1>6. ~CreateInsert(s)
  BY DEF CreateInsert, Slotted
<1> QED BY <1>2, <1>3, <1>4, <1>5, <1>6 DEF Continue

\* A row that exists, or existed, is not made anew.
LEMMA RowsStay ==
  ASSUME IInv, [Next]_vars, NEW t \in TaskId, task[t].status # "ABSENT"
  PROVE  task'[t].status # "ABSENT"
<1>1. UNCHANGED task[t] \/ \E s \in Request : RowUpdate(s, t)
  BY StepEffect DEF OnlyRow, RowInsert
<1>2. ASSUME NEW s \in Request, RowUpdate(s, t) PROVE task'[t].status # "ABSENT"
  BY <1>2, StatusTypes DEF RowUpdate, Entitled, TaskStatus
<1> QED BY <1>1, <1>2

\* A row changes only under its own handler, or when it is made.
LEMMA OtherTask ==
  ASSUME IInv, [Next]_vars, NEW s \in Request, \A u \in Request \ {s} : req'[u] = req[u],
         NEW t \in TaskId, req[s].task # t, task[t].status # "ABSENT"
  PROVE  task'[t] = task[t]
<1>1. ~\E i \in Request : RowUpdate(i, t)
  BY DEF RowUpdate
<1> QED BY <1>1, StepEffect DEF OnlyRow, RowInsert

LEMMA WorkedOnExists ==
  ASSUME HandlersInv, NEW t \in TaskId, NEW s \in Request, req[s].task = t
  PROVE  ~Idle(s) /\ task[t].status # "ABSENT"
BY TaskCommandsAssumption DEF HandlersInv, Slotted

LEMMA IdleFresh == ASSUME NEW s \in Request, Idle(s) PROVE Fresh(s)
BY DEF Idle, Fresh

LEMMA SlotsStep ==
  ASSUME Agreement, IInv, Books, HandlersInv, PipelineNext PROVE \A s \in Request : Slotted(s)'
<1>1. [Next]_vars /\ TypeOK
  BY PipelineStepIsCommandStep DEF IInv, Books
<1>2. ASSUME NEW u \in Request, req'[u] = req[u] PROVE Slotted(u)'
  BY <1>1, <1>2, RowsStay, MarksGrow DEF HandlersInv, Slotted, Idle
<1>3. ASSUME NEW s \in Request, Continue(s) \/ DbError(s) PROVE \A u \in Request : Slotted(u)'
  <2>1. Slotted(s)
    BY DEF HandlersInv
  <2>2. \A u \in Request \ {s} : req'[u] = req[u]
    BY <1>3, <2>1, ContinueSlot
  <2>3. CASE Finish(s) /\ Idle(s)' /\ req'[s].task = NoTask
    BY <1>2, <2>2, <2>3 DEF Slotted, Idle
  <2>4. CASE /\ req'[s].task = req[s].task /\ ~Idle(s)' /\ req'[s].pc # "create.insert"
             /\ req'[s].pc = "report.schedule" => req'[s].count # 0
             /\ req'[s].pc \in {"retry.write", "retry.publish"} => req[s].pc = "retry.write"
    <3>1. req[s].task \in TaskId /\ task[req[s].task].status # "ABSENT"
      BY <1>3, <2>1, ContinueSlot DEF Slotted
    <3>2. task'[req[s].task].status # "ABSENT" /\ marks[req[s].task] \subseteq marks'[req[s].task]
      BY <1>1, <3>1, RowsStay, MarksGrow
    <3> QED BY <1>2, <2>1, <2>2, <2>4, <3>1, <3>2 DEF Slotted, Idle
  <2> QED BY <1>3, <2>1, <2>3, <2>4, ContinueSlot
<1>4. ASSUME NEW s \in Request, NEW t \in TaskId, Inserts(s, t) PROVE \A u \in Request : Slotted(u)'
  BY <1>1, <1>2, <1>4, InsertFacts DEF Slotted, Idle
<1>5. ASSUME NEW s \in Request, NEW t \in TaskId, Noted(s, t) PROVE \A u \in Request : Slotted(u)'
  <2>1. Reads(s, t)
    BY <1>5 DEF Noted
  <2> QED BY <1>1, <1>2, <1>5, <2>1, ReadFacts DEF Slotted, Idle, Noted
<1>6. ApiCrash => \A u \in Request : Slotted(u)'
  BY DEF ApiCrash, IdleSlot, Slotted, Idle
<1> QED BY <1>2, <1>3, <1>4, <1>5, <1>6, HandlerSteps

LEMMA TurnStep ==
  ASSUME Agreement, IInv, Books, HandlersInv, PipelineNext,
         NEW t \in TaskId, "overlap" \notin marks'[t]
  PROVE  Alone(t)' /\ Current(t)'
<1>1. [Next]_vars /\ TypeOK
  BY PipelineStepIsCommandStep DEF IInv, Books
<1>2. Alone(t) /\ Current(t)
  BY MarksGrow DEF HandlersInv
<1>3. CASE UNCHANGED <<task, req>>
  BY <1>2, <1>3 DEF Alone, Current, Fresh
<1>4. CASE ApiCrash
  <2>1. \A s \in Request : req'[s].task = NoTask
    BY <1>4 DEF ApiCrash, IdleSlot
  <2> QED BY <2>1, TaskCommandsAssumption DEF Alone, Current
<1>5. ASSUME NEW s \in Request, req[s].task # t, req'[s].task # t,
             \A u \in Request \ {s} : req'[u] = req[u]
      PROVE  Alone(t)' /\ Current(t)'
  <2>1. Alone(t)'
    BY <1>2, <1>5 DEF Alone
  <2>2. ASSUME NEW u \in Request, req'[u].task = t PROVE Fresh(u)'
    <3>1. req'[u] = req[u] /\ Fresh(u)
      BY <1>2, <1>5, <2>2 DEF Current
    <3>2. task'[t] = task[t]
      BY <1>1, <1>5, <2>2, <3>1, WorkedOnExists, OtherTask
    <3> QED BY <2>2, <3>1, <3>2 DEF Fresh
  <2> QED BY <2>1, <2>2 DEF Current
<1>6. ASSUME NEW s \in Request, \A u \in Request \ {s} : req'[u].task # t, Fresh(s)'
      PROVE  Alone(t)' /\ Current(t)'
  BY <1>6 DEF Alone, Current
<1>7. ASSUME NEW s \in Request, Continue(s) \/ DbError(s) PROVE Alone(t)' /\ Current(t)'
  <2>1. /\ \A u \in Request \ {s} : req'[u] = req[u]
        /\ req'[s].task \in {req[s].task, NoTask}
    BY <1>7, ContinueSlot DEF HandlersInv
  <2>2. CASE req[s].task # t
    BY <1>5, <2>1, <2>2, TaskCommandsAssumption
  <2>3. CASE req[s].task = t
    <3>1. Fresh(s)'
      BY <1>2, <1>7, <2>3, ContinueFresh, FinishFresh DEF Current, DbError
    <3>2. \A u \in Request \ {s} : req'[u].task # t
      BY <1>2, <2>1, <2>3 DEF Alone
    <3> QED BY <1>6, <3>1, <3>2
  <2> QED BY <2>2, <2>3
<1>8. ASSUME NEW s \in Request, NEW v \in TaskId, Arrive(s), Idle(s), req'[s].task = v,
             \A u \in Request \ {s} : req'[u] = req[u], v = t => ~AtWorkOn(t)
      PROVE  Alone(t)' /\ Current(t)'
  <2>1. req[s].task # t
    BY <1>8, WorkedOnExists
  <2>2. CASE v # t
    BY <1>5, <1>8, <2>1, <2>2
  <2>3. CASE v = t
    <3>1. Fresh(s)'
      BY <1>8, IdleFresh, ArriveFresh
    <3>2. \A u \in Request \ {s} : req'[u].task # t
      BY <1>8, <2>3 DEF AtWorkOn
    <3> QED BY <1>6, <3>1, <3>2
  <2> QED BY <2>2, <2>3
<1>9. ASSUME NEW s \in Request, NEW v \in TaskId, Inserts(s, v) PROVE Alone(t)' /\ Current(t)'
  <2>1. v = t => ~AtWorkOn(t)
    BY <1>1, <1>9, InsertFacts, WorkedOnExists DEF AtWorkOn
  <2> QED BY <1>1, <1>8, <1>9, <2>1, InsertFacts
<1>10. ASSUME NEW s \in Request, NEW v \in TaskId, Noted(s, v) PROVE Alone(t)' /\ Current(t)'
  <2>1. Reads(s, v) /\ (v = t => ~AtWorkOn(t))
    BY <1>10 DEF Noted, Met
  <2> QED BY <1>1, <1>8, <2>1, ReadFacts
<1> QED BY <1>3, <1>4, <1>7, <1>9, <1>10, HandlerSteps

LEMMA HandlersInvariant == PipelineSpec => []HandlersInv
<1>1. PipelineInit => HandlersInv
  <2> SUFFICES ASSUME PipelineInit PROVE HandlersInv
    OBVIOUS
  <2>1. \A s \in Request : req[s].pc = "idle" /\ req[s].task = NoTask
    BY DEF PipelineInit, Init, IdleSlot
  <2> QED BY <2>1, TaskCommandsAssumption DEF HandlersInv, Slotted, Alone, Current, Idle
<1>2. Agreement /\ IInv /\ Books /\ HandlersInv /\ [PipelineNext]_pipelineVars => HandlersInv'
  <2> SUFFICES ASSUME Agreement, IInv, Books, HandlersInv, [PipelineNext]_pipelineVars PROVE HandlersInv'
    OBVIOUS
  <2>1. CASE PipelineNext
    BY <2>1, SlotsStep, TurnStep DEF HandlersInv
  <2>2. CASE UNCHANGED pipelineVars
    BY <2>2 DEF pipelineVars, apiVars, notes, HandlersInv, Slotted, Alone, Current, Fresh, Idle
  <2> QED BY <2>1, <2>2
<1> QED BY <1>1, <1>2, PipelineInvariant, PTL DEF PipelineSpec

\* While handlers have not met on a task, every change of its status is one the
\* table lists, for any faults, retries and operators around them.
THEOREM TableTheoremInTurn == PipelineSpec => TableObeyedInTurn
<1>1. Agreement /\ IInv /\ Books /\ HandlersInv /\ [PipelineNext]_pipelineVars =>
        [\A t \in TaskId : StatusStep(t) => LegalStep(t) \/ "overlap" \in marks[t]]_pipelineVars
  <2> SUFFICES ASSUME Agreement, IInv, Books, HandlersInv, [PipelineNext]_pipelineVars,
                      NEW t \in TaskId, StatusStep(t), "overlap" \notin marks[t]
               PROVE  LegalStep(t)
    OBVIOUS
  <2>1. [Next]_vars
    BY PipelineStepIsCommandStep DEF pipelineVars, apiVars, vars, Books
  <2>2. CASE RowInsert(t)
    BY <2>2 DEF RowInsert, LegalStep
  <2>3. ASSUME NEW s \in Request, RowUpdate(s, t) PROVE LegalStep(t)
    <3>1. req[s].pc \notin {"idle", "create.insert"} /\ Fresh(s)
      BY <2>3 DEF RowUpdate, Idle, HandlersInv, Slotted, Current
    <3>2. req[s].seen = task[t].status
      BY <2>3, <3>1 DEF RowUpdate, Fresh
    <3> QED BY <2>3, <3>2 DEF RowUpdate, StatusStep, Entitled, LegalStep, CanTransition
  <2> QED BY <2>1, <2>2, <2>3, StepEffect DEF StatusStep, OnlyRow
<1> QED BY <1>1, HandlersInvariant, PipelineInvariant, PTL DEF PipelineSpec, TableObeyedInTurn
-----------------------------------------------------------------------------
Past(row) == row.status = "DEAD_LETTERED" => row.retryCount > row.maxRetries

\* A handler whose snapshot holds dead-letters its row only past the row's limit.
LEMMA PastTheLimit ==
  ASSUME IInv, NEW s \in Request, Fresh(s), Continue(s), req[s].pc # "create.insert",
         Past(task[req[s].task])
  PROVE  Past(task'[req[s].task])
<1> DEFINE t == req[s].task
           queued == [task[t] EXCEPT !.status = "QUEUED"]
           retried == [task[t] EXCEPT !.status = "QUEUED", !.retryCount = 0]
           deleted == [task[t] EXCEPT !.status = "DELETED"]
           edited == [task[t] EXCEPT !.priority = req[s].priority, !.maxRetries = req[s].limit]
<1>1. ~Idle(s) /\ t \in TaskId /\ req[s] \in Slot /\ task[t] \in Row /\ SlotSound(s)
  BY DEF Continue, CreateInsert, CreateConflict, CreatePublish, CreateMarkQueued, ReportWrite,
         ReportDeadLetter, ReportSchedule, CancelWrite, RetryWrite, RetryPublish, DeleteWrite,
         UpdateWrite, Idle, IInv, TypeOK, SlotsSound, SlotSound
<1>2. ASSUME NEW row, UpdateById(t, row), Past(row) PROVE Past(task'[t])
  BY <1>1, <1>2 DEF UpdateById, IInv, TypeOK
<1>3. \A row \in {queued, retried, deleted, Cancelled(task[t])} : Past(row)
  BY <1>1 DEF Row, Cancelled, Past
<1>4. CASE ReportWrite(s)
  <2>1. req[s].next \in Reportable /\ req[s].next \in TaskStatus
    BY <1>1, <1>4, StatusTypes DEF ReportWrite, SlotSound
  <2>2. Transitioned(task[t], req[s]).status # "DEAD_LETTERED"
    BY <1>1, <2>1, TransitionedType DEF Reportable
  <2> QED BY <1>2, <1>4, <2>2 DEF ReportWrite, Past
<1>5. CASE ReportDeadLetter(s)
  <2>1. Past(DeadLettered(task[t]))
    BY <1>1, <1>5 DEF ReportDeadLetter, Exhausted, Fresh, DeadLettered, Row, Past
  <2> QED BY <1>2, <1>5, <2>1 DEF ReportDeadLetter
<1>6. CASE UpdateWrite(s)
  <2>1. edited.status # "DEAD_LETTERED"
    BY <1>1, <1>6 DEF UpdateWrite, SlotSound, Fresh, MUTABLE_STATUSES, Row
  <2>2. UpdateById(t, edited)
    BY <1>6 DEF UpdateWrite
  <2> HIDE DEF edited
  <2> QED BY <1>2, <2>1, <2>2 DEF Past
<1>7. CASE CreateMarkQueued(s) \/ CancelWrite(s) \/ RetryWrite(s) \/ DeleteWrite(s)
  <2>1. \E row \in {queued, retried, deleted, Cancelled(task[t])} : UpdateById(t, row)
    BY <1>7 DEF CreateMarkQueued, CancelWrite, RetryWrite, DeleteWrite
  <2> HIDE DEF queued, retried, deleted
  <2> QED BY <1>2, <1>3, <2>1
<1>8. CASE CreateConflict(s) \/ CreatePublish(s) \/ ReportSchedule(s) \/ RetryPublish(s)
  BY <1>8 DEF CreateConflict, CreatePublish, ReportSchedule, RetryPublish
<1>9. ~CreateInsert(s)
  BY DEF CreateInsert
<1> QED BY <1>4, <1>5, <1>6, <1>7, <1>8, <1>9 DEF Continue

\* A task that is not made, and whose handler takes no step, keeps its row.
LEMMA RowOwner ==
  ASSUME IInv, [Next]_vars, NEW s \in Request, \A u \in Request \ {s} : req'[u] = req[u],
         NEW t \in TaskId
  PROVE  task'[t] = task[t] \/ RowInsert(t) \/ (req[s].task = t /\ RowUpdate(s, t))
<1>1. ASSUME NEW i \in Request, RowUpdate(i, t) PROVE i = s
  BY <1>1 DEF RowUpdate
<1> QED BY <1>1, StepEffect DEF OnlyRow, RowUpdate

LEMMA ExhaustedStep ==
  ASSUME Agreement, IInv, Books, HandlersInv, PipelineNext, NEW t \in TaskId,
         "overlap" \notin marks'[t], Past(task[t])
  PROVE  Past(task'[t])
<1>1. [Next]_vars
  BY PipelineStepIsCommandStep DEF Books
<1>2. Current(t)
  BY MarksGrow DEF HandlersInv
<1>3. CASE UNCHANGED task
  BY <1>3
<1>4. ASSUME NEW s \in Request, Continue(s) PROVE Past(task'[t])
  <2>1. /\ req[s].pc # "create.insert"
        /\ \A u \in Request \ {s} : req'[u] = req[u]
    BY <1>4, ContinueSlot DEF HandlersInv, Slotted
  <2>2. CASE req[s].task = t
    BY <1>2, <1>4, <2>1, <2>2, PastTheLimit DEF Current
  <2>3. RowInsert(t) => Past(task'[t])
    BY DEF RowInsert, Past
  <2> QED BY <1>1, <2>1, <2>2, <2>3, RowOwner
<1>5. ASSUME NEW s \in Request, NEW v \in TaskId, Inserts(s, v) PROVE Past(task'[t])
  <2>1. task'[t] = task[t] \/ task'[t].status = "PENDING"
    BY <1>5, InsertFacts DEF IInv
  <2> QED BY <2>1 DEF Past
<1> QED BY <1>3, <1>4, <1>5, HandlerSteps, ReadFacts DEF ApiCrash, DbError, Noted, IInv

\* A task whose handlers have not met is dead-lettered only past its own limit:
\* operators' edits, retries, crashes and redeliveries do not blur the count.
THEOREM DeadLettersExhaustedInTurn == PipelineSpec => []ExhaustedInTurn
<1> DEFINE Inv == \A t \in TaskId : "overlap" \in marks[t] \/ Past(task[t])
<1>1. PipelineInit => Inv
  BY DEF PipelineInit, Init, Past
<1>2. Agreement /\ IInv /\ Books /\ HandlersInv /\ Inv /\ [PipelineNext]_pipelineVars => Inv'
  <2> SUFFICES ASSUME Agreement, IInv, Books, HandlersInv, Inv, [PipelineNext]_pipelineVars
               PROVE  Inv'
    OBVIOUS
  <2>1. CASE PipelineNext
    BY <2>1, ExhaustedStep, MarksGrow
  <2>2. CASE UNCHANGED pipelineVars
    BY <2>2 DEF pipelineVars, apiVars, notes
  <2> QED BY <2>1, <2>2
<1>3. Inv => ExhaustedInTurn
  BY DEF Past, ExhaustedInTurn
<1> QED BY <1>1, <1>2, <1>3, HandlersInvariant, PipelineInvariant, PTL DEF PipelineSpec

-----------------------------------------------------------------------------
(* Where the jobs are                                                       *)

Queues == [B!Queue -> Seq(Message)]

\* The jobs of task t in the priority queues qs.
InQueues(qs, t) == \E q \in B!TaskQueues : \E i \in DOMAIN qs[q] : qs[q][i].task = t
QueuedOnce(qs, t) ==
  \A q, r \in B!TaskQueues : \A i \in DOMAIN qs[q], j \in DOMAIN qs[r] :
    qs[q][i].task = t /\ qs[r][j].task = t => q = r /\ i = j

\* Only retries are in the retry tiers.
TiersHoldRetries(qs) ==
  \A n \in B!Tier : \A i \in DOMAIN qs[B!RetryQueue(n)] : qs[B!RetryQueue(n)][i].tier # 0

-----------------------------------------------------------------------------
(* Routes and queues                                                        *)

LEMMA QueueKinds ==
  /\ B!TaskQueues \subseteq B!Queue
  /\ \A p \in Priority : B!TaskQueue(p) \in B!TaskQueues
  /\ \A n \in B!Tier : B!RetryQueue(n) \in B!Queue /\ B!RetryQueue(n) \notin B!TaskQueues
  /\ \A n, k \in B!Tier : B!RetryQueue(n) = B!RetryQueue(k) => n = k
  /\ \A l \in Lane : B!Source(l) \in B!TaskQueues
BY DEF B!Queue, B!TaskQueues, B!TaskQueue, B!RetryQueue, B!Tier, B!Source, Lane, B!Lane

\* A job goes to the queue of its priority, a retry to its tier; an expired
\* retry has no queue to go to.
LEMMA Routes ==
  ASSUME NEW qs \in Queues, NEW m \in Message
  PROVE  /\ m.tier = 0 => B!Routed(qs, "TASKS", m) = [qs EXCEPT ![B!TaskQueue(m.priority)] = Append(@, m)]
         /\ m.tier # 0 => B!Routed(qs, "TASKS", m) = qs
         /\ m.tier # 0 => B!Routed(qs, "RETRY", m) = [qs EXCEPT ![B!RetryQueue(m.tier)] = Append(@, m)]
<1>1. m.priority \in Priority /\ m.tier \in 0..6
  BY DEF Message
<1>2. CASE m.tier = 0
  <2>1. B!Route("TASKS", B!RoutingKey(m)) = {B!TaskQueue(m.priority)}
    BY <1>1, <1>2, QueueKinds DEF B!Route, B!RoutingKey, B!Bindings, B!TaskQueue
  <2> QED BY <1>1, <1>2, <2>1, QueueKinds DEF B!Routed, Queues
<1>3. CASE m.tier # 0
  <2>1. m.tier \in B!Tier
    BY <1>1, <1>3 DEF B!Tier
  <2>2. B!Route("TASKS", B!RoutingKey(m)) = {}
    BY <1>3 DEF B!Route, B!RoutingKey, B!Bindings
  <2>3. B!Route("RETRY", B!RoutingKey(m)) = {B!RetryQueue(m.tier)}
    BY <1>3, <2>1, QueueKinds DEF B!Route, B!RoutingKey, B!Bindings, B!RetryQueue
  <2> QED BY <1>3, <2>1, <2>2, <2>3, QueueKinds DEF B!Routed, Queues
<1> QED BY <1>2, <1>3

LEMMA AppendFacts ==
  ASSUME NEW sq \in Seq(Message), NEW m \in Message
  PROVE  /\ Len(sq) + 1 \in DOMAIN Append(sq, m) /\ Append(sq, m)[Len(sq) + 1] = m
         /\ \A i \in DOMAIN sq : i \in DOMAIN Append(sq, m) /\ Append(sq, m)[i] = sq[i]
         /\ \A i \in DOMAIN Append(sq, m) :
              i = Len(sq) + 1 \/ (i \in DOMAIN sq /\ Append(sq, m)[i] = sq[i])
<1>1. /\ Len(sq) \in Nat /\ DOMAIN sq = 1..Len(sq)
      /\ DOMAIN Append(sq, m) = 1..(Len(sq) + 1)
      /\ \A i \in 1..Len(sq) : Append(sq, m)[i] = sq[i]
      /\ Append(sq, m)[Len(sq) + 1] = m
  BY AppendProperties, LenProperties
<1> QED BY <1>1

LEMMA TailFacts ==
  ASSUME NEW sq \in Seq(Message), sq # <<>>
  PROVE  /\ 1 \in DOMAIN sq /\ Head(sq) = sq[1] /\ Head(sq) \in Message /\ Tail(sq) \in Seq(Message)
         /\ \A i \in DOMAIN Tail(sq) : i \in Nat \ {0} /\ i + 1 \in DOMAIN sq /\ Tail(sq)[i] = sq[i + 1]
         /\ \A i \in DOMAIN sq : i = 1 \/ (i - 1 \in DOMAIN Tail(sq) /\ Tail(sq)[i - 1] = sq[i])
<1>1. /\ Len(sq) \in Nat \ {0} /\ Head(sq) \in Message /\ Head(sq) = sq[1]
      /\ Tail(sq) \in Seq(Message) /\ Len(Tail(sq)) = Len(sq) - 1
      /\ \A i \in 1..(Len(sq) - 1) : Tail(sq)[i] = sq[i + 1]
  BY HeadTailProperties, EmptySeq, LenProperties
<1>2. DOMAIN sq = 1..Len(sq) /\ DOMAIN Tail(sq) = 1..(Len(sq) - 1)
  BY <1>1, LenProperties
<1> QED BY <1>1, <1>2

\* What other queues hold makes no difference.
LEMMA SameTaskQueues ==
  ASSUME NEW qs, NEW new, \A q \in B!TaskQueues : new[q] = qs[q], NEW t
  PROVE  (InQueues(new, t) <=> InQueues(qs, t)) /\ (QueuedOnce(new, t) <=> QueuedOnce(qs, t))
BY DEF InQueues, QueuedOnce

LEMMA JobAppended ==
  ASSUME NEW qs \in Queues, NEW q \in B!TaskQueues, NEW m \in Message, NEW t,
         NEW new, new = [qs EXCEPT ![q] = Append(@, m)]
  PROVE  /\ InQueues(new, t) <=> InQueues(qs, t) \/ m.task = t
         /\ QueuedOnce(qs, t) /\ (m.task = t => ~InQueues(qs, t)) => QueuedOnce(new, t)
<1>1. q \in B!Queue /\ qs[q] \in Seq(Message)
  BY QueueKinds DEF Queues
<1>2. new[q] = Append(qs[q], m) /\ \A r \in B!TaskQueues \ {q} : new[r] = qs[r]
  BY <1>1, QueueKinds DEF Queues
<1> DEFINE last == Len(qs[q]) + 1
<1>3. \A r \in B!TaskQueues : r # q => new[r] = qs[r]
  BY <1>2
<1>4. /\ last \in DOMAIN new[q] /\ new[q][last] = m
      /\ \A i \in DOMAIN qs[q] : i \in DOMAIN new[q] /\ new[q][i] = qs[q][i]
      /\ \A i \in DOMAIN new[q] : i = last \/ (i \in DOMAIN qs[q] /\ new[q][i] = qs[q][i])
  BY <1>1, <1>2, AppendFacts
<1> HIDE DEF last
<1>5. \A r \in B!TaskQueues : \A i \in DOMAIN qs[r] : i \in DOMAIN new[r] /\ new[r][i] = qs[r][i]
  BY <1>3, <1>4
<1>6. \A r \in B!TaskQueues : \A i \in DOMAIN new[r] :
        (r = q /\ i = last /\ new[r][i] = m) \/ (i \in DOMAIN qs[r] /\ new[r][i] = qs[r][i])
  BY <1>3, <1>4
<1>7. InQueues(new, t) <=> InQueues(qs, t) \/ m.task = t
  BY <1>4, <1>5, <1>6 DEF InQueues
<1>8. QueuedOnce(qs, t) /\ (m.task = t => ~InQueues(qs, t)) => QueuedOnce(new, t)
  BY <1>6 DEF InQueues, QueuedOnce
<1> QED BY <1>7, <1>8

LEMMA HeadIsQueued ==
  ASSUME NEW qs \in Queues, NEW q \in B!TaskQueues, qs[q] # <<>>
  PROVE  InQueues(qs, Head(qs[q]).task)
<1>1. qs[q] \in Seq(Message)
  BY QueueKinds DEF Queues
<1> QED BY <1>1, TailFacts DEF InQueues

\* What the queues hold of task t when the head m of one of them is taken.
TakenFrom(qs, new, m, t) ==
  /\ InQueues(new, t) => InQueues(qs, t)
  /\ InQueues(qs, t) => InQueues(new, t) \/ m.task = t
  /\ QueuedOnce(qs, t) => QueuedOnce(new, t) /\ (m.task = t => ~InQueues(new, t))

LEMMA HeadTaken ==
  ASSUME NEW qs \in Queues, NEW q \in B!TaskQueues, qs[q] # <<>>, NEW t,
         NEW new, new = [qs EXCEPT ![q] = Tail(@)]
  PROVE  TakenFrom(qs, new, Head(qs[q]), t)
<1>1. q \in B!Queue /\ qs[q] \in Seq(Message)
  BY QueueKinds DEF Queues
<1>2. 1 \in DOMAIN qs[q] /\ Head(qs[q]) = qs[q][1]
  BY <1>1, TailFacts
<1>3. new[q] = Tail(qs[q])
  BY <1>1 DEF Queues
<1>4. \A r \in B!TaskQueues : r # q => new[r] = qs[r]
  BY <1>1, QueueKinds DEF Queues
<1>5. /\ \A i \in DOMAIN new[q] : i \in Nat \ {0} /\ i + 1 \in DOMAIN qs[q] /\ new[q][i] = qs[q][i + 1]
      /\ \A i \in DOMAIN qs[q] : i = 1 \/ (i - 1 \in DOMAIN new[q] /\ new[q][i - 1] = qs[q][i])
  <2>1. /\ \A i \in DOMAIN Tail(qs[q]) :
             i \in Nat \ {0} /\ i + 1 \in DOMAIN qs[q] /\ Tail(qs[q])[i] = qs[q][i + 1]
        /\ \A i \in DOMAIN qs[q] :
             i = 1 \/ (i - 1 \in DOMAIN Tail(qs[q]) /\ Tail(qs[q])[i - 1] = qs[q][i])
    <3> HIDE DEF Queues
    <3> QED BY <1>1, TailFacts
  <2> QED BY <1>3, <2>1, Zenon
<1> DEFINE at(u, k) == IF u = q THEN k + 1 ELSE k
<1>7. \A r \in B!TaskQueues : \A i \in DOMAIN new[r] :
        at(r, i) \in DOMAIN qs[r] /\ new[r][i] = qs[r][at(r, i)]
  BY <1>4, <1>5
<1>8. \A r \in B!TaskQueues : \A i, j \in DOMAIN new[r] : at(r, i) = at(r, j) => i = j
  BY <1>5
<1> HIDE DEF at
<1>9. InQueues(new, t) => InQueues(qs, t)
  BY <1>7 DEF InQueues
<1>10. InQueues(qs, t) => InQueues(new, t) \/ Head(qs[q]).task = t
  <2> SUFFICES ASSUME NEW r \in B!TaskQueues, NEW i \in DOMAIN qs[r], qs[r][i].task = t
               PROVE  InQueues(new, t) \/ Head(qs[q]).task = t
    BY DEF InQueues
  <2>1. CASE r = q
    <3>1. i = 1 \/ (i - 1 \in DOMAIN new[q] /\ new[q][i - 1] = qs[q][i])
      BY <1>5, <2>1
    <3> QED BY <1>2, <2>1, <3>1 DEF InQueues
  <2>2. CASE r # q
    BY <1>4, <2>2 DEF InQueues
  <2> QED BY <2>1, <2>2
<1>12. QueuedOnce(qs, t) => QueuedOnce(new, t)
  BY <1>7, <1>8 DEF QueuedOnce
<1>11. ASSUME QueuedOnce(qs, t), Head(qs[q]).task = t PROVE ~InQueues(new, t)
  <2> SUFFICES ASSUME NEW r \in B!TaskQueues, NEW i \in DOMAIN new[r], new[r][i].task = t PROVE FALSE
    BY DEF InQueues
  <2>1. CASE r = q
    <3>1. i + 1 \in DOMAIN qs[q] /\ qs[q][i + 1].task = t /\ i + 1 # 1
      BY <1>5, <2>1
    <3> QED BY <1>2, <1>3, <1>11, <3>1 DEF QueuedOnce
  <2>2. CASE r # q
    BY <1>2, <1>3, <1>4, <1>11, <2>2 DEF QueuedOnce
  <2> QED BY <2>1, <2>2
<1> QED BY <1>9, <1>10, <1>11, <1>12 DEF TakenFrom

-----------------------------------------------------------------------------
(* The deliveries of a lost worker return to their queues                   *)

Holds(h, l, t) == h[l] # Nothing /\ h[l].task = t
HeldOnce(h, t) == \A l, k \in Lane : Holds(h, l, t) /\ Holds(h, k, t) => l = k

LEMMA UnsettledOfConsumer ==
  ASSUME NEW w \in Worker, NEW p \in Priority
  PROVE  /\ \A l \in B!Unsettled(w, p) : l \in Lane /\ l[1] = w /\ l[2] = p /\ held[l] # Nothing
         /\ \A l \in Lane : l[1] = w /\ l[2] = p /\ held[l] # Nothing => l \in B!Unsettled(w, p)
BY DEF B!Unsettled, Lane, B!Lane

LEMMA OrderOfUnsettled ==
  ASSUME NEW w \in Worker, NEW p \in Priority, NEW s \in B!SetToSeqs(B!Unsettled(w, p))
  PROVE  /\ \A i \in DOMAIN s : s[i] \in B!Unsettled(w, p)
         /\ \A i, j \in DOMAIN s : s[i] = s[j] => i = j
         /\ \A l \in B!Unsettled(w, p) : \E i \in DOMAIN s : s[i] = l
         /\ \E n \in Nat : DOMAIN s = 1..n
<1> DEFINE U == B!Unsettled(w, p)
           D == 1..Cardinality(U)
<1>1. IsFiniteSet(U) /\ Cardinality(U) \in Nat
  BY UnsettledFinite, FS_CardinalityType
<1>2. s \in [D -> U] /\ \A i, j \in D : i # j => s[i] # s[j]
  BY SameCardinality DEF B!SetToSeqs
<1>3. IsFiniteSet(D) /\ Cardinality(D) = Cardinality(U)
  BY <1>1, FS_Interval
<1> HIDE DEF U, D
<1>4. s \in Injection(D, U)
  BY <1>2 DEF Injection, IsInjective
<1>5. s \in Surjection(D, U)
  BY <1>1, <1>3, <1>4, FS_Injection
<1> QED BY <1>1, <1>2, <1>5 DEF Surjection, U, D

LEMMA Joined ==
  ASSUME NEW a \in Seq(Message), NEW b \in Seq(Message)
  PROVE  /\ Len(a) \in Nat
         /\ \A i \in DOMAIN (a \o b) :
              \/ i \in DOMAIN a /\ (a \o b)[i] = a[i]
              \/ i \in Nat /\ i - Len(a) \in DOMAIN b /\ (a \o b)[i] = b[i - Len(a)]
         /\ \A i \in DOMAIN a : i \in DOMAIN (a \o b) /\ (a \o b)[i] = a[i]
         /\ \A i \in DOMAIN b : i + Len(a) \in DOMAIN (a \o b) /\ (a \o b)[i + Len(a)] = b[i]
<1>1. /\ Len(a \o b) = Len(a) + Len(b) /\ Len(a) \in Nat /\ Len(b) \in Nat
      /\ DOMAIN (a \o b) = 1..Len(a \o b) /\ DOMAIN a = 1..Len(a) /\ DOMAIN b = 1..Len(b)
      /\ \A i \in 1..(Len(a) + Len(b)) : (a \o b)[i] = IF i <= Len(a) THEN a[i] ELSE b[i - Len(a)]
  BY ConcatProperties, LenProperties
<1> DEFINE c == a \o b
<1> HIDE DEF c
<1>2. /\ Len(c) = Len(a) + Len(b) /\ Len(a) \in Nat /\ Len(b) \in Nat
      /\ DOMAIN c = 1..Len(c) /\ DOMAIN a = 1..Len(a) /\ DOMAIN b = 1..Len(b)
      /\ \A i \in 1..(Len(a) + Len(b)) : c[i] = IF i <= Len(a) THEN a[i] ELSE b[i - Len(a)]
  BY <1>1 DEF c
<1>3. \A i \in DOMAIN c : \/ i \in DOMAIN a /\ c[i] = a[i]
                          \/ i \in Nat /\ i - Len(a) \in DOMAIN b /\ c[i] = b[i - Len(a)]
  BY <1>2
<1>4. \A i \in DOMAIN a : i \in DOMAIN c /\ c[i] = a[i]
  BY <1>2
<1>5. \A i \in DOMAIN b : i + Len(a) \in DOMAIN c /\ c[i + Len(a)] = b[i]
  BY <1>2
<1> QED BY <1>2, <1>3, <1>4, <1>5 DEF c

\* What is put before the queues is queued, once if it was not queued yet.
LEMMA PutBack ==
  ASSUME NEW qs, NEW front, NEW new, NEW t,
         \A q \in B!TaskQueues : /\ front[q] \in Seq(Message) /\ qs[q] \in Seq(Message)
                                 /\ new[q] = front[q] \o qs[q]
  PROVE  /\ InQueues(new, t) <=> InQueues(qs, t) \/ InQueues(front, t)
         /\ /\ QueuedOnce(qs, t) /\ QueuedOnce(front, t)
            /\ ~(InQueues(qs, t) /\ InQueues(front, t))
            => QueuedOnce(new, t)
<1>1. ASSUME NEW q \in B!TaskQueues
      PROVE  /\ Len(front[q]) \in Nat
             /\ \A i \in DOMAIN new[q] :
                  \/ i \in DOMAIN front[q] /\ new[q][i] = front[q][i]
                  \/ /\ i \in Nat /\ i - Len(front[q]) \in DOMAIN qs[q]
                     /\ new[q][i] = qs[q][i - Len(front[q])]
             /\ \A i \in DOMAIN front[q] : i \in DOMAIN new[q] /\ new[q][i] = front[q][i]
             /\ \A i \in DOMAIN qs[q] :
                  i + Len(front[q]) \in DOMAIN new[q] /\ new[q][i + Len(front[q])] = qs[q][i]
  <2> DEFINE a == front[q]
             b == qs[q]
             c == a \o b
  <2>1. /\ Len(a) \in Nat
        /\ \A i \in DOMAIN c : \/ i \in DOMAIN a /\ c[i] = a[i]
                               \/ i \in Nat /\ i - Len(a) \in DOMAIN b /\ c[i] = b[i - Len(a)]
        /\ \A i \in DOMAIN a : i \in DOMAIN c /\ c[i] = a[i]
        /\ \A i \in DOMAIN b : i + Len(a) \in DOMAIN c /\ c[i + Len(a)] = b[i]
    BY <1>1, Joined
  <2>2. new[q] = c
    BY <1>1
  <2> HIDE DEF c
  <2> QED BY <2>1, <2>2
<1>2. InQueues(new, t) => InQueues(qs, t) \/ InQueues(front, t)
  BY <1>1 DEF InQueues
<1>3. InQueues(qs, t) => InQueues(new, t)
  BY <1>1 DEF InQueues
<1>4. InQueues(front, t) => InQueues(new, t)
  BY <1>1 DEF InQueues
<1>5. ASSUME QueuedOnce(qs, t), QueuedOnce(front, t), ~(InQueues(qs, t) /\ InQueues(front, t))
      PROVE  QueuedOnce(new, t)
  <2>1. CASE ~InQueues(qs, t)
    <3>1. \A q \in B!TaskQueues : \A i \in DOMAIN new[q] :
            new[q][i].task = t => i \in DOMAIN front[q] /\ new[q][i] = front[q][i]
      BY <1>1, <2>1 DEF InQueues
    <3> QED BY <1>5, <3>1 DEF QueuedOnce
  <2>2. CASE ~InQueues(front, t)
    <3>1. \A q \in B!TaskQueues : \A i \in DOMAIN new[q] :
            new[q][i].task = t => /\ i \in Nat /\ i - Len(front[q]) \in DOMAIN qs[q]
                                  /\ new[q][i] = qs[q][i - Len(front[q])]
      BY <1>1, <2>2 DEF InQueues
    <3>2. ASSUME NEW q \in B!TaskQueues, NEW r \in B!TaskQueues,
                 NEW i \in DOMAIN new[q], NEW j \in DOMAIN new[r],
                 new[q][i].task = t, new[r][j].task = t
          PROVE  q = r /\ i = j
      <4>1. q = r /\ i - Len(front[q]) = j - Len(front[r])
        BY <1>5, <3>1, <3>2 DEF QueuedOnce
      <4> QED BY <1>1, <3>1, <3>2, <4>1
    <3> QED BY <3>2 DEF QueuedOnce
  <2> QED BY <1>5, <2>1, <2>2
<1> QED BY <1>2, <1>3, <1>4, <1>5

LEMMA DisconnectJobs ==
  ASSUME QueueTypes, NEW w \in Worker, B!Disconnect(w), NEW t
  PROVE  /\ InQueues(queue', t) <=> InQueues(queue, t) \/ \E l \in Lane : l[1] = w /\ Holds(held, l, t)
         /\ /\ QueuedOnce(queue, t) /\ HeldOnce(held, t)
            /\ InQueues(queue, t) => \A l \in Lane : ~Holds(held, l, t)
            => QueuedOnce(queue', t)
         /\ TiersHoldRetries(queue) => TiersHoldRetries(queue')
         /\ \A l \in Lane : held'[l] = IF l[1] = w THEN Nothing ELSE held[l]
<1>1. PICK order \in B!Orders(w) :
        queue' = [q \in B!Queue |->
                    IF q \in B!TaskQueues
                      THEN [i \in DOMAIN order[q[2]] |-> held[order[q[2]][i]]] \o queue[q]
                      ELSE queue[q]]
  BY DEF B!Disconnect
<1> DEFINE front == [q \in B!TaskQueues |-> [i \in DOMAIN order[q[2]] |-> held[order[q[2]][i]]]]
<1>2. ASSUME NEW p \in Priority
      PROVE  order[p] \in B!SetToSeqs(B!Unsettled(w, p))
  BY <1>1, <1>2 DEF B!Orders
<1>3. \A q \in B!TaskQueues : q[2] \in Priority /\ q = B!TaskQueue(q[2])
  BY QueueNames
<1>4. ASSUME NEW q \in B!TaskQueues
      PROVE  /\ DOMAIN front[q] = DOMAIN order[q[2]]
             /\ \A i \in DOMAIN front[q] :
                  /\ front[q][i] = held[order[q[2]][i]] /\ order[q[2]][i] \in Lane
                  /\ order[q[2]][i][1] = w /\ order[q[2]][i][2] = q[2]
                  /\ held[order[q[2]][i]] # Nothing
             /\ \A i, j \in DOMAIN front[q] : order[q[2]][i] = order[q[2]][j] => i = j
             /\ \A l \in Lane : l[1] = w /\ l[2] = q[2] /\ held[l] # Nothing
                  => \E i \in DOMAIN front[q] : order[q[2]][i] = l
             /\ front[q] \in Seq(Message)
  <2>1. q[2] \in Priority /\ order[q[2]] \in B!SetToSeqs(B!Unsettled(w, q[2]))
    BY <1>2, <1>3, <1>4
  <2> DEFINE s == order[q[2]]
             U == B!Unsettled(w, q[2])
  <2>2. front[q] = [i \in DOMAIN s |-> held[s[i]]]
    BY <1>4
  <2> HIDE DEF front, s, U
  <2>3. /\ \A i \in DOMAIN s : s[i] \in U
        /\ \A i, j \in DOMAIN s : s[i] = s[j] => i = j
        /\ \A l \in U : \E i \in DOMAIN s : s[i] = l
    BY <2>1, OrderOfUnsettled DEF s, U
  <2>4. PICK n \in Nat : DOMAIN s = 1..n
    BY <2>1, OrderOfUnsettled DEF s
  <2>5. /\ \A l \in U : l \in Lane /\ l[1] = w /\ l[2] = q[2] /\ held[l] # Nothing
        /\ \A l \in Lane : l[1] = w /\ l[2] = q[2] /\ held[l] # Nothing => l \in U
    BY <2>1, UnsettledOfConsumer DEF U
  <2>6. front[q] \in Seq(Message)
    <3>1. \A i \in 1..n : held[s[i]] \in Message
      BY <2>3, <2>4, <2>5 DEF QueueTypes
    <3>2. front[q] \in [1..n -> Message]
      BY <2>2, <2>4, <3>1
    <3> QED BY <3>2, IsASeq
  <2> QED BY <2>2, <2>3, <2>5, <2>6 DEF s
<1>5. \A q \in B!TaskQueues : /\ front[q] \in Seq(Message) /\ queue[q] \in Seq(Message)
                              /\ queue'[q] = front[q] \o queue[q]
  BY <1>1, <1>4, QueueKinds DEF QueueTypes
<1> HIDE DEF front
<1>6. InQueues(front, t) <=> \E l \in Lane : l[1] = w /\ Holds(held, l, t)
  <2>1. ASSUME InQueues(front, t) PROVE \E l \in Lane : l[1] = w /\ Holds(held, l, t)
    BY <1>4, <2>1 DEF InQueues, Holds
  <2>2. ASSUME NEW l \in Lane, l[1] = w, Holds(held, l, t) PROVE InQueues(front, t)
    <3>1. B!TaskQueue(l[2]) \in B!TaskQueues /\ B!TaskQueue(l[2])[2] = l[2]
      BY QueueKinds DEF B!TaskQueue, B!Source
    <3>2. PICK i \in DOMAIN front[B!TaskQueue(l[2])] : order[l[2]][i] = l
      BY <1>4, <2>2, <3>1 DEF Holds
    <3> QED BY <1>4, <2>2, <3>1, <3>2 DEF InQueues, Holds
  <2> QED BY <2>1, <2>2
<1>7. ASSUME HeldOnce(held, t) PROVE QueuedOnce(front, t)
  <2> SUFFICES ASSUME NEW q \in B!TaskQueues, NEW r \in B!TaskQueues,
                      NEW i \in DOMAIN front[q], NEW j \in DOMAIN front[r],
                      front[q][i].task = t, front[r][j].task = t
               PROVE  q = r /\ i = j
    BY DEF QueuedOnce
  <2>1. order[q[2]][i] = order[r[2]][j]
    BY <1>4, <1>7 DEF HeldOnce, Holds
  <2>2. q[2] = r[2]
    BY <1>4, <2>1
  <2>3. q = r
    BY <1>3, <2>2
  <2> QED BY <1>4, <2>1, <2>3
<1>8. InQueues(queue', t) <=> InQueues(queue, t) \/ InQueues(front, t)
  BY <1>5, PutBack
<1>9. /\ QueuedOnce(queue, t) /\ QueuedOnce(front, t) /\ ~(InQueues(queue, t) /\ InQueues(front, t))
      => QueuedOnce(queue', t)
  BY <1>5, PutBack
<1>10. TiersHoldRetries(queue) => TiersHoldRetries(queue')
  BY <1>1, QueueKinds DEF TiersHoldRetries
<1>11. \A l \in Lane : held'[l] = IF l[1] = w THEN Nothing ELSE held[l]
  BY ReleasedLanes
<1> QED BY <1>6, <1>7, <1>8, <1>9, <1>10, <1>11

-----------------------------------------------------------------------------
(* One job at a time                                                        *)

\* A published job of t; what a retry tier holds is none.
IsJob(m, t) == m.task = t /\ m.tier = 0
InBuffer(sq, t) == \E i \in DOMAIN sq : IsJob(sq[i], t)
BufferedOnce(sq, t) == \A i, j \in DOMAIN sq : IsJob(sq[i], t) /\ IsJob(sq[j], t) => i = j

\* A handler that is about to publish the first job of t.
Creates(r, t) == r.pc = "create.publish" /\ r.task = t
CreatedOnce(rs, t) == \A s, u \in Request : Creates(rs[s], t) /\ Creates(rs[u], t) => s = u
Created(rs, t) == \E s \in Request : Creates(rs[s], t)
Delivered(h, t) == \E l \in Lane : Holds(h, l, t)

\* Task t has one job at most, in one place.
JobIn(rs, sq, qs, h, t) == Created(rs, t) \/ InBuffer(sq, t) \/ InQueues(qs, t) \/ Delivered(h, t)
OneJob(rs, sq, qs, h, t) ==
  /\ CreatedOnce(rs, t) /\ BufferedOnce(sq, t) /\ QueuedOnce(qs, t) /\ HeldOnce(h, t)
  /\ Created(rs, t) => ~InBuffer(sq, t) /\ ~InQueues(qs, t) /\ ~Delivered(h, t)
  /\ InBuffer(sq, t) => ~InQueues(qs, t) /\ ~Delivered(h, t)
  /\ InQueues(qs, t) => ~Delivered(h, t)

LEMMA BufferAppended ==
  ASSUME NEW sq \in Seq(Message), NEW m \in Message, NEW t
  PROVE  /\ InBuffer(Append(sq, m), t) <=> InBuffer(sq, t) \/ IsJob(m, t)
         /\ BufferedOnce(sq, t) /\ ~(InBuffer(sq, t) /\ IsJob(m, t)) => BufferedOnce(Append(sq, m), t)
<1> DEFINE new == Append(sq, m)
<1>1. /\ Len(sq) + 1 \in DOMAIN new /\ new[Len(sq) + 1] = m
      /\ \A i \in DOMAIN sq : i \in DOMAIN new /\ new[i] = sq[i]
      /\ \A i \in DOMAIN new : i = Len(sq) + 1 \/ (i \in DOMAIN sq /\ new[i] = sq[i])
  BY AppendFacts
<1> HIDE DEF new
<1>2. InBuffer(new, t) <=> InBuffer(sq, t) \/ IsJob(m, t)
  BY <1>1 DEF InBuffer
<1>3. BufferedOnce(sq, t) /\ ~(InBuffer(sq, t) /\ IsJob(m, t)) => BufferedOnce(new, t)
  BY <1>1 DEF InBuffer, BufferedOnce
<1> QED BY <1>2, <1>3 DEF new

LEMMA BufferTaken ==
  ASSUME NEW sq \in Seq(Message), sq # <<>>, NEW t
  PROVE  /\ IsJob(Head(sq), t) => InBuffer(sq, t)
         /\ InBuffer(Tail(sq), t) => InBuffer(sq, t)
         /\ BufferedOnce(sq, t) =>
              BufferedOnce(Tail(sq), t) /\ (IsJob(Head(sq), t) => ~InBuffer(Tail(sq), t))
<1> DEFINE new == Tail(sq)
<1>1. /\ 1 \in DOMAIN sq /\ Head(sq) = sq[1]
      /\ \A i \in DOMAIN new : i \in Nat \ {0} /\ i + 1 \in DOMAIN sq /\ new[i] = sq[i + 1]
  BY TailFacts
<1> HIDE DEF new
<1>2. IsJob(Head(sq), t) => InBuffer(sq, t)
  BY <1>1 DEF InBuffer
<1>3. InBuffer(new, t) => InBuffer(sq, t)
  BY <1>1 DEF InBuffer
<1>4. ASSUME BufferedOnce(sq, t) PROVE BufferedOnce(new, t)
  <2> SUFFICES ASSUME NEW i \in DOMAIN new, NEW j \in DOMAIN new, IsJob(new[i], t), IsJob(new[j], t)
               PROVE  i = j
    BY DEF BufferedOnce
  <2>1. i + 1 = j + 1
    BY <1>1, <1>4 DEF BufferedOnce
  <2> QED BY <1>1, <2>1
<1>5. ASSUME BufferedOnce(sq, t), IsJob(Head(sq), t) PROVE ~InBuffer(new, t)
  <2> SUFFICES ASSUME NEW i \in DOMAIN new, IsJob(new[i], t) PROVE FALSE
    BY DEF InBuffer
  <2>1. i + 1 = 1
    BY <1>1, <1>5 DEF BufferedOnce
  <2> QED BY <1>1, <2>1
<1> QED BY <1>2, <1>3, <1>4, <1>5 DEF new

-----------------------------------------------------------------------------
(* What a request's step does to the jobs of t: it may create one with a new *)
(* row, or hand one over.                                                    *)

HandlerEffect(s, t) ==
  /\ \A u \in Request \ {s} : req'[u] = req[u]
  /\ \/ /\ outbox' = outbox
        /\ Creates(req'[s], t) =>
             Creates(req[s], t) \/ (task[t].status = "ABSENT" /\ task'[t].status # "ABSENT")
     \/ \E m \in Message :
          /\ outbox' = Append(outbox, m) /\ ~Creates(req'[s], t)
          /\ IsJob(m, t) => req[s].task = t /\ req[s].pc \in {"create.publish", "retry.publish"}

RequestStep(s) ==
  (\E t \in TaskId : Inserts(s, t) \/ Reads(s, t)) \/ Continue(s) \/ DbError(s)

LEMMA PublishAppends ==
  ASSUME NEW m, NEW o, Publish(m, o) PROVE outbox' = outbox \/ outbox' = Append(outbox, m)
BY DEF Publish

LEMMA RequestStepJobs ==
  ASSUME IInv, HandlersInv, NEW s \in Request, RequestStep(s), NEW t \in TaskId
  PROVE  HandlerEffect(s, t)
<1>1. TypeOK /\ Slotted(s) /\ req[s] \in Slot
  BY DEF IInv, TypeOK, HandlersInv
<1>2. CASE \E v \in TaskId : Inserts(s, v)
  BY <1>1, <1>2, InsertFacts DEF HandlerEffect, Creates
<1>3. CASE \E v \in TaskId : Reads(s, v)
  BY <1>1, <1>3, ReadFacts DEF HandlerEffect, Creates
<1>4. CASE Continue(s) \/ DbError(s)
  <2>1. \A u \in Request \ {s} : req'[u] = req[u]
    BY <1>1, <1>4, ContinueSlot
  <2>2. CASE CreatePublish(s)
    <3>1. /\ req[s].pc = "create.publish" /\ req[s].task \in TaskId
          /\ outbox' = outbox \/ outbox' = Append(outbox, TaskMessage(req[s]))
      BY <1>1, <2>2, PublishAppends DEF CreatePublish, Slotted, Idle
    <3>2. req'[s].pc \in {"create.markQueued", "idle"}
      BY <1>1, <2>2 DEF CreatePublish, TypeOK, Slot, Finish, IdleSlot
    <3>3. TaskMessage(req[s]) \in Message /\ TaskMessage(req[s]).task = req[s].task
      BY <1>1, <3>1, MessageTypes DEF TaskMessage
    <3> QED BY <2>1, <3>1, <3>2, <3>3 DEF HandlerEffect, Creates, IsJob
  <2>3. CASE ReportSchedule(s)
    <3>1. /\ req[s].task \in TaskId /\ req[s].count # 0 /\ Finish(s)
          /\ outbox' = outbox \/ outbox' = Append(outbox, RetryMessage(req[s]))
      BY <1>1, <2>3, PublishAppends DEF ReportSchedule, Slotted, Idle
    <3>2. RetryMessage(req[s]) \in Message /\ RetryMessage(req[s]).tier # 0
      BY <1>1, <3>1, MessageTypes DEF RetryMessage, Slot
    <3>3. req'[s].pc = "idle"
      BY <1>1, <3>1 DEF TypeOK, Finish, IdleSlot
    <3> QED BY <2>1, <3>1, <3>2, <3>3 DEF HandlerEffect, Creates, IsJob
  <2>4. CASE RetryPublish(s)
    <3>1. /\ req[s].pc = "retry.publish" /\ req[s].task \in TaskId /\ Finish(s)
          /\ outbox' = outbox \/ outbox' = Append(outbox, TaskMessage(req[s]))
      BY <1>1, <2>4, PublishAppends DEF RetryPublish, Slotted, Idle
    <3>2. TaskMessage(req[s]) \in Message /\ TaskMessage(req[s]).task = req[s].task
      BY <1>1, <3>1, MessageTypes DEF TaskMessage
    <3>3. req'[s].pc = "idle"
      BY <1>1, <3>1 DEF TypeOK, Finish, IdleSlot
    <3> QED BY <2>1, <3>1, <3>2, <3>3 DEF HandlerEffect, Creates, IsJob
  <2>5. CASE ~CreatePublish(s) /\ ~ReportSchedule(s) /\ ~RetryPublish(s)
    <3>1. outbox' = outbox
      BY <1>1, <1>4, <2>5 DEF Continue, CreateInsert, CreateConflict, CreateMarkQueued, ReportWrite,
         ReportDeadLetter, CancelWrite, RetryWrite, DeleteWrite, UpdateWrite, DbError, Slotted
    <3>2. req'[s].pc # "create.publish"
      <4>1. CASE Finish(s)
        BY <1>1, <4>1 DEF TypeOK, Finish, IdleSlot
      <4>2. CASE \E pc \in {"report.schedule", "retry.publish"} : \E v, row, n : Remember(s, pc, v, row, n)
        BY <1>1, <4>2, RememberArrives
      <4>3. CASE ReportWrite(s) \/ RetryWrite(s)
        BY <4>1, <4>2, <4>3 DEF ReportWrite, RetryWrite
      <4>4. CASE ~ReportWrite(s) /\ ~RetryWrite(s)
        BY <1>1, <1>4, <2>5, <4>1, <4>4 DEF Continue, CreateInsert, CreateConflict, CreateMarkQueued,
           ReportDeadLetter, CancelWrite, DeleteWrite, UpdateWrite, DbError, Slotted
      <4> QED BY <4>3, <4>4
    <3> QED BY <2>1, <3>1, <3>2 DEF HandlerEffect, Creates
  <2> QED BY <2>2, <2>3, <2>4, <2>5
<1> QED BY <1>2, <1>3, <1>4 DEF RequestStep

-----------------------------------------------------------------------------
(* What the broker's steps do to the jobs of task t                         *)

LEMMA ToBrokerJobs ==
  ASSUME Agreement, IInv, ToBroker, NEW t
  PROVE  /\ UNCHANGED <<task, req, proc, job, held, caller, late, marks>>
         /\ outbox \in Seq(Message) /\ outbox # <<>> /\ outbox' = Tail(outbox)
         /\ InQueues(queue', t) <=> InQueues(queue, t) \/ IsJob(Head(outbox), t)
         /\ QueuedOnce(queue, t) /\ (IsJob(Head(outbox), t) => ~InQueues(queue, t))
              => QueuedOnce(queue', t)
         /\ TiersHoldRetries(queue) => TiersHoldRetries(queue')
<1> DEFINE m == Head(outbox)
<1>1. outbox \in Seq(Message) /\ outbox # <<>> /\ outbox' = Tail(outbox) /\ queue \in Queues
  BY DEF ToBroker, Flush, Agreement, QueueTypes, IInv, TypeOK, Queues
<1>2. m \in Message
  BY <1>1, TailFacts
<1>3. UNCHANGED <<task, req, proc, job, held, caller, late, marks>> /\ queue' = B!Routed(queue, B!PublishedTo(m), m)
  BY DEF ToBroker, Flush, B!Publish, workerVars, notes
<1> HIDE DEF m
<1>4. /\ m.tier = 0 => queue' = [queue EXCEPT ![B!TaskQueue(m.priority)] = Append(@, m)]
      /\ m.tier # 0 => queue' = [queue EXCEPT ![B!RetryQueue(m.tier)] = Append(@, m)]
  BY <1>1, <1>2, <1>3, Routes DEF B!PublishedTo
<1>5. m.priority \in Priority /\ (m.tier # 0 => m.tier \in B!Tier)
  BY <1>2 DEF Message, B!Tier
<1>6. CASE m.tier = 0
  <2>1. /\ InQueues(queue', t) <=> InQueues(queue, t) \/ m.task = t
        /\ QueuedOnce(queue, t) /\ (m.task = t => ~InQueues(queue, t)) => QueuedOnce(queue', t)
    BY <1>1, <1>2, <1>4, <1>5, <1>6, JobAppended, QueueKinds
  <2>2. IsJob(m, t) <=> m.task = t
    BY <1>6 DEF IsJob
  <2>3. \A n \in B!Tier : queue'[B!RetryQueue(n)] = queue[B!RetryQueue(n)]
    BY <1>1, <1>4, <1>5, <1>6, QueueKinds DEF Queues
  <2>4. TiersHoldRetries(queue) => TiersHoldRetries(queue')
    BY <2>3 DEF TiersHoldRetries
  <2> QED BY <1>1, <1>3, <2>1, <2>2, <2>4 DEF m
<1>7. CASE m.tier # 0
  <2> DEFINE k == m.tier
             sq == queue[B!RetryQueue(k)]
  <2>1. \A q \in B!TaskQueues : queue'[q] = queue[q]
    BY <1>1, <1>4, <1>5, <1>7, QueueKinds DEF Queues
  <2>2. (InQueues(queue', t) <=> InQueues(queue, t)) /\ (QueuedOnce(queue', t) <=> QueuedOnce(queue, t))
    BY <2>1, SameTaskQueues
  <2>3. /\ queue'[B!RetryQueue(k)] = Append(sq, m) /\ sq \in Seq(Message)
        /\ \A n \in B!Tier : n # k => queue'[B!RetryQueue(n)] = queue[B!RetryQueue(n)]
    BY <1>1, <1>4, <1>5, <1>7, QueueKinds DEF Queues
  <2>4. ASSUME TiersHoldRetries(queue) PROVE TiersHoldRetries(queue')
    <3>1. \A i \in DOMAIN Append(sq, m) : i = Len(sq) + 1 \/ (i \in DOMAIN sq /\ Append(sq, m)[i] = sq[i])
      BY <1>2, <2>3, AppendFacts
    <3>2. Append(sq, m)[Len(sq) + 1] = m
      BY <1>2, <2>3, AppendFacts
    <3>3. \A i \in DOMAIN sq : sq[i].tier # 0
      BY <1>5, <1>7, <2>4 DEF TiersHoldRetries
    <3>4. \A i \in DOMAIN queue'[B!RetryQueue(k)] : queue'[B!RetryQueue(k)][i].tier # 0
      BY <1>7, <2>3, <3>1, <3>2, <3>3
    <3> QED BY <1>5, <1>7, <2>3, <2>4, <3>4 DEF TiersHoldRetries
  <2>5. ~IsJob(m, t)
    BY <1>7 DEF IsJob
  <2> QED BY <1>1, <1>3, <2>2, <2>4, <2>5 DEF m
<1> QED BY <1>6, <1>7

\* An expired retry has no queue to go to: nothing becomes of it.
LEMMA RetryDueJobs ==
  ASSUME Agreement, TiersHoldRetries(queue), NEW n \in B!Tier, RetryDue(n), NEW t
  PROVE  /\ UNCHANGED <<task, req, outbox, proc, job, held, caller, late, marks>>
         /\ InQueues(queue', t) <=> InQueues(queue, t)
         /\ QueuedOnce(queue', t) <=> QueuedOnce(queue, t)
         /\ TiersHoldRetries(queue')
<1> DEFINE r == B!RetryQueue(n)
           left == [queue EXCEPT ![r] = Tail(@)]
<1>1. /\ r \in B!Queue /\ r \notin B!TaskQueues /\ queue[r] \in Seq(Message) /\ queue[r] # <<>>
      /\ queue' = B!Routed(left, "TASKS", Head(queue[r]))
      /\ UNCHANGED <<task, req, outbox, proc, job, held, caller, late, marks>>
  BY QueueKinds DEF RetryDue, B!Expire, Agreement, QueueTypes, apiVars, workerVars, notes
<1>2. /\ 1 \in DOMAIN queue[r] /\ Head(queue[r]) = queue[r][1] /\ Head(queue[r]) \in Message
      /\ Tail(queue[r]) \in Seq(Message)
      /\ \A i \in DOMAIN Tail(queue[r]) : i + 1 \in DOMAIN queue[r] /\ Tail(queue[r])[i] = queue[r][i + 1]
  BY <1>1, TailFacts
<1>3. Head(queue[r]).tier # 0
  BY <1>2 DEF TiersHoldRetries
<1>4. left \in Queues
  BY <1>1, <1>2 DEF Agreement, QueueTypes, Queues
<1>5. queue' = left
  BY <1>1, <1>2, <1>3, <1>4, Routes
<1>6. /\ queue'[r] = Tail(queue[r])
      /\ \A q \in B!Queue : q # r => queue'[q] = queue[q]
  BY <1>1, <1>5 DEF Agreement, QueueTypes
<1> HIDE DEF left
<1>7. (InQueues(queue', t) <=> InQueues(queue, t)) /\ (QueuedOnce(queue', t) <=> QueuedOnce(queue, t))
  <2>1. \A q \in B!TaskQueues : queue'[q] = queue[q]
    BY <1>1, <1>6, QueueKinds
  <2> QED BY <2>1, SameTaskQueues
<1>8. TiersHoldRetries(queue')
  <2>1. \A i \in DOMAIN queue'[r] : queue'[r][i].tier # 0
    BY <1>2, <1>6 DEF TiersHoldRetries
  <2>2. \A k \in B!Tier : k # n => queue'[B!RetryQueue(k)] = queue[B!RetryQueue(k)]
    BY <1>6, QueueKinds
  <2> QED BY <2>1, <2>2 DEF TiersHoldRetries
<1> QED BY <1>1, <1>7, <1>8

LEMMA TakeJobs ==
  ASSUME Agreement, NEW l \in Lane, TakeJob(l), NEW m, m = Head(queue[B!Source(l)]), NEW t
  PROVE  /\ UNCHANGED <<task, req, outbox, proc, caller, late, marks>> /\ held[l] = Nothing
         /\ m \in Message /\ InQueues(queue, m.task) /\ TakenFrom(queue, queue', m, t)
         /\ \A k \in Lane : held'[k] = IF k = l THEN m ELSE held[k]
         /\ TiersHoldRetries(queue) => TiersHoldRetries(queue')
<1> DEFINE q == B!Source(l)
<1>1. /\ q \in B!TaskQueues /\ q \in B!Queue /\ queue[q] # <<>> /\ queue \in Queues
      /\ queue' = [queue EXCEPT ![q] = Tail(@)]
      /\ held[l] = Nothing /\ held' = [held EXCEPT ![l] = m]
      /\ UNCHANGED <<task, req, outbox, proc, caller, late, marks>>
  BY QueueKinds DEF TakeJob, B!Deliver, W!Take, Agreement, QueueTypes, Queues, apiVars, notes
<1>2. \A k \in Lane : held'[k] = IF k = l THEN m ELSE held[k]
  BY <1>1 DEF Agreement, QueueTypes
<1>3. m = Head(queue[q]) /\ queue[q] \in Seq(Message)
  BY <1>1 DEF Queues
<1> HIDE DEF q
<1>4. m \in Message
  BY <1>1, <1>3, TailFacts
<1>5. InQueues(queue, m.task)
  BY <1>1, <1>3, HeadIsQueued
<1>6. TakenFrom(queue, queue', m, t)
  BY <1>1, <1>3, HeadTaken
<1>7. TiersHoldRetries(queue) => TiersHoldRetries(queue')
  <2>1. \A n \in B!Tier : queue'[B!RetryQueue(n)] = queue[B!RetryQueue(n)]
    BY <1>1, QueueKinds DEF Queues
  <2> QED BY <2>1 DEF TiersHoldRetries
<1> QED BY <1>1, <1>2, <1>4, <1>5, <1>6, <1>7
LEMMA ResumeJobs ==
  ASSUME Agreement, NEW l \in Lane, NEW left, Resume(l, left), UNCHANGED apiVars
  PROVE  /\ UNCHANGED <<task, req, outbox, queue>>
         /\ \A k \in Lane : held'[k] \in {held[k], Nothing}
BY DEF Resume, B!Ack, brokerVars, apiVars, Agreement, QueueTypes

\* The API dies, or what it had buffered is lost.
LEMMA LossJobs ==
  ASSUME ApiDies \/ BufferLost, NEW t
  PROVE  /\ UNCHANGED <<task, queue, held, proc, job>>
         /\ BufferedOnce(outbox', t) /\ ~InBuffer(outbox', t)
         /\ CreatedOnce(req, t) => CreatedOnce(req', t)
         /\ Created(req', t) => Created(req, t)
<1>1. /\ UNCHANGED <<task, queue, held, proc, job>> /\ outbox' = <<>>
      /\ req' = req \/ \A s \in Request : req'[s].pc = "idle"
  BY DEF ApiDies, BufferLost, ApiCrash, ConnectionLost, brokerVars, workerVars, IdleSlot
<1>2. BufferedOnce(outbox', t) /\ ~InBuffer(outbox', t)
  BY <1>1 DEF BufferedOnce, InBuffer
<1> QED BY <1>1, <1>2 DEF CreatedOnce, Created, Creates

\* The steps of the pipeline, by what they do to jobs.
LEMMA JobSteps ==
  ASSUME Agreement, Books, PipelineNext
  PROVE  \/ \E s \in Request : RequestStep(s) /\ UNCHANGED <<brokerVars, proc>>
         \/ ToBroker \/ \E n \in B!Tier : RetryDue(n)
         \/ \E l \in Lane : TakeJob(l) \/ RunJob(l) \/ \E left : Resume(l, left) /\ UNCHANGED apiVars
         \/ ApiDies \/ BufferLost
         \/ \E w \in Worker : \/ StartWorker(w) \/ WorkerExit(w)
                              \/ WorkerCrash(w) \/ WorkerDrop(w) \/ WorkerShutdown(w)
<1>1. CASE Progress
  <2>1. ASSUME NEW s \in Request, ApiStep(s)
        PROVE  RequestStep(s) /\ UNCHANGED <<brokerVars, proc>>
    BY <2>1 DEF ApiStep, RequestStep, workerVars
  <2>2. ASSUME NEW l \in Lane, ReportIgnored(l) \/ ReportAnswered(l)
        PROVE  Resume(l, {}) /\ UNCHANGED apiVars
    BY <2>2 DEF ReportIgnored, ReportAnswered
  <2>3. ASSUME NEW l \in Lane, NEW s \in Request, ReportArrives(l, s)
        PROVE  RequestStep(s) /\ UNCHANGED <<brokerVars, proc>>
    <3>1. W!Busy(l) /\ ReportRead(s, TaskOf(l), job[l].next) /\ UNCHANGED <<brokerVars, proc>>
      BY <2>3 DEF ReportArrives, W!Call, W!Busy
    <3> QED BY <3>1, JobsOfTasks DEF RequestStep, Reads
  <2> QED BY <1>1, <2>1, <2>2, <2>3 DEF Progress
<1>2. CASE Outside
  <2>1. ASSUME NEW s \in Request, Create(s) \/ StatementFails(s)
        PROVE  RequestStep(s) /\ UNCHANGED <<brokerVars, proc>>
    <3>1. CASE StatementFails(s)
      BY <3>1 DEF StatementFails, RequestStep, workerVars
    <3>2. CASE Create(s)
      BY <3>2 DEF Create, RequestStep, workerVars, Inserts, CreateUnkeyed
    <3> QED BY <2>1, <3>1, <3>2
  <2>2. ASSUME NEW s \in Request, NEW t \in TaskId, Operate(s, t)
        PROVE  RequestStep(s) /\ UNCHANGED <<brokerVars, proc>>
    BY <2>2 DEF Operate, RequestStep, Reads, workerVars
  <2>3. ASSUME NEW l \in Lane, ReportFails(l) \/ ReportTimesOut(l) \/ ReportOverdue(l)
        PROVE  (\E left : Resume(l, left)) /\ UNCHANGED apiVars
    BY <2>3 DEF ReportFails, ReportTimesOut, ReportOverdue
  <2>4. ASSUME NEW r \in late, NEW s \in Request, LateReportArrives(r, s)
        PROVE  RequestStep(s) /\ UNCHANGED <<brokerVars, proc>>
    BY <2>4 DEF LateReportArrives, RequestStep, Reads, workerVars, Books, LateTypes
  <2> QED BY <1>2, <2>1, <2>2, <2>3, <2>4 DEF Outside
<1> QED BY <1>1, <1>2 DEF PipelineNext

-----------------------------------------------------------------------------
(* A job is of a task that has a row, and as long as no operator retries the *)
(* task, it has one job at most, in one place.                               *)

Rowed(t) == JobIn(req, outbox, queue, held, t) => task[t].status # "ABSENT"
Sole(t) == OneJob(req, outbox, queue, held, t)
JobsInv ==
  /\ TiersHoldRetries(queue)
  /\ \A t \in TaskId : Rowed(t) /\ ("retry" \notin marks[t] => Sole(t))

LEMMA HandlerKeepsRowed ==
  ASSUME IInv, HandlersInv, NEW t \in TaskId, NEW s \in Request, HandlerEffect(s, t), Rowed(t),
         UNCHANGED brokerVars, task[t].status # "ABSENT" => task'[t].status # "ABSENT"
  PROVE  Rowed(t)'
<1>1. CASE outbox' = outbox /\ (Creates(req'[s], t) => Creates(req[s], t) \/ task'[t].status # "ABSENT")
  <2>1. Created(req', t) => Created(req, t) \/ task'[t].status # "ABSENT"
    BY <1>1 DEF HandlerEffect, Created
  <2> QED BY <1>1, <2>1 DEF Rowed, JobIn, brokerVars
<1>2. ASSUME NEW m \in Message, outbox' = Append(outbox, m), ~Creates(req'[s], t),
             IsJob(m, t) => req[s].task = t
      PROVE  Rowed(t)'
  <2>1. InBuffer(outbox', t) <=> InBuffer(outbox, t) \/ IsJob(m, t)
    BY <1>2, BufferAppended DEF IInv, TypeOK
  <2>2. /\ IsJob(m, t) => task[t].status # "ABSENT"
        /\ Created(req', t) => Created(req, t)
    BY <1>2, WorkedOnExists DEF Created, HandlerEffect
  <2> QED BY <2>1, <2>2 DEF Rowed, JobIn, brokerVars
<1> QED BY <1>1, <1>2 DEF HandlerEffect

LEMMA HandlerKeepsOne ==
  ASSUME IInv, HandlersInv, NEW t \in TaskId, NEW s \in Request, HandlerEffect(s, t), Sole(t), Rowed(t),
         "retry" \notin marks[t], UNCHANGED brokerVars
  PROVE  Sole(t)'
<1>1. CASE outbox' = outbox /\ (Creates(req'[s], t) => Creates(req[s], t))
  <2>1. Created(req', t) => Created(req, t)
    BY <1>1 DEF HandlerEffect, Created
  <2>2. CreatedOnce(req', t)
    BY <1>1 DEF HandlerEffect, CreatedOnce, Sole, OneJob
  <2> QED BY <1>1, <2>1, <2>2 DEF Sole, OneJob, JobIn, brokerVars
<1>2. CASE outbox' = outbox /\ task[t].status = "ABSENT"
  <2>1. CreatedOnce(req', t)
    BY <1>2 DEF HandlerEffect, CreatedOnce, Rowed, JobIn, Created
  <2> QED BY <1>2, <2>1 DEF Sole, Rowed, OneJob, JobIn, brokerVars
<1>3. ASSUME NEW m \in Message, outbox' = Append(outbox, m), ~Creates(req'[s], t),
             IsJob(m, t) => req[s].task = t /\ req[s].pc \in {"create.publish", "retry.publish"}
      PROVE  Sole(t)'
  <2>1. /\ InBuffer(outbox', t) <=> InBuffer(outbox, t) \/ IsJob(m, t)
        /\ BufferedOnce(outbox, t) /\ ~(InBuffer(outbox, t) /\ IsJob(m, t)) => BufferedOnce(outbox', t)
    BY <1>3, BufferAppended DEF IInv, TypeOK
  <2>2. IsJob(m, t) => Creates(req[s], t)
    BY <1>3 DEF HandlersInv, Slotted, Creates
  <2>3. /\ IsJob(m, t) => Created(req, t)
        /\ CreatedOnce(req, t) => CreatedOnce(req', t)
        /\ Created(req', t) => Created(req, t)
        /\ CreatedOnce(req, t) /\ IsJob(m, t) => ~Created(req', t)
    BY <1>3, <2>2 DEF HandlerEffect, CreatedOnce, Created
  <2> QED BY <2>1, <2>3 DEF Sole, OneJob, brokerVars
<1> QED BY <1>1, <1>2, <1>3 DEF HandlerEffect

\* What takes jobs away, and puts none anywhere.
LEMMA FewerKeepOne ==
  ASSUME NEW t, Sole(t), UNCHANGED queue,
         CreatedOnce(req, t) => CreatedOnce(req', t), Created(req', t) => Created(req, t),
         BufferedOnce(outbox, t) => BufferedOnce(outbox', t), InBuffer(outbox', t) => InBuffer(outbox, t),
         \A l \in Lane : held'[l] \in {held[l], Nothing}
  PROVE  Sole(t)'
<1>1. \A l \in Lane : Holds(held', l, t) => Holds(held, l, t)
  BY DEF Holds
<1>2. (Delivered(held', t) => Delivered(held, t)) /\ (HeldOnce(held, t) => HeldOnce(held', t))
  BY <1>1 DEF HeldOnce, Delivered
<1> QED BY <1>2 DEF Sole, OneJob, JobIn

LEMMA ToBrokerKeepsOne ==
  ASSUME Agreement, IInv, ToBroker, NEW t, Sole(t) PROVE Sole(t)'
<1>1. /\ UNCHANGED <<req, held>> /\ outbox \in Seq(Message) /\ outbox # <<>> /\ outbox' = Tail(outbox)
      /\ InQueues(queue', t) <=> InQueues(queue, t) \/ IsJob(Head(outbox), t)
      /\ QueuedOnce(queue, t) /\ (IsJob(Head(outbox), t) => ~InQueues(queue, t)) => QueuedOnce(queue', t)
  BY ToBrokerJobs
<1>2. /\ IsJob(Head(outbox), t) => InBuffer(outbox, t)
      /\ InBuffer(outbox', t) => InBuffer(outbox, t)
      /\ BufferedOnce(outbox, t) =>
           BufferedOnce(outbox', t) /\ (IsJob(Head(outbox), t) => ~InBuffer(outbox', t))
  BY <1>1, BufferTaken
<1> QED BY <1>1, <1>2 DEF Sole, OneJob, JobIn

LEMMA TakeKeepsOne ==
  ASSUME Agreement, NEW l \in Lane, TakeJob(l), NEW t, Sole(t) PROVE Sole(t)'
<1> DEFINE m == Head(queue[B!Source(l)])
<1>1. /\ UNCHANGED <<req, outbox>> /\ InQueues(queue, m.task)
      /\ \A k \in Lane : held'[k] = IF k = l THEN m ELSE held[k]
  BY TakeJobs
<1>2. TakenFrom(queue, queue', m, t)
  BY TakeJobs
<1> HIDE DEF m
<1>3. CASE m.task = t
  <2>1. \A k \in Lane : ~Holds(held, k, t)
    BY <1>1, <1>3 DEF Sole, OneJob, Delivered
  <2>2. \A k \in Lane : Holds(held', k, t) => k = l
    BY <1>1, <2>1 DEF Holds
  <2>3. HeldOnce(held', t)
    BY <2>2 DEF HeldOnce
  <2> QED BY <1>1, <1>2, <1>3, <2>3 DEF Sole, OneJob, TakenFrom
<1>4. CASE m.task # t
  <2>1. \A k \in Lane : Holds(held', k, t) => Holds(held, k, t)
    BY <1>1, <1>4 DEF Holds
  <2>2. (Delivered(held', t) => Delivered(held, t)) /\ (HeldOnce(held, t) => HeldOnce(held', t))
    BY <2>1 DEF HeldOnce, Delivered
  <2> QED BY <1>1, <1>2, <2>2 DEF Sole, OneJob, TakenFrom
<1> QED BY <1>3, <1>4

\* A lost worker's deliveries are queued again, and gone from its lanes.
LEMMA DisconnectKeepsOne ==
  ASSUME QueueTypes, NEW w \in Worker, B!Disconnect(w), UNCHANGED <<req, outbox>>, NEW t, Sole(t)
  PROVE  Sole(t)'
<1>1. /\ InQueues(queue', t) <=> InQueues(queue, t) \/ \E l \in Lane : l[1] = w /\ Holds(held, l, t)
      /\ /\ QueuedOnce(queue, t) /\ HeldOnce(held, t)
         /\ InQueues(queue, t) => \A l \in Lane : ~Holds(held, l, t)
         => QueuedOnce(queue', t)
      /\ \A l \in Lane : held'[l] = IF l[1] = w THEN Nothing ELSE held[l]
  BY DisconnectJobs
<1>2. \A l \in Lane : Holds(held', l, t) => Holds(held, l, t) /\ l[1] # w
  BY <1>1 DEF Holds
<1>3. HeldOnce(held', t) /\ (Delivered(held', t) => Delivered(held, t))
  BY <1>2 DEF HeldOnce, Delivered, Sole, OneJob
<1>4. InQueues(queue', t) => ~Delivered(held', t)
  BY <1>1, <1>2 DEF HeldOnce, Delivered, Sole, OneJob
<1>5. InQueues(queue', t) => InQueues(queue, t) \/ Delivered(held, t)
  BY <1>1 DEF Delivered
<1>6. QueuedOnce(queue', t)
  BY <1>1 DEF Sole, OneJob, Delivered
<1> QED BY <1>3, <1>4, <1>5, <1>6 DEF Sole, OneJob
LEMMA JobsStep ==
  ASSUME Agreement, IInv, Books, HandlersInv, JobsInv, PipelineNext
  PROVE  JobsInv'
<1>0. /\ [Next]_vars /\ outbox \in Seq(Message) /\ TiersHoldRetries(queue)
      /\ \A t \in TaskId : /\ marks[t] \subseteq marks'[t]
                           /\ Rowed(t) /\ ("retry" \notin marks[t] => Sole(t))
  BY PipelineStepIsCommandStep, MarksGrow DEF Books, IInv, TypeOK, JobsInv
<1>1. SUFFICES /\ TiersHoldRetries(queue')
               /\ \A t \in TaskId : Rowed(t)' /\ ("retry" \notin marks[t] /\ Sole(t) => Sole(t)')
  BY <1>0 DEF JobsInv
<1> DEFINE Goal == /\ TiersHoldRetries(queue')
                   /\ \A t \in TaskId : Rowed(t)' /\ ("retry" \notin marks[t] /\ Sole(t) => Sole(t)')
<1>2. ASSUME NEW s \in Request, RequestStep(s), UNCHANGED brokerVars PROVE Goal
  <2>1. \A t \in TaskId : HandlerEffect(s, t)
    BY <1>2, RequestStepJobs
  <2> QED BY <1>0, <1>2, <2>1, RowsStay, HandlerKeepsRowed, HandlerKeepsOne DEF brokerVars
<1>3. CASE ToBroker
  <2>1. UNCHANGED <<task, req, held>> /\ TiersHoldRetries(queue')
    BY <1>0, <1>3, ToBrokerJobs
  <2>2. ASSUME NEW t \in TaskId PROVE Rowed(t)'
    <3>1. /\ outbox # <<>> /\ outbox' = Tail(outbox)
          /\ InQueues(queue', t) <=> InQueues(queue, t) \/ IsJob(Head(outbox), t)
      BY <1>3, ToBrokerJobs
    <3>2. (IsJob(Head(outbox), t) => InBuffer(outbox, t)) /\ (InBuffer(outbox', t) => InBuffer(outbox, t))
      BY <1>0, <3>1, BufferTaken
    <3> QED BY <1>0, <2>1, <3>1, <3>2 DEF Rowed, JobIn
  <2> QED BY <1>3, <2>1, <2>2, ToBrokerKeepsOne
<1>4. ASSUME NEW n \in B!Tier, RetryDue(n) PROVE Goal
  <2>1. UNCHANGED <<task, req, outbox, held>> /\ TiersHoldRetries(queue')
    BY <1>0, <1>4, RetryDueJobs
  <2>2. \A t \in TaskId : /\ InQueues(queue', t) <=> InQueues(queue, t)
                          /\ QueuedOnce(queue', t) <=> QueuedOnce(queue, t)
    BY <1>0, <1>4, RetryDueJobs
  <2> QED BY <1>0, <2>1, <2>2 DEF Rowed, JobIn, Sole, OneJob
<1>5. ASSUME NEW l \in Lane, TakeJob(l) PROVE Goal
  <2> DEFINE m == Head(queue[B!Source(l)])
  <2>1. /\ UNCHANGED <<task, req, outbox>> /\ TiersHoldRetries(queue')
        /\ InQueues(queue, m.task)
        /\ \A k \in Lane : held'[k] = IF k = l THEN m ELSE held[k]
    BY <1>0, <1>5, TakeJobs
  <2>2. ASSUME NEW t \in TaskId PROVE Rowed(t)'
    <3>1. TakenFrom(queue, queue', m, t)
      BY <1>5, TakeJobs
    <3> HIDE DEF m
    <3>2. Delivered(held', t) => Delivered(held, t) \/ m.task = t
      BY <2>1 DEF Delivered, Holds
    <3> QED BY <1>0, <2>1, <3>1, <3>2 DEF Rowed, JobIn, TakenFrom
  <2> QED BY <1>5, <2>1, <2>2, TakeKeepsOne
<1>6. ASSUME UNCHANGED <<task, queue>>, \A k \in Lane : held'[k] \in {held[k], Nothing},
             \A t \in TaskId : /\ CreatedOnce(req, t) => CreatedOnce(req', t)
                               /\ Created(req', t) => Created(req, t)
                               /\ BufferedOnce(outbox, t) => BufferedOnce(outbox', t)
                               /\ InBuffer(outbox', t) => InBuffer(outbox, t)
      PROVE  Goal
  <2>1. \A t \in TaskId : Delivered(held', t) => Delivered(held, t)
    BY <1>6 DEF Delivered, Holds
  <2>2. \A t \in TaskId : Rowed(t)'
    BY <1>0, <1>6, <2>1 DEF Rowed, JobIn
  <2> QED BY <1>0, <1>6, <2>2, FewerKeepOne
<1>7. CASE ApiDies \/ BufferLost
  <2>1. UNCHANGED <<task, queue, held>>
    BY <1>7, LossJobs
  <2> QED BY <1>6, <1>7, <2>1, LossJobs
<1>8. ASSUME NEW w \in Worker, B!Disconnect(w), UNCHANGED <<task, req, outbox>> PROVE Goal
  <2>1. /\ TiersHoldRetries(queue')
        /\ \A l \in Lane : held'[l] = IF l[1] = w THEN Nothing ELSE held[l]
    BY <1>0, <1>8, DisconnectJobs DEF Agreement
  <2>2. ASSUME NEW t \in TaskId PROVE Rowed(t)'
    <3>1. InQueues(queue', t) => InQueues(queue, t) \/ Delivered(held, t)
      BY <1>8, DisconnectJobs DEF Agreement, Delivered
    <3>2. Delivered(held', t) => Delivered(held, t)
      BY <2>1 DEF Delivered, Holds
    <3> QED BY <1>0, <1>8, <3>1, <3>2 DEF Rowed, JobIn
  <2> QED BY <1>8, <2>1, <2>2, DisconnectKeepsOne DEF Agreement
<1>9. ASSUME NEW l \in Lane, NEW left, Resume(l, left), UNCHANGED apiVars PROVE Goal
  BY <1>6, <1>9, ResumeJobs
<1>10. ASSUME UNCHANGED <<apiVars, brokerVars>> PROVE Goal
  BY <1>6, <1>10 DEF apiVars, brokerVars
<1>11. ASSUME NEW w \in Worker,
              StartWorker(w) \/ WorkerExit(w) \/ WorkerCrash(w) \/ WorkerDrop(w) \/ WorkerShutdown(w)
       PROVE  Goal
  <2>1. CASE StartWorker(w) \/ WorkerExit(w)
    BY <1>10, <2>1 DEF StartWorker, WorkerExit
  <2>2. CASE WorkerCrash(w) \/ WorkerDrop(w) \/ WorkerShutdown(w)
    BY <1>8, <2>2 DEF WorkerCrash, WorkerDrop, WorkerShutdown, apiVars
  <2> QED BY <1>11, <2>1, <2>2
<1>12. ASSUME NEW l \in Lane, RunJob(l) PROVE Goal
  BY <1>10, <1>12 DEF RunJob
<1> QED BY <1>2, <1>3, <1>4, <1>5, <1>7, <1>9, <1>11, <1>12, JobSteps

LEMMA NoJobsYet ==
  ASSUME PipelineInit
  PROVE  /\ \A s \in Request : req[s].pc = "idle"
         /\ TiersHoldRetries(queue)
         /\ \A t : /\ OneJob(req, outbox, queue, held, t)
                   /\ ~JobIn(req, outbox, queue, held, t)
<1>1. /\ \A s \in Request : req[s].pc = "idle"
      /\ outbox = <<>> /\ \A q \in B!Queue : queue[q] = <<>>
      /\ \A l \in Lane : held[l] = Nothing
  BY DEF PipelineInit, Init, IdleSlot
<1>2. TiersHoldRetries(queue)
  BY <1>1, QueueKinds DEF TiersHoldRetries
<1>3. ASSUME NEW t
      PROVE  OneJob(req, outbox, queue, held, t) /\ ~JobIn(req, outbox, queue, held, t)
  <2>1. CreatedOnce(req, t) /\ ~Created(req, t)
    BY <1>1 DEF CreatedOnce, Created, Creates
  <2>2. BufferedOnce(outbox, t) /\ ~InBuffer(outbox, t)
    BY <1>1 DEF BufferedOnce, InBuffer
  <2>3. QueuedOnce(queue, t) /\ ~InQueues(queue, t)
    BY <1>1, QueueKinds DEF QueuedOnce, InQueues
  <2>4. HeldOnce(held, t) /\ ~Delivered(held, t)
    BY <1>1 DEF HeldOnce, Delivered, Holds
  <2> QED BY <2>1, <2>2, <2>3, <2>4 DEF OneJob, JobIn
<1> QED BY <1>1, <1>2, <1>3
LEMMA JobsInvariant == PipelineSpec => []JobsInv
<1>1. PipelineInit => JobsInv
  BY NoJobsYet DEF JobsInv, Rowed, Sole
<1>2. Agreement /\ IInv /\ Books /\ HandlersInv /\ JobsInv /\ [PipelineNext]_pipelineVars => JobsInv'
  <2>1. JobsInv /\ UNCHANGED pipelineVars => JobsInv'
    BY DEF pipelineVars, apiVars, brokerVars, notes, JobsInv, Rowed, Sole, OneJob, JobIn
  <2> QED BY <2>1, JobsStep
<1> QED BY <1>1, <1>2, HandlersInvariant, PipelineInvariant, PTL DEF PipelineSpec

\* Of the lanes at work on a task at most one can acknowledge its job, through every
\* fault, shutdown and operator action but a retry of that task, which publishes a
\* second one: whoever else still runs it has lost the connection it came over.
THEOREM OneSubscriber == PipelineSpec => []OneSubscribedRunner
<1>1. Agreement /\ JobsInv => OneSubscribedRunner
  <2> SUFFICES ASSUME Agreement, JobsInv, NEW l \in Lane, NEW k \in Lane,
                      W!Busy(l), W!Busy(k), TaskOf(l) = TaskOf(k),
                      proc[l[1]] = "consuming", proc[k[1]] = "consuming",
                      "retry" \notin marks[TaskOf(l)]
               PROVE  l = k
    BY DEF OneSubscribedRunner
  <2>1. \A i \in {l, k} : Holds(held, i, TaskOf(l)) /\ TaskOf(l) \in TaskId
    BY PipelineAssumption DEF Agreement, BusyHasJob, DeliveriesMatchJobs, Holds, TaskOf, Message
  <2> QED BY <2>1 DEF JobsInv, Sole, OneJob, HeldOnce
<1> QED BY <1>1, JobsInvariant, PipelineInvariant, PTL

-----------------------------------------------------------------------------
(* What becomes of an unmarked task, one whose handlers have neither met nor *)
(* failed, whose reports were heard and which nobody retried.                *)

Clean(t) == marks[t] = {}

Creating(t) ==
  \E s \in Request : req[s].task = t /\ req[s].pc \in {"create.publish", "create.markQueued"}
ReportsRunning(t) ==
  \E s \in Request : req[s].task = t /\ req[s].pc = "report.write" /\ req[s].next = "RUNNING"
ReportsOutcome(t) ==
  \E s \in Request : req[s].task = t /\ req[s].pc = "report.write" /\ req[s].next # "RUNNING"

\* Task t will not run any more, unless an operator retries it.
Over(t) == task[t].status \notin {"ABSENT", "PENDING", "QUEUED", "RUNNING"}
Begun(t) == task[t].status = "RUNNING" \/ ReportsRunning(t) \/ Over(t)
\* A PENDING task is still being created.
Queueing(t) == task[t].status = "PENDING" => Creating(t)

\* A step lets handlers go on or begin, and takes nothing back.
MovesOn(t) ==
  /\ Over(t) => Over(t)'
  /\ Begun(t) => Begun(t)'
  /\ ReportsOutcome(t) => ReportsOutcome(t)' \/ Over(t)'
  /\ task'[t].status = "RUNNING" => Begun(t) /\ ~Over(t)
  /\ task[t].status # "ABSENT" => task'[t].status # "ABSENT"
  /\ Queueing(t) => Queueing(t)'

\* The statuses a handler finds, and leaves behind, at each of its statements.
HandlerMove(s, was, is) ==
  LET r == req[s]
  IN  \/ /\ r.pc = "create.publish" /\ was = "PENDING" /\ is = was
         /\ req'[s].pc \in {"create.markQueued", "idle"}
      \/ r.pc = "create.markQueued" /\ was = "PENDING" /\ is = "QUEUED" /\ req'[s].pc = "idle"
      \/ /\ r.pc = "report.write" /\ r.next \in Reportable /\ CanTransition(was, r.next) /\ is = r.next
         /\ req'[s].pc = IF r.next = "RETRYING" THEN "report.schedule" ELSE "idle"
      \/ /\ r.pc = "report.schedule" /\ was = "RETRYING" /\ is \in {"RETRYING", "DEAD_LETTERED"}
         /\ req'[s].pc = "idle"
      \/ /\ r.pc \in {"cancel.write", "delete.write", "update.write"}
         /\ is \in {was, "CANCELLED", "DELETED"} /\ req'[s].pc = "idle"

LEMMA FoundRow ==
  ASSUME IInv, NEW s \in Request, Slotted(s), Fresh(s), ~Idle(s)
  PROVE  /\ req[s].task \in TaskId /\ req[s] \in Slot /\ task[req[s].task] \in Row
         /\ req[s].seen = task[req[s].task].status /\ SlotSound(s)
BY DEF Slotted, Fresh, Idle, IInv, TypeOK, SlotsSound, SlotSound

LEMMA OwnRow ==
  ASSUME TypeOK, NEW t \in TaskId, NEW row, Exists(t), UpdateById(t, row)
  PROVE  task'[t] = row
BY DEF UpdateById, TypeOK

LEMMA ContinueMove ==
  ASSUME IInv, NEW s \in Request, Slotted(s), Fresh(s), "retry" \notin marks[req[s].task], Continue(s)
  PROVE  HandlerMove(s, task[req[s].task].status, task'[req[s].task].status)
<1> DEFINE r == req[s]
           old == task[r.task]
<1>0. TypeOK /\ (Finish(s) => req'[s].pc = "idle")
  BY FinishType DEF IInv, TypeOK
<1>1. ~Idle(s)
  BY DEF Continue, CreateInsert, CreateConflict, CreatePublish, CreateMarkQueued, ReportWrite,
         ReportDeadLetter, ReportSchedule, CancelWrite, RetryWrite, RetryPublish, DeleteWrite,
         UpdateWrite, Idle
<1>2. r.task \in TaskId /\ r \in Slot /\ old \in Row /\ r.seen = old.status /\ SlotSound(s)
  BY <1>1, FoundRow
<1>3. CASE CreatePublish(s)
  <2>1. req'[s].pc \in {"create.markQueued", "idle"}
    BY <1>0, <1>3 DEF CreatePublish, TypeOK, Slot
  <2> QED BY <1>2, <1>3, <2>1 DEF CreatePublish, SlotSound, HandlerMove
<1>4. CASE CreateMarkQueued(s)
  <2>1. old.status = "PENDING" /\ Exists(r.task)
    BY <1>2, <1>4 DEF CreateMarkQueued, SlotSound, Exists, TaskStatus
  <2>2. task'[r.task] = [old EXCEPT !.status = "QUEUED"]
    BY <1>0, <1>2, <1>4, <2>1, OwnRow DEF CreateMarkQueued
  <2>3. task'[r.task].status = "QUEUED"
    BY <1>2, <2>2 DEF Row
  <2> QED BY <1>0, <1>4, <2>1, <2>3 DEF CreateMarkQueued, HandlerMove
<1>5. CASE ReportWrite(s)
  <2> DEFINE row == Transitioned(old, r)
  <2>1. /\ CanTransition(old.status, r.next) /\ Exists(r.task)
        /\ r.next \in Reportable /\ r.next \in TaskStatus
    BY <1>2, <1>5, StatusTypes DEF ReportWrite, SlotSound, Exists
  <2>2. row.status = r.next
    BY <1>2, <2>1, TransitionedType
  <2>3. UpdateById(r.task, row)
    BY <1>5 DEF ReportWrite
  <2>4. IF r.next = "RETRYING" THEN Remember(s, "report.schedule", r.task, row, "DEAD_LETTERED")
                               ELSE Finish(s)
    BY <1>5, <2>1 DEF ReportWrite
  <2> HIDE DEF row
  <2>5. task'[r.task] = row
    BY <1>0, <1>2, <2>1, <2>3, OwnRow
  <2>6. req'[s].pc = IF r.next = "RETRYING" THEN "report.schedule" ELSE "idle"
    BY <1>0, <2>4, RememberArrives
  <2> QED BY <1>5, <2>1, <2>2, <2>5, <2>6 DEF ReportWrite, HandlerMove
<1>6. CASE ReportDeadLetter(s) \/ ReportSchedule(s)
  <2>1. old.status = "RETRYING" /\ Exists(r.task) /\ r.pc = "report.schedule" /\ req'[s].pc = "idle"
    BY <1>0, <1>2, <1>6 DEF ReportDeadLetter, ReportSchedule, SlotSound, Exists, TaskStatus
  <2>2. CASE ReportSchedule(s)
    BY <2>1, <2>2 DEF ReportSchedule, HandlerMove
  <2>3. CASE ReportDeadLetter(s)
    <3>1. task'[r.task] = DeadLettered(old)
      BY <1>0, <1>2, <2>1, <2>3, OwnRow DEF ReportDeadLetter
    <3>2. task'[r.task].status = "DEAD_LETTERED"
      BY <1>2, <3>1 DEF DeadLettered, Row
    <3> QED BY <2>1, <3>2 DEF HandlerMove
  <2> QED BY <1>6, <2>2, <2>3
<1>7. ASSUME NEW row, UpdateById(r.task, row), row.status \in {old.status, "CANCELLED", "DELETED"}
      PROVE  task'[r.task].status \in {old.status, "CANCELLED", "DELETED"}
  BY <1>0, <1>2, <1>7, OwnRow DEF UpdateById
<1>8. CASE CancelWrite(s)
  <2>1. Cancelled(old).status = "CANCELLED"
    BY <1>2 DEF Cancelled, Row
  <2> QED BY <1>0, <1>7, <1>8, <2>1 DEF CancelWrite, HandlerMove
<1>9. CASE DeleteWrite(s)
  <2>1. [old EXCEPT !.status = "DELETED"].status = "DELETED"
    BY <1>2 DEF Row
  <2> QED BY <1>0, <1>7, <1>9, <2>1 DEF DeleteWrite, HandlerMove
<1>10. CASE UpdateWrite(s)
  <2>1. [old EXCEPT !.priority = r.priority, !.maxRetries = r.limit].status = old.status
    BY <1>2 DEF Row
  <2> QED BY <1>0, <1>7, <1>10, <2>1 DEF UpdateWrite, HandlerMove
<1>11. ~CreateInsert(s) /\ ~CreateConflict(s) /\ ~RetryWrite(s) /\ ~RetryPublish(s)
  BY DEF CreateInsert, CreateConflict, RetryWrite, RetryPublish, Slotted
<1> QED BY <1>3, <1>4, <1>5, <1>6, <1>8, <1>9, <1>10, <1>11 DEF Continue
\* A step that leaves t and its handlers alone.
Still(t) ==
  /\ task'[t] = task[t]
  /\ \A s \in Request : req[s].task = t \/ req'[s].task = t => req'[s] = req[s]

LEMMA StillMovesOn ==
  ASSUME NEW t, Still(t)
  PROVE  MovesOn(t) /\ (ReportsRunning(t)' => ReportsRunning(t))
<1>1. /\ Creating(t)' <=> Creating(t)
      /\ ReportsRunning(t)' <=> ReportsRunning(t)
      /\ ReportsOutcome(t)' <=> ReportsOutcome(t)
  BY DEF Still, Creating, ReportsRunning, ReportsOutcome
<1> QED BY <1>1 DEF Still, MovesOn, Over, Begun, Queueing

\* What a step is to a task it leaves unmarked.
LEMMA TaskSteps ==
  ASSUME Agreement, IInv, Books, HandlersInv, PipelineNext, NEW t \in TaskId, Clean(t)'
  PROVE  \/ Still(t)
         \/ \E s \in Request : Inserts(s, t)
         \/ \E s \in Request : Noted(s, t) /\ ~AtWorkOn(t)
         \/ \E s \in Request : req[s].task = t /\ ApiStep(s)
<1>1. [Next]_vars /\ TypeOK
  BY PipelineStepIsCommandStep DEF IInv, Books
<1>2. ASSUME NEW s \in Request, req[s].task # t, req'[s].task # t,
             \A u \in Request \ {s} : req'[u] = req[u], ~RowInsert(t)
      PROVE  Still(t)
  BY <1>1, <1>2, RowOwner DEF Still
<1>3. UNCHANGED <<task, req>> => Still(t)
  BY DEF Still
<1>4. CASE ApiDies /\ ApiCrash
  <2>1. ~AtWorkOn(t)
    BY <1>4 DEF ApiDies, Clean
  <2>2. task' = task /\ \A s \in Request : req'[s].task # t
    BY <1>4, TaskCommandsAssumption DEF ApiCrash, IdleSlot
  <2> QED BY <2>1, <2>2 DEF Still, AtWorkOn
<1>5. ASSUME NEW s \in Request, ApiStep(s), Continue(s)
      PROVE  Still(t) \/ req[s].task = t
  <2>1. /\ ~Idle(s) /\ \A u \in Request \ {s} : req'[u] = req[u]
        /\ req'[s].task \in {req[s].task, NoTask}
    BY <1>5, ContinueSlot DEF HandlersInv
  <2>2. ~RowInsert(t)
    <3>1. req[s].pc # "create.insert"
      BY DEF HandlersInv, Slotted
    <3>2. CASE task'[t] # task[t] /\ RowInsert(t)
      <4>1. \/ task' = task \/ \E row : UpdateById(req[s].task, row)
        BY <1>5, <3>1 DEF Continue, CreateInsert, CreateConflict, CreatePublish, CreateMarkQueued, ReportWrite,
           ReportDeadLetter, ReportSchedule, CancelWrite, RetryWrite, RetryPublish, DeleteWrite, UpdateWrite
      <4>2. task[t].status = "ABSENT" => task'[t] = task[t]
        BY <1>1, <4>1 DEF UpdateById, Exists, TaskStatus, TypeOK
      <4> QED BY <3>2, <4>2 DEF RowInsert
    <3> QED BY <3>2 DEF RowInsert
  <2> QED BY <1>2, <2>1, <2>2, TaskCommandsAssumption
<1>6. ASSUME NEW s \in Request, StatementFails(s), DbError(s) PROVE Still(t)
  <2>1. /\ \A u \in Request \ {s} : req'[u] = req[u]
        /\ req'[s].task \in {req[s].task, NoTask}
    BY <1>6, ContinueSlot DEF HandlersInv
  <2>2. req[s].task # t
    BY <1>6 DEF StatementFails, Note, Clean, Books, MarkTypes
  <2>3. task' = task /\ ~RowInsert(t)
    BY <1>6 DEF DbError, RowInsert
  <2> QED BY <1>2, <2>1, <2>2, <2>3, TaskCommandsAssumption
<1>7. ASSUME NEW s \in Request, NEW v \in TaskId, v # t, Inserts(s, v) PROVE Still(t)
  <2>1. /\ Idle(s) /\ task'[t] = task[t] /\ req'[s].task = v
        /\ \A u \in Request \ {s} : req'[u] = req[u]
    BY <1>1, <1>7, InsertFacts
  <2>2. req[s].task # t
    BY <2>1, WorkedOnExists
  <2> QED BY <1>7, <2>1, <2>2 DEF Still
<1>8. ASSUME NEW s \in Request, NEW v \in TaskId, v # t, Noted(s, v) PROVE Still(t)
  <2>1. /\ Idle(s) /\ task'[t] = task[t] /\ req'[s].task = v
        /\ \A u \in Request \ {s} : req'[u] = req[u]
    BY <1>1, <1>8, ReadFacts DEF Noted
  <2>2. req[s].task # t
    BY <2>1, WorkedOnExists
  <2> QED BY <1>8, <2>1, <2>2 DEF Still
<1>9. ASSUME NEW s \in Request, Noted(s, t) PROVE ~AtWorkOn(t)
  BY <1>9 DEF Noted, Met, Clean
<1> QED BY <1>3, <1>4, <1>5, <1>6, <1>7, <1>8, <1>9, HandlerSteps

LEMMA OwnStepMovesOn ==
  ASSUME IInv, Books, HandlersInv, NEW s \in Request, ApiStep(s), NEW t \in TaskId, Clean(t), Clean(t)',
         req[s].task = t
  PROVE  /\ MovesOn(t) /\ (ReportsRunning(t)' => ReportsRunning(t))
         /\ HandlerMove(s, task[t].status, task'[t].status)
         /\ \A u \in Request \ {s} : req[u].task # t /\ req'[u].task # t
<1>1. Continue(s) /\ Slotted(s) /\ Fresh(s) /\ Alone(t)
  BY DEF ApiStep, HandlersInv, Clean, Current
<1>2. /\ \A u \in Request \ {s} : req'[u] = req[u] /\ req[u].task # t
      /\ req'[s].pc # "idle" => req'[s].task = t
      /\ task[t].status # "ABSENT"
  BY <1>1, ContinueSlot DEF Alone, Idle, Slotted
<1>3. HandlerMove(s, task[t].status, task'[t].status)
  BY <1>1, ContinueMove DEF Clean
<1>4. req[s].pc = "create.publish" => req'[s].pc = "create.markQueued"
  BY DEF ApiStep, Publishing, HandedOver, Note, Clean, Books, MarkTypes
<1>5. /\ Creating(t) <=> req[s].pc \in {"create.publish", "create.markQueued"}
      /\ ReportsRunning(t) <=> req[s].pc = "report.write" /\ req[s].next = "RUNNING"
      /\ ReportsOutcome(t) <=> req[s].pc = "report.write" /\ req[s].next # "RUNNING"
  BY <1>2 DEF Creating, ReportsRunning, ReportsOutcome
<1>6. /\ req'[s].pc \in {"create.publish", "create.markQueued"} => Creating(t)'
      /\ ReportsRunning(t)' => req'[s].pc = "report.write"
  BY <1>2 DEF Creating, ReportsRunning
<1>7. MovesOn(t) /\ (ReportsRunning(t)' => ReportsRunning(t))
  BY <1>2, <1>3, <1>4, <1>5, <1>6
     DEF HandlerMove, MovesOn, Over, Begun, Queueing, Reportable, CanTransition, TASK_STATUS_TRANSITIONS
<1> QED BY <1>2, <1>3, <1>7

LEMMA ArrivalMovesOn ==
  ASSUME IInv, HandlersInv, NEW s \in Request, NEW t \in TaskId, ~AtWorkOn(t), Inserts(s, t) \/ Noted(s, t)
  PROVE  MovesOn(t)
<1>1. ~Creating(t) /\ ~ReportsRunning(t) /\ ~ReportsOutcome(t)
  BY DEF AtWorkOn, Creating, ReportsRunning, ReportsOutcome
<1>2. CASE Inserts(s, t)
  <2>1. task[t].status = "ABSENT" /\ task'[t].status = "PENDING" /\ Creating(t)'
    BY <1>2, InsertFacts DEF IInv, Creating
  <2> QED BY <1>1, <2>1 DEF MovesOn, Over, Begun, Queueing
<1>3. CASE Noted(s, t)
  <2>1. task'[t] = task[t]
    BY <1>3, ReadFacts DEF IInv, Noted
  <2> QED BY <1>1, <2>1 DEF MovesOn, Over, Begun, Queueing
<1> QED BY <1>2, <1>3

LEMMA NobodyBefore ==
  ASSUME HandlersInv, NEW t \in TaskId, task[t].status = "ABSENT" PROVE ~AtWorkOn(t)
BY WorkedOnExists DEF AtWorkOn

LEMMA UnmarkedMovesOn ==
  ASSUME Agreement, IInv, Books, HandlersInv, PipelineNext, NEW t \in TaskId, Clean(t)'
  PROVE  Clean(t) /\ MovesOn(t)
<1>1. Clean(t)
  BY MarksGrow DEF Clean
<1>2. ASSUME NEW s \in Request, Inserts(s, t) PROVE MovesOn(t)
  BY <1>2, InsertFacts, NobodyBefore, ArrivalMovesOn DEF IInv
<1> QED BY <1>1, <1>2, TaskSteps, StillMovesOn, OwnStepMovesOn, ArrivalMovesOn

-----------------------------------------------------------------------------
(* What lanes and slots know of each other                                  *)

Awaited(l) == \E s \in Request : caller[s] = l

\* The lane whose report a slot serves waits for that very report.
Calls(s) ==
  caller[s] \in Lane =>
    /\ job[caller[s]].pc = "waiting" /\ req[s].task = TaskOf(caller[s])
    /\ \/ req[s].pc = "report.write" /\ req[s].next = job[caller[s]].next
       \/ req[s].pc = "report.schedule" /\ job[caller[s]].next = "RETRYING"

\* A lane past its report of RUNNING runs a task that was begun, and one whose
\* outcome was answered a task that is over.
Knows(l, t) ==
  /\ task[t].status # "ABSENT"
  /\ Begun(t) \/ (job[l].pc = "sending" /\ job[l].next = "RUNNING")
  /\ job[l].pc = "waiting" /\ job[l].next # "RUNNING" => Awaited(l) \/ Over(t)
LaneKnows(l) == \A t \in TaskId : W!Busy(l) /\ TaskOf(l) = t /\ Clean(t) => Knows(l, t)

LaneInv ==
  /\ \A s \in Request : Calls(s)
  /\ \A l \in Lane : LaneKnows(l)
  /\ \A t \in TaskId : Clean(t) => Queueing(t)

\* How a report of lane l may end.
ReportEnds(l) ==
  ReportIgnored(l) \/ ReportAnswered(l) \/ ReportFails(l) \/ ReportTimesOut(l) \/ ReportOverdue(l)

LEMMA ReportEndsResume ==
  ASSUME NEW l, ReportEnds(l) PROVE UNCHANGED apiVars /\ \E left : Resume(l, left)
BY DEF ReportEnds, ReportIgnored, ReportAnswered, ReportFails, ReportTimesOut, ReportOverdue

LEMMA LanesOfWorker == \A w \in Worker, l \in Lane : l \in LanesOf(w) <=> l[1] = w
BY DEF LanesOf, B!LanesOf, Lane, B!Lane

LEMMA DeathIdles ==
  ASSUME Agreement, NEW w \in Worker, W!Die(w), NEW l \in Lane
  PROVE  IF l \in LanesOf(w) THEN ~W!Busy(l)' ELSE job'[l] = job[l]
BY LanesOfWorker, IdleJobType DEF W!Die, W!Owner, W!Busy, Lane

\* The end of a report lets the lane go on into the execution of the task, or go;
\* and all lanes of a process that cannot settle the job.
LEMMA ResumeLanes ==
  ASSUME Agreement, NEW k \in Lane, NEW left, Resume(k, left)
  PROVE  \E lanes \in SUBSET Lane :
           /\ k \in lanes /\ Forget(lanes)
           /\ \A l \in Lane : IF l \in lanes THEN ~W!Busy(l)' \/ (l = k /\ W!Proceed(k))
                              ELSE job'[l] = job[l]
<1>1. CASE W!Proceed(k) /\ Forget({k})
  <2>1. \A l \in Lane : l # k => job'[l] = job[l]
    BY <1>1, WorkerShape DEF Agreement, W!Proceed
  <2> QED BY <1>1, <2>1
<1>2. CASE W!Settle(k) /\ Forget({k})
  <2>1. \A l \in Lane : job'[l] = IF l = k THEN W!IdleJob ELSE job[l]
    BY <1>2, WorkerShape DEF Agreement, W!Settle
  <2> QED BY <1>2, <2>1, IdleJobType DEF W!Busy
<1>3. CASE W!SettleClosed(k) /\ Forget(LanesOf(k[1]))
  <2>1. k[1] \in Worker /\ W!Die(k[1])
    BY <1>3, WorkerShape DEF Agreement, W!SettleClosed, W!Owner
  <2>2. k \in LanesOf(k[1]) /\ LanesOf(k[1]) \in SUBSET Lane
    BY <2>1, LanesOfWorker, WorkersLanes
  <2> QED BY <1>3, <2>1, <2>2, DeathIdles
<1> QED BY <1>1, <1>2, <1>3 DEF Resume

\* The steps of the pipeline, by what they do to a lane and to those who serve it.
LEMMA LaneSteps ==
  ASSUME Agreement, IInv, PipelineNext
  PROVE  \/ UNCHANGED <<job, req, caller>>
         \/ UNCHANGED job /\ (ApiDies \/ \E s \in Request : ApiStep(s) \/ StatementFails(s))
         \/ /\ UNCHANGED <<job, caller>>
            /\ \E s \in Request : Idle(s) /\ \A u \in Request \ {s} : req'[u] = req[u]
         \/ \E l \in Lane, s \in Request : ReportArrives(l, s)
         \/ \E l \in Lane : (TakeJob(l) \/ RunJob(l)) /\ UNCHANGED <<req, caller>>
         \/ \E k \in Lane : ReportEnds(k) /\ UNCHANGED req
         \/ \E w \in Worker : W!Die(w) /\ Forget(LanesOf(w)) /\ UNCHANGED req
<1>1. CASE Progress
  <2>1. \A s \in Request : ApiStep(s) => UNCHANGED job
    BY DEF ApiStep, workerVars
  <2>2. ToBroker \/ (\E n \in B!Tier : RetryDue(n)) \/ (\E w \in Worker : StartWorker(w))
          => UNCHANGED <<job, req, caller>>
    BY DEF ToBroker, Flush, RetryDue, StartWorker, W!Start, workerVars, apiVars
  <2>3. \A l \in Lane : TakeJob(l) \/ RunJob(l) => UNCHANGED <<req, caller>>
    BY DEF TakeJob, RunJob, apiVars
  <2>4. \A l \in Lane : ReportIgnored(l) \/ ReportAnswered(l) => ReportEnds(l) /\ UNCHANGED req
    BY DEF ReportEnds, ReportIgnored, ReportAnswered, apiVars
  <2>5. \A w \in Worker : WorkerExit(w) => W!Die(w) /\ Forget(LanesOf(w)) /\ UNCHANGED req
    BY DEF WorkerExit, W!Exit, apiVars
  <2> QED BY <1>1, <2>1, <2>2, <2>3, <2>4, <2>5 DEF Progress
<1>2. CASE Outside
  <2>1. ASSUME NEW s \in Request, Create(s) \/ \E t \in TaskId : Operate(s, t)
        PROVE  UNCHANGED <<job, caller>> /\ Idle(s) /\ \A u \in Request \ {s} : req'[u] = req[u]
    <3>1. CASE Create(s)
      BY <3>1 DEF Create, CreateUnkeyed, InsertRow, Remember, workerVars
    <3>2. ASSUME NEW t \in TaskId, Operate(s, t)
          PROVE  UNCHANGED <<job, caller>> /\ Idle(s) /\ \A u \in Request \ {s} : req'[u] = req[u]
      <4>1. Reads(s, t) /\ UNCHANGED <<job, caller>>
        BY <3>2 DEF Operate, Reads, workerVars
      <4> QED BY <4>1, ReadFacts DEF IInv
    <3> QED BY <2>1, <3>1, <3>2
  <2>2. ASSUME NEW r \in late, NEW s \in Request, LateReportArrives(r, s)
        PROVE  UNCHANGED <<job, caller>> /\ Idle(s) /\ \A u \in Request \ {s} : req'[u] = req[u]
    BY <2>2 DEF LateReportArrives, ReportRead, Remember, workerVars
  <2>3. \A s \in Request : StatementFails(s) => UNCHANGED job
    BY DEF StatementFails, workerVars
  <2>4. (ApiDies => UNCHANGED job) /\ (BufferLost => UNCHANGED <<job, req, caller>>)
    BY DEF ApiDies, BufferLost, ConnectionLost, workerVars
  <2>5. \A l \in Lane : ReportFails(l) \/ ReportTimesOut(l) \/ ReportOverdue(l)
                          => ReportEnds(l) /\ UNCHANGED req
    BY DEF ReportEnds, ReportFails, ReportTimesOut, ReportOverdue, apiVars
  <2>6. \A w \in Worker : WorkerCrash(w) => W!Die(w) /\ Forget(LanesOf(w)) /\ UNCHANGED req
    BY DEF WorkerCrash, apiVars
  <2>7. \A w \in Worker : WorkerDrop(w) \/ WorkerShutdown(w) => UNCHANGED <<job, req, caller>>
    BY DEF WorkerDrop, WorkerShutdown, W!ConnectionDrop, W!Shutdown, apiVars
  <2> QED BY <1>2, <2>1, <2>2, <2>3, <2>4, <2>5, <2>6, <2>7 DEF Outside
<1> QED BY <1>1, <1>2 DEF PipelineNext

LEMMA CallStays ==
  ASSUME NEW s \in Request, Calls(s), caller'[s] \in {caller[s], NoLane},
         caller'[s] \in Lane => req'[s] = req[s] /\ job'[caller[s]] = job[caller[s]]
  PROVE  Calls(s)'
<1>1. NoLane \notin Lane
  BY PipelineAssumption DEF Lane
<1> QED BY <1>1 DEF Calls, TaskOf

\* A slot that begins to serve a request had no lane waiting for it, and a lane
\* that does not wait has no slot serving it.
LEMMA IdleUnawaited ==
  ASSUME NEW s \in Request, Calls(s), Idle(s) PROVE caller[s] \notin Lane
BY DEF Calls, Idle

LEMMA ForgottenCalls ==
  ASSUME NEW lanes, Forget(lanes), NEW s \in Request
  PROVE  caller'[s] \in {caller[s], NoLane} /\ (caller'[s] \in Lane => caller[s] \in Lane \ lanes)
<1>1. NoLane \notin Lane
  BY PipelineAssumption DEF Lane
<1> QED BY <1>1 DEF Forget

LEMMA ArrivedReport ==
  ASSUME Agreement, Books, IInv, NEW l \in Lane, NEW s \in Request, ReportArrives(l, s)
  PROVE  /\ job[l].pc = "sending" /\ Idle(s)
         /\ \A k \in Lane \ {l} : job'[k] = job[k]
         /\ job'[l].pc = "waiting" /\ job'[l].next = job[l].next /\ job'[l].msg = job[l].msg
         /\ caller'[s] = l /\ \A u \in Request \ {s} : caller'[u] = caller[u]
         /\ req'[s].pc = "report.write" /\ req'[s].task = TaskOf(l) /\ req'[s].next = job[l].next
         /\ \A u \in Request \ {s} : req'[u] = req[u]
<1>1. /\ job[l].pc = "sending" /\ Idle(s)
      /\ Remember(s, "report.write", TaskOf(l), task[TaskOf(l)], job[l].next)
      /\ caller' = [caller EXCEPT ![s] = l]
      /\ \A k \in Lane : job'[k] = IF k = l THEN [job[l] EXCEPT !.pc = "waiting"] ELSE job[k]
  BY WorkerShape DEF ReportArrives, W!Call, ReportRead, Agreement
<1>2. job'[l].pc = "waiting" /\ job'[l].next = job[l].next /\ job'[l].msg = job[l].msg
  BY <1>1, WorkerShape DEF Agreement
<1> QED BY <1>1, <1>2, RememberArrives DEF Books, CallerTypes, IInv

\* A handler that serves a report serves it to the end.
LEMMA ServesOn ==
  ASSUME Books, IInv, HandlersInv, NEW s \in Request, Calls(s), ApiStep(s) PROVE Calls(s)'
<1>1. /\ Continue(s) /\ UNCHANGED job
      /\ caller'[s] = IF req'[s].pc = "idle" THEN NoLane ELSE caller[s]
      /\ NoLane \notin Lane
  BY PipelineAssumption DEF ApiStep, workerVars, Books, CallerTypes, Lane
<1>2. SUFFICES ASSUME caller[s] \in Lane, req'[s].pc # "idle" PROVE Calls(s)'
  BY <1>1 DEF Calls
<1>3. req[s].pc \in {"report.write", "report.schedule"}
  BY <1>2 DEF Calls
<1>4. (Finish(s) => req'[s].pc = "idle") /\ ~Finish(s)
  BY <1>2, FinishType DEF IInv, TypeOK
<1>5. ReportWrite(s)
  BY <1>1, <1>3, <1>4 DEF Continue, CreateInsert, CreateConflict, CreatePublish, CreateMarkQueued,
     ReportDeadLetter, ReportSchedule, CancelWrite, RetryWrite, RetryPublish, DeleteWrite, UpdateWrite
<1>6. /\ req[s].next = "RETRYING" /\ req[s].pc = "report.write"
      /\ Remember(s, "report.schedule", req[s].task, Transitioned(task[req[s].task], req[s]), "DEAD_LETTERED")
  BY <1>4, <1>5 DEF ReportWrite
<1>7. req'[s].pc = "report.schedule" /\ req'[s].task = req[s].task
  BY <1>6, RememberArrives DEF IInv
<1> QED BY <1>1, <1>2, <1>6, <1>7 DEF Calls, TaskOf

LEMMA CallsStep ==
  ASSUME Agreement, Books, IInv, HandlersInv, LaneInv, PipelineNext, NEW s \in Request PROVE Calls(s)'
<1>0. Calls(s) /\ caller \in [Request -> Lane \cup {NoLane}] /\ NoLane \notin Lane
  BY PipelineAssumption DEF LaneInv, Books, CallerTypes, Lane
<1>1. CASE UNCHANGED <<job, req, caller>>
  BY <1>0, <1>1, CallStays
<1>2. ASSUME UNCHANGED job, NEW u \in Request, ApiStep(u) PROVE Calls(s)'
  <2>1. \A i \in Request \ {u} : req'[i] = req[i]
    BY <1>2, ContinueSlot DEF ApiStep, HandlersInv
  <2>2. u # s => caller'[s] = caller[s]
    BY <1>0, <1>2 DEF ApiStep
  <2> QED BY <1>0, <1>2, <2>1, <2>2, CallStays, ServesOn
<1>3. ASSUME UNCHANGED job, NEW u \in Request, StatementFails(u) PROVE Calls(s)'
  <2>1. /\ \A i \in Request \ {u} : req'[i] = req[i]
        /\ caller' = [caller EXCEPT ![u] = NoLane]
    BY <1>3, ContinueSlot DEF StatementFails, HandlersInv
  <2> QED BY <1>0, <1>3, <2>1, CallStays
<1>4. CASE ApiDies
  <2>1. caller'[s] \in {caller[s], NoLane} /\ caller'[s] \notin Lane
    BY <1>0, <1>4, ForgottenCalls DEF ApiDies
  <2> QED BY <1>0, <2>1, CallStays
<1>5. ASSUME NEW u \in Request, Idle(u), UNCHANGED <<job, caller>>, \A i \in Request \ {u} : req'[i] = req[i]
      PROVE  Calls(s)'
  <2>1. caller[s] \in Lane => s # u
    BY <1>0, <1>5, IdleUnawaited
  <2> QED BY <1>0, <1>5, <2>1, CallStays
<1>6. ASSUME NEW l \in Lane, NEW u \in Request, ReportArrives(l, u) PROVE Calls(s)'
  <2>1. CASE s = u
    BY <1>6, <2>1, ArrivedReport DEF Calls, TaskOf
  <2>2. CASE s # u
    <3>1. caller[s] # l
      BY <1>0, <1>6, ArrivedReport DEF Calls
    <3> QED BY <1>0, <1>6, <2>2, <3>1, ArrivedReport, CallStays
  <2> QED BY <2>1, <2>2
<1>7. ASSUME NEW l \in Lane, TakeJob(l) \/ RunJob(l), UNCHANGED <<req, caller>> PROVE Calls(s)'
  <2>1. job[l].pc \in {"idle", "executing"} /\ \A k \in Lane \ {l} : job'[k] = job[k]
    BY <1>7, WorkerShape DEF TakeJob, RunJob, W!Take, W!Execute, W!Busy, Agreement
  <2>2. caller[s] # l
    BY <1>0, <2>1 DEF Calls
  <2> QED BY <1>0, <1>7, <2>1, <2>2, CallStays
<1>8. ASSUME NEW lanes, Forget(lanes), UNCHANGED req, \A l \in Lane \ lanes : job'[l] = job[l]
      PROVE  Calls(s)'
  BY <1>0, <1>8, ForgottenCalls, CallStays
<1>9. ASSUME NEW k \in Lane, ReportEnds(k), UNCHANGED req PROVE Calls(s)'
  BY <1>8, <1>9, ReportEndsResume, ResumeLanes
<1>10. ASSUME NEW w \in Worker, W!Die(w), Forget(LanesOf(w)), UNCHANGED req PROVE Calls(s)'
  BY <1>8, <1>10, DeathIdles
<1> QED BY <1>1, <1>2, <1>3, <1>4, <1>5, <1>6, <1>7, <1>9, <1>10, LaneSteps

-----------------------------------------------------------------------------
(* What each kind of step leaves a lane with                                *)

LEMMA ReportedOrOver ==
  ASSUME Agreement, IInv, HandlersInv, LaneInv, NEW l \in Lane, NEW t \in TaskId,
         W!Busy(l), TaskOf(l) = t, Clean(t),
         \/ job[l].pc = "sending" /\ ~AtWorkOn(t) /\ Refused(t, job[l].next)
         \/ job[l].pc = "waiting"
  PROVE  IF job[l].next = "RUNNING" THEN Begun(t) ELSE Over(t) \/ ReportsOutcome(t)
<1>1. Knows(l, t) /\ Queueing(t) /\ task[t].status # "ABSENT"
  BY DEF LaneInv, LaneKnows, Knows
<1>2. CASE job[l].pc = "sending"
  <2>1. ~AtWorkOn(t) /\ Refused(t, job[l].next)
    BY <1>2
  <2>2. ~Creating(t) /\ ~ReportsRunning(t) /\ task[t].status # "PENDING"
    BY <1>1, <2>1 DEF AtWorkOn, Creating, ReportsRunning, Queueing
  <2>3. CASE job[l].next = "RUNNING"
    <3>1. task[t].status # "QUEUED"
      BY <2>1, <2>3 DEF Refused, Exists, TaskStatus, CanTransition, TASK_STATUS_TRANSITIONS
    <3> QED BY <1>1, <2>2, <2>3, <3>1 DEF Begun, Over
  <2>4. CASE job[l].next # "RUNNING"
    <3>1. job[l].next \in {"COMPLETED", "FAILED", "RETRYING"}
      BY <2>4, WorkerShape DEF Agreement
    <3>2. task[t].status # "RUNNING"
      BY <2>1, <3>1 DEF Refused, Exists, TaskStatus, CanTransition, TASK_STATUS_TRANSITIONS
    <3> QED BY <1>1, <2>2, <2>4, <3>2 DEF Knows, Begun
  <2> QED BY <2>3, <2>4
<1>3. CASE job[l].pc = "waiting"
  <2>1. CASE job[l].next = "RUNNING" \/ ~Awaited(l)
    BY <1>1, <1>3, <2>1 DEF Knows
  <2>2. ASSUME job[l].next # "RUNNING", NEW s \in Request, caller[s] = l
        PROVE  Over(t) \/ ReportsOutcome(t)
    <3>1. /\ req[s].task = t
          /\ \/ req[s].pc = "report.write" /\ req[s].next # "RUNNING"
             \/ req[s].pc = "report.schedule"
      BY <2>2 DEF LaneInv, Calls
    <3>2. CASE req[s].pc = "report.schedule"
      <4>1. Slotted(s) /\ Fresh(s) /\ ~Idle(s)
        BY <3>1, <3>2 DEF HandlersInv, Current, Clean, Idle
      <4>2. task[t].status = "RETRYING"
        BY <3>1, <3>2, <4>1, FoundRow DEF SlotSound
      <4> QED BY <4>2 DEF Over
    <3> QED BY <3>1, <3>2 DEF ReportsOutcome
  <2> QED BY <2>1, <2>2 DEF Awaited
<1> QED BY <1>2, <1>3

\* The API answers when its handler is through: the outcome is in the row.
LEMMA AwaitedStep ==
  ASSUME Agreement, Books, IInv, HandlersInv, LaneInv, PipelineNext,
         NEW l \in Lane, job[l].pc = "waiting", job[l].next # "RUNNING", job'[l] = job[l], Awaited(l),
         NEW t \in TaskId, TaskOf(l) = t, Clean(t)'
  PROVE  Awaited(l)' \/ Over(t)'
<1>1. PICK s \in Request : caller[s] = l
  BY DEF Awaited
<1>2. /\ req[s].task = t
      /\ \/ req[s].pc = "report.write" /\ req[s].next = job[l].next
         \/ req[s].pc = "report.schedule"
  BY <1>1 DEF LaneInv, Calls
<1>3. SUFFICES ASSUME caller'[s] # l PROVE Over(t)'
  BY DEF Awaited
<1>4. ASSUME NEW u \in Request, ApiStep(u) PROVE Over(t)'
  <2>1. u = s /\ req'[s].pc = "idle"
    BY <1>1, <1>3, <1>4 DEF ApiStep, Books, CallerTypes
  <2>2. Clean(t)
    BY MarksGrow DEF Clean
  <2>3. HandlerMove(s, task[t].status, task'[t].status)
    BY <1>2, <1>4, <2>1, <2>2, OwnStepMovesOn
  <2>4. task'[t].status \in {"RETRYING", "DEAD_LETTERED"} \/ task'[t].status = job[l].next
    BY <1>2, <2>1, <2>3 DEF HandlerMove
  <2> QED BY <2>4, WorkerShape DEF Over, Agreement
<1>5. ASSUME NEW u \in Request, StatementFails(u) PROVE FALSE
  <2>1. u = s
    BY <1>1, <1>3, <1>5 DEF StatementFails, Books, CallerTypes
  <2> QED BY <1>2, <1>5, <2>1 DEF StatementFails, Note, Clean, Books, MarkTypes
<1>6. ~ApiDies
  BY <1>2 DEF ApiDies, AtWorkOn, Clean
<1>7. ASSUME NEW k \in Lane, NEW u \in Request, ReportArrives(k, u) PROVE FALSE
  <2>1. u = s
    BY <1>1, <1>3, <1>7, ArrivedReport
  <2> QED BY <1>2, <1>7, <2>1, ArrivedReport DEF Idle
<1>8. ASSUME NEW lanes, Forget(lanes), l \notin lanes PROVE FALSE
  BY <1>1, <1>3, <1>8 DEF Forget
<1>9. W!Busy(l)' /\ ~W!Proceed(l)
  BY DEF W!Busy, W!Proceed
<1>10. ASSUME NEW k \in Lane, ReportEnds(k) PROVE FALSE
  BY <1>8, <1>9, <1>10, ReportEndsResume, ResumeLanes
<1>11. ASSUME NEW w \in Worker, W!Die(w), Forget(LanesOf(w)) PROVE FALSE
  BY <1>8, <1>9, <1>11, DeathIdles
<1> QED BY <1>1, <1>3, <1>4, <1>5, <1>6, <1>7, <1>10, <1>11, LaneSteps

LEMMA KnowsStays ==
  ASSUME Agreement, Books, IInv, HandlersInv, LaneInv, PipelineNext,
         NEW l \in Lane, job'[l] = job[l], W!Busy(l), NEW t \in TaskId, TaskOf(l) = t, Clean(t)'
  PROVE  Knows(l, t)'
<1>1. Clean(t) /\ MovesOn(t)
  BY UnmarkedMovesOn
<1>2. Knows(l, t)
  BY <1>1 DEF LaneInv, LaneKnows
<1>3. job[l].pc = "waiting" /\ job[l].next # "RUNNING" /\ Awaited(l) => Awaited(l)' \/ Over(t)'
  BY AwaitedStep
<1> QED BY <1>1, <1>2, <1>3 DEF Knows, MovesOn

\* Why a job goes on: its report of RUNNING was carried out or refused.
LEMMA ProceedKnows ==
  ASSUME Agreement, Books, IInv, HandlersInv, LaneInv, PipelineNext,
         NEW l \in Lane, ReportEnds(l), NEW t \in TaskId, TaskOf(l) = t, Clean(t)'
  PROVE  /\ Clean(t) /\ W!Busy(l)
         /\ \/ job[l].pc = "sending" /\ ~AtWorkOn(t) /\ Refused(t, job[l].next)
            \/ job[l].pc = "waiting"
<1>1. Clean(t) /\ MarkTypes
  BY MarksGrow DEF Clean, Books
<1>2. ~ReportFails(l) /\ ~ReportOverdue(l)
  BY <1>1 DEF ReportFails, ReportOverdue, Note, Clean, MarkTypes
<1>3. CASE ReportIgnored(l)
  BY <1>1, <1>3 DEF ReportIgnored, Note, Met, Clean, MarkTypes, W!Busy
<1>4. CASE ReportAnswered(l) \/ ReportTimesOut(l)
  BY <1>1, <1>4 DEF ReportAnswered, ReportTimesOut, W!Busy
<1> QED BY <1>2, <1>3, <1>4 DEF ReportEnds

LEMMA KnowsStep ==
  ASSUME Agreement, Books, IInv, HandlersInv, JobsInv, LaneInv, PipelineNext, NEW l \in Lane
  PROVE  LaneKnows(l)'
<1> SUFFICES ASSUME NEW t \in TaskId, W!Busy(l)', TaskOf(l)' = t, Clean(t)' PROVE Knows(l, t)'
  BY DEF LaneKnows
<1>0. Clean(t) /\ MovesOn(t)
  BY UnmarkedMovesOn
<1>1. CASE job'[l] = job[l]
  BY <1>1, KnowsStays DEF W!Busy, TaskOf
<1>2. CASE TakeJob(l)
  <2> DEFINE m == Head(queue[B!Source(l)])
  <2>1. UNCHANGED task /\ m \in Message /\ InQueues(queue, m.task)
    BY <1>2, TakeJobs
  <2>2. job'[l] = [pc |-> "sending", msg |-> m, next |-> "RUNNING"]
    BY <1>2, WorkerShape DEF TakeJob, W!Take, Agreement
  <2> HIDE DEF m
  <2>3. m.task = t
    BY <2>2 DEF TaskOf
  <2>4. task[t].status # "ABSENT"
    BY <2>1, <2>3 DEF JobsInv, Rowed, JobIn
  <2> QED BY <2>1, <2>2, <2>4 DEF Knows
<1>3. ASSUME NEW s \in Request, ReportArrives(l, s) PROVE Knows(l, t)'
  <2>1. /\ W!Busy(l) /\ TaskOf(l) = t /\ job[l].pc = "sending" /\ job'[l].next = job[l].next
        /\ req'[s].pc = "report.write" /\ req'[s].task = t /\ req'[s].next = job[l].next
        /\ caller'[s] = l
    BY <1>3, ArrivedReport DEF W!Busy, TaskOf
  <2>2. Knows(l, t)
    BY <1>0, <2>1 DEF LaneInv, LaneKnows
  <2>3. job[l].next = "RUNNING" => ReportsRunning(t)'
    BY <2>1 DEF ReportsRunning
  <2>4. Awaited(l)'
    BY <2>1 DEF Awaited
  <2> QED BY <1>0, <2>1, <2>2, <2>3, <2>4 DEF Knows, MovesOn, Begun
<1>4. CASE RunJob(l)
  <2>1. job[l].pc = "executing" /\ job'[l].msg = job[l].msg /\ job'[l].pc = "sending"
    BY <1>4, WorkerShape DEF RunJob, W!Execute, Agreement
  <2>2. Knows(l, t)
    BY <1>0, <2>1 DEF LaneInv, LaneKnows, W!Busy, TaskOf
  <2> QED BY <1>0, <2>1, <2>2 DEF Knows, MovesOn
<1>5. CASE ReportEnds(l) /\ W!Proceed(l)
  <2>1. /\ job[l].next = "RUNNING" /\ job'[l].pc = "executing" /\ job'[l].msg = job[l].msg
    BY <1>5, WorkerShape DEF W!Proceed, Agreement
  <2>2. TaskOf(l) = t
    BY <2>1 DEF TaskOf
  <2>3. Begun(t) /\ Knows(l, t)
    BY <1>5, <2>1, <2>2, ProceedKnows, ReportedOrOver DEF LaneInv, LaneKnows
  <2> QED BY <1>0, <2>1, <2>3 DEF Knows, MovesOn
<1>6. ASSUME NEW k \in Lane, (TakeJob(k) \/ RunJob(k)) \/ \E s \in Request : ReportArrives(k, s), k # l
      PROVE  job'[l] = job[l]
  BY <1>6, WorkerShape DEF TakeJob, RunJob, ReportArrives, W!Take, W!Execute, W!Call, Agreement
<1>7. ASSUME NEW k \in Lane, ReportEnds(k)
      PROVE  job'[l] = job[l] \/ (ReportEnds(l) /\ W!Proceed(l))
  BY <1>7, ReportEndsResume, ResumeLanes
<1>8. ASSUME NEW w \in Worker, W!Die(w) PROVE job'[l] = job[l]
  BY <1>8, DeathIdles
<1> QED BY <1>1, <1>2, <1>3, <1>4, <1>5, <1>6, <1>7, <1>8, LaneSteps

LEMMA LanesStep ==
  ASSUME Agreement, Books, IInv, HandlersInv, JobsInv, LaneInv, PipelineNext PROVE LaneInv'
<1>1. \A t \in TaskId : Clean(t)' => Queueing(t)'
  BY UnmarkedMovesOn DEF LaneInv, MovesOn
<1> QED BY <1>1, CallsStep, KnowsStep DEF LaneInv

-----------------------------------------------------------------------------
(* A job is acknowledged only when its outcome is in the row or on its way   *)

AtBroker(t) == InQueues(queue, t) \/ Delivered(held, t)

LEMMA EntrustedAtBroker ==
  ASSUME NEW t PROVE (Entrusted(t) <=> AtBroker(t)) /\ (Entrusted(t)' <=> AtBroker(t)')
BY DEF Entrusted, Holding, InSeq, AtBroker, InQueues, Delivered, Holds

LEMMA DisconnectAtBroker ==
  ASSUME Agreement, NEW w \in Worker, B!Disconnect(w), NEW t PROVE AtBroker(t) => AtBroker(t)'
<1>1. InQueues(queue', t) <=> InQueues(queue, t) \/ \E l \in Lane : l[1] = w /\ Holds(held, l, t)
  BY DisconnectJobs DEF Agreement
<1>2. \A l \in Lane : held'[l] = IF l[1] = w THEN Nothing ELSE held[l]
  BY ReleasedLanes
<1>3. \A l \in Lane : Holds(held, l, t) => l[1] = w \/ Holds(held', l, t)
  BY <1>2 DEF Holds
<1> QED BY <1>1, <1>3 DEF AtBroker, Delivered
\* An expired retry may become a job again, and takes none away.
LEMMA RetryDueAtBroker ==
  ASSUME Agreement, NEW n \in B!Tier, RetryDue(n), NEW t PROVE AtBroker(t) => AtBroker(t)'
<1> DEFINE r == B!RetryQueue(n)
           left == [queue EXCEPT ![r] = Tail(@)]
           m == Head(queue[r])
<1>1. /\ r \in B!Queue /\ r \notin B!TaskQueues /\ queue[r] \in Seq(Message) /\ queue[r] # <<>>
      /\ queue \in Queues /\ queue' = B!Routed(left, "TASKS", m) /\ held' = held
  BY QueueKinds DEF RetryDue, B!Expire, Agreement, QueueTypes, Queues
<1>2. m \in Message /\ Tail(queue[r]) \in Seq(Message)
  BY <1>1, TailFacts
<1>3. left \in Queues
  BY <1>1, <1>2 DEF Queues
<1>4. \A q \in B!TaskQueues : left[q] = queue[q]
  BY <1>1, QueueKinds DEF Queues
<1> HIDE DEF left, m
<1>5. InQueues(left, t) <=> InQueues(queue, t)
  BY <1>4, SameTaskQueues
<1>6. queue' = left \/ queue' = [left EXCEPT ![B!TaskQueue(m.priority)] = Append(@, m)]
  BY <1>1, <1>2, <1>3, Routes
<1>7. InQueues(left, t) => InQueues(queue', t)
  BY <1>2, <1>3, <1>6, JobAppended, QueueKinds DEF Message
<1> QED BY <1>1, <1>5, <1>7 DEF AtBroker

LEMMA TakenAtBroker ==
  ASSUME Agreement, NEW l \in Lane, TakeJob(l), NEW t PROVE AtBroker(t) => AtBroker(t)'
<1> DEFINE m == Head(queue[B!Source(l)])
<1>1. /\ held[l] = Nothing /\ m \in Message /\ TakenFrom(queue, queue', m, t)
      /\ \A k \in Lane : held'[k] = IF k = l THEN m ELSE held[k]
  BY TakeJobs
<1> HIDE DEF m
<1>2. \A k \in Lane : Holds(held, k, t) => Holds(held', k, t)
  BY <1>1 DEF Holds
<1>3. m.task = t => Holds(held', l, t)
  BY <1>1, PipelineAssumption DEF Holds
<1> QED BY <1>1, <1>2, <1>3 DEF AtBroker, Delivered, TakenFrom
\* The one way out: a report is over, and a subscribed worker acknowledges its own
\* delivery.
Acked(l, t) == W!Outcome(l) /\ TaskOf(l) = t /\ held[l] = job[l].msg /\ B!Ack(l)

LEMMA ResumeAcks ==
  ASSUME Agreement, NEW l \in Lane, NEW left, Resume(l, left), NEW t, AtBroker(t), ~AtBroker(t)'
  PROVE  Acked(l, t) /\ W!Settle(l)
<1>1. ~UNCHANGED brokerVars
  BY DEF AtBroker, brokerVars
<1>2. W!Settle(l) /\ B!Ack(l)
  BY <1>1 DEF Resume
<1>3. /\ W!Outcome(l) /\ held[l] = job[l].msg /\ queue' = queue
      /\ \A k \in Lane \ {l} : held'[k] = held[k]
  BY <1>2 DEF B!Ack, W!Settle, W!Owner, Agreement, QueueTypes, DeliveriesMatchJobs
<1>4. \A k \in Lane \ {l} : Holds(held, k, t) => Holds(held', k, t)
  BY <1>3 DEF Holds
<1>5. TaskOf(l) = t
  BY <1>3, <1>4 DEF AtBroker, Delivered, Holds, TaskOf
<1> QED BY <1>2, <1>3, <1>5 DEF Acked

LEMMA OneWayOut ==
  ASSUME Agreement, IInv, PipelineNext, NEW t, AtBroker(t), ~AtBroker(t)'
  PROVE  \E l \in Lane : ReportEnds(l) /\ Acked(l, t) /\ W!Settle(l)
<1>1. ~UNCHANGED brokerVars
  BY DEF AtBroker, brokerVars
<1>2. \E l \in Lane : ReportEnds(l)
  <2>1. CASE Progress
    <3>1. ~ToBroker
      BY ToBrokerJobs DEF AtBroker
    <3> QED BY <1>1, <2>1, <3>1, RetryDueAtBroker, TakenAtBroker
         DEF Progress, ApiStep, RunJob, ReportArrives, StartWorker, WorkerExit, ReportEnds
  <2>2. CASE Outside
    <3>1. \A w \in Worker : ~WorkerCrash(w) /\ ~WorkerDrop(w) /\ ~WorkerShutdown(w)
      BY DisconnectAtBroker DEF WorkerCrash, WorkerDrop, WorkerShutdown
    <3> QED BY <1>1, <2>2, <3>1
         DEF Outside, Create, StatementFails, Operate, ApiDies, BufferLost, LateReportArrives, ReportEnds
  <2> QED BY <2>1, <2>2 DEF PipelineNext
<1> QED BY <1>2, ReportEndsResume, ResumeAcks

\* The job the broker has of a task leaves it in one way only, whatever fails,
\* whoever shuts down and whatever operators ask: its worker, still subscribed,
\* has run it and acknowledges its own delivery.
THEOREM JobsStayUntilRun == PipelineSpec => JobsLeaveWhenRun
<1>1. Agreement /\ IInv /\ [PipelineNext]_pipelineVars
        => [\A t \in TaskId : Entrusted(t) /\ ~Entrusted(t)' => \E l \in Lane : Acked(l, t)]_pipelineVars
  BY OneWayOut, EntrustedAtBroker
<1> QED BY <1>1, PipelineInvariant, PTL DEF PipelineSpec, JobsLeaveWhenRun, Acked

\* By the time the broker forgets the job of an unmarked task, the task is over or
\* a handler is about to write that it is.
LEMMA SettledIsRecorded ==
  ASSUME Agreement, Books, IInv, HandlersInv, LaneInv, PipelineNext,
         NEW t \in TaskId, Clean(t)', AtBroker(t), ~AtBroker(t)'
  PROVE  Over(t) \/ ReportsOutcome(t)
<1>1. PICK l \in Lane : ReportEnds(l) /\ Acked(l, t)
  BY OneWayOut
<1>2. TaskOf(l) = t /\ job[l].next # "RUNNING"
  BY <1>1 DEF Acked, W!Outcome
<1> QED BY <1>1, <1>2, ProceedKnows, ReportedOrOver

-----------------------------------------------------------------------------
(* The job of a task that has started stays with the broker until then      *)

\* A started task is run, or shown so, or about to be shown so.
Started(t) ==
  \/ task[t].status = "RUNNING" \/ ReportsRunning(t)
  \/ Working(t) # {} \/ <<t, "RUNNING">> \in late
JobKept(t) == Started(t) => AtBroker(t) \/ ReportsOutcome(t) \/ Over(t)
KeptJobs == LaneInv /\ \A t \in TaskId : Clean(t) => JobKept(t)

LEMMA SentWork ==
  ASSUME NEW lanes \in SUBSET Lane, NEW t, NEW n, <<t, n>> \in Sent(lanes) PROVE Working(t) # {}
<1>1. PICK l \in lanes : job[l].pc = "sending" /\ <<t, n>> = <<TaskOf(l), job[l].next>>
  BY DEF Sent
<1>2. l \in Lane /\ W!Busy(l) /\ TaskOf(l) = t
  BY <1>1 DEF W!Busy
<1> QED BY <1>2 DEF Working

\* Only a job that ends leaves a report under way.
LEMMA LateStep ==
  ASSUME Agreement, PipelineNext, NEW t, NEW n, <<t, n>> \in late'
  PROVE  <<t, n>> \in late \/ Working(t) # {}
<1>1. ASSUME NEW lanes \in SUBSET Lane, NEW more \in SUBSET Lane, late' \subseteq late \cup Sent(lanes) \cup Sent(more)
      PROVE  <<t, n>> \in late \/ Working(t) # {}
  BY <1>1, SentWork
<1>2. {} \in SUBSET Lane /\ Sent({}) = {}
  BY DEF Sent
<1>3. CASE late' \subseteq late
  BY <1>3
<1>4. ASSUME NEW w \in Worker, late' = late \cup Sent(LanesOf(w)) PROVE <<t, n>> \in late \/ Working(t) # {}
  BY <1>1, <1>2, <1>4, WorkersLanes
<1>5. ASSUME NEW l \in Lane, Resume(l, {}) \/ Resume(l, Sent({l})) PROVE <<t, n>> \in late \/ Working(t) # {}
  <2>1. LanesOf(l[1]) \ {l} \in SUBSET Lane /\ {l} \in SUBSET Lane
    BY WorkersLanes, WorkerShape DEF Agreement
  <2>2. late' \subseteq late \cup Sent({l}) \cup Sent(LanesOf(l[1]) \ {l})
    BY <1>5 DEF Resume
  <2> QED BY <1>1, <2>1, <2>2
<1>6. CASE Progress
  BY <1>3, <1>4, <1>5, <1>6 DEF Progress, ApiStep, ToBroker, RetryDue, TakeJob, RunJob, ReportIgnored,
     ReportAnswered, ReportArrives, StartWorker, WorkerExit, notes
<1>7. CASE Outside
  BY <1>3, <1>4, <1>5, <1>7 DEF Outside, Create, StatementFails, Operate, ApiDies, BufferLost, ReportFails,
     ReportTimesOut, ReportOverdue, LateReportArrives, WorkerCrash, WorkerDrop, WorkerShutdown, notes
<1> QED BY <1>6, <1>7 DEF PipelineNext

\* Only who runs the task, or has left the report of it under way, reports RUNNING.
LEMMA ReportsStep ==
  ASSUME Agreement, IInv, Books, HandlersInv, PipelineNext, NEW t \in TaskId, Clean(t)', ReportsRunning(t)'
  PROVE  Started(t)
<1>1. TypeOK /\ Clean(t)
  BY MarksGrow DEF IInv, Clean
<1>2. PICK s \in Request : req'[s].task = t /\ req'[s].pc = "report.write" /\ req'[s].next = "RUNNING"
  BY DEF ReportsRunning
<1>3. req'[s] = req[s] => Started(t)
  BY <1>2 DEF Started, ReportsRunning
<1>4. CASE Progress
  <2>1. ASSUME NEW u \in Request, ApiStep(u) PROVE Started(t)
    <3>1. Continue(u) /\ (u # s => req'[s] = req[s]) /\ (u = s => req[u].task = t)
      BY <1>2, <2>1, ContinueSlot, TaskCommandsAssumption DEF ApiStep, HandlersInv
    <3> QED BY <1>1, <1>3, <2>1, <3>1, OwnStepMovesOn DEF Started
  <2>2. ASSUME NEW l \in Lane, NEW u \in Request, ReportArrives(l, u) PROVE Started(t)
    <3>1. u # s => req'[s] = req[s]
      BY <2>2, ArrivedReport
    <3>2. u = s => W!Busy(l) /\ TaskOf(l) = t
      BY <1>2, <2>2, ArrivedReport DEF W!Busy
    <3> QED BY <1>3, <3>1, <3>2 DEF Started, Working
  <2>3. ASSUME \/ ToBroker \/ \E n \in B!Tier : RetryDue(n)
               \/ \E l \in Lane : TakeJob(l) \/ RunJob(l) \/ ReportIgnored(l) \/ ReportAnswered(l)
               \/ \E w \in Worker : StartWorker(w) \/ WorkerExit(w)
        PROVE  UNCHANGED req
    BY <2>3 DEF ToBroker, Flush, RetryDue, TakeJob, RunJob, ReportIgnored, ReportAnswered,
                StartWorker, WorkerExit, apiVars
  <2> QED BY <1>3, <1>4, <2>1, <2>2, <2>3 DEF Progress
<1>5. CASE Outside
  <2>1. ASSUME NEW u \in Request, Create(u) PROVE Started(t)
    <3>1. PICK v \in TaskId : Inserts(u, v)
      BY <2>1 DEF Create, CreateUnkeyed, Inserts
    <3> QED BY <1>1, <1>2, <1>3, <3>1, InsertFacts
  <2>2. ASSUME NEW u \in Request, NEW v \in TaskId, Operate(u, v) PROVE Started(t)
    <3>1. Reads(u, v)
      BY <2>2 DEF Operate, Reads
    <3>2. req'[u].pc # "report.write"
      <4>1. PICK pc \in {"cancel.write", "retry.write", "delete.write", "update.write"} :
              \E row, n : Remember(u, pc, v, row, n)
        BY <2>2 DEF Operate, CancelRead, RetryRead, DeleteRead, UpdateRead
      <4> QED BY <1>1, <4>1, RememberArrives
    <3> QED BY <1>1, <1>2, <1>3, <3>1, <3>2, ReadFacts
  <2>3. ASSUME NEW u \in Request, StatementFails(u) PROVE Started(t)
    <3>1. (u # s => req'[s] = req[s]) /\ req'[u].pc = "idle"
      BY <1>1, <2>3 DEF StatementFails, DbError, Finish, TypeOK, IdleSlot
    <3> QED BY <1>2, <1>3, <3>1
  <2>4. ~ApiDies
    BY <1>2 DEF ApiDies, ApiCrash, IdleSlot
  <2>5. ASSUME NEW r \in late, NEW u \in Request, LateReportArrives(r, u) PROVE Started(t)
    <3>1. r \in TaskId \X Reportable /\ ReportRead(u, r[1], r[2])
      BY <2>5 DEF LateReportArrives, Books, LateTypes
    <3>2. /\ req'[u].task = r[1] /\ req'[u].next = r[2]
          /\ \A i \in Request \ {u} : req'[i] = req[i]
      BY <1>1, <3>1, RememberArrives DEF ReportRead
    <3>3. u = s => r = <<t, "RUNNING">>
      BY <1>2, <3>1, <3>2
    <3> QED BY <1>3, <2>5, <3>2, <3>3 DEF Started
  <2>6. ASSUME \/ \E l \in Lane : ReportFails(l) \/ ReportTimesOut(l) \/ ReportOverdue(l)
               \/ \E w \in Worker : WorkerCrash(w) \/ WorkerDrop(w) \/ WorkerShutdown(w)
               \/ BufferLost
        PROVE  UNCHANGED req
    BY <2>6 DEF ReportFails, ReportTimesOut, ReportOverdue, WorkerCrash, WorkerDrop, WorkerShutdown,
       BufferLost, ConnectionLost, apiVars
  <2> QED BY <1>3, <1>5, <2>1, <2>2, <2>3, <2>4, <2>5, <2>6 DEF Outside
<1> QED BY <1>4, <1>5 DEF PipelineNext

\* Who begins to work on a task has its job from the broker.
LEMMA WorkingStep ==
  ASSUME Agreement, IInv, Books, PipelineNext, NEW t, Working(t)' # {}
  PROVE  Working(t) # {} \/ AtBroker(t)'
<1>1. PICK l \in Lane : W!Busy(l)' /\ TaskOf(l)' = t
  BY DEF Working
<1>2. CASE job'[l] = job[l]
  BY <1>1, <1>2 DEF Working, W!Busy, TaskOf
<1>3. ASSUME W!Busy(l), job'[l].msg = job[l].msg PROVE Working(t) # {}
  BY <1>1, <1>3 DEF Working, TaskOf
<1>4. CASE TakeJob(l)
  <2> DEFINE m == Head(queue[B!Source(l)])
  <2>1. m \in Message /\ m # Nothing /\ held'[l] = m
    BY <1>4, TakeJobs, PipelineAssumption
  <2>2. job'[l].msg = m
    BY <1>4, WorkerShape DEF TakeJob, W!Take, Agreement
  <2> HIDE DEF m
  <2>3. Holds(held', l, t)
    BY <1>1, <2>1, <2>2 DEF Holds, TaskOf
  <2> QED BY <2>3 DEF AtBroker, Delivered
<1>5. ASSUME NEW s \in Request, ReportArrives(l, s) PROVE Working(t) # {}
  BY <1>3, <1>5, ArrivedReport DEF W!Busy
<1>6. RunJob(l) => Working(t) # {}
  BY <1>3, WorkerShape DEF RunJob, W!Execute, W!Busy, Agreement
<1>7. W!Proceed(l) => Working(t) # {}
  BY <1>3, WorkerShape DEF W!Proceed, W!Reporting, W!Busy, Agreement
<1>8. ASSUME NEW k \in Lane, (TakeJob(k) \/ RunJob(k)) \/ \E s \in Request : ReportArrives(k, s), k # l
      PROVE  job'[l] = job[l]
  BY <1>8, WorkerShape DEF TakeJob, RunJob, ReportArrives, W!Take, W!Execute, W!Call, Agreement
<1>9. ASSUME NEW k \in Lane, ReportEnds(k) PROVE job'[l] = job[l] \/ W!Proceed(l)
  BY <1>1, <1>9, ReportEndsResume, ResumeLanes
<1>10. ASSUME NEW w \in Worker, W!Die(w) PROVE job'[l] = job[l]
  BY <1>1, <1>10, DeathIdles
<1> QED BY <1>2, <1>4, <1>5, <1>6, <1>7, <1>8, <1>9, <1>10, LaneSteps

LEMMA KeptStep ==
  ASSUME Agreement, IInv, Books, HandlersInv, KeptJobs, PipelineNext, NEW t \in TaskId, Clean(t)'
  PROVE  JobKept(t)'
<1>1. Clean(t) /\ MovesOn(t) /\ JobKept(t) /\ LaneInv
  BY UnmarkedMovesOn DEF KeptJobs
<1>2. ReportsRunning(t)' => Started(t)
  BY ReportsStep
<1>3. <<t, "RUNNING">> \in late' => Started(t)
  BY LateStep DEF Started
<1>4. Working(t)' # {} => Started(t) \/ AtBroker(t)'
  BY WorkingStep DEF Started
<1>5. AtBroker(t) => AtBroker(t)' \/ Over(t) \/ ReportsOutcome(t)
  BY <1>1, SettledIsRecorded
<1>6. task'[t].status = "RUNNING" => Started(t)
  BY <1>1 DEF MovesOn, Begun, Started
<1> QED BY <1>1, <1>2, <1>3, <1>4, <1>5, <1>6 DEF JobKept, Started, MovesOn

LEMMA KeptJobsInvariant == PipelineSpec => []KeptJobs
<1>1. PipelineInit => KeptJobs
  <2> SUFFICES ASSUME PipelineInit PROVE KeptJobs
    OBVIOUS
  <2>1. /\ \A s \in Request : caller[s] \notin Lane /\ req[s].pc = "idle"
        /\ \A t \in TaskId : task[t].status = "ABSENT"
        /\ \A l \in Lane : ~W!Busy(l)
        /\ late = {}
    BY PipelineAssumption, IdleJobType DEF PipelineInit, Init, IdleSlot, W!WorkerInit, W!Busy, Lane
  <2> QED BY <2>1 DEF KeptJobs, LaneInv, Calls, LaneKnows, Queueing, JobKept, Started, ReportsRunning, Working
<1>2. Agreement /\ IInv /\ Books /\ HandlersInv /\ JobsInv /\ KeptJobs /\ [PipelineNext]_pipelineVars
        => KeptJobs'
  <2>1. KeptJobs /\ UNCHANGED pipelineVars => KeptJobs'
    BY DEF pipelineVars, apiVars, brokerVars, workerVars, notes, KeptJobs, LaneInv, Calls, LaneKnows, Knows,
       Awaited, Queueing, Creating, JobKept, Started, ReportsRunning, ReportsOutcome, Working, AtBroker,
       Begun, Over, Clean, W!Busy, TaskOf
  <2>2. Agreement /\ IInv /\ Books /\ HandlersInv /\ JobsInv /\ KeptJobs /\ PipelineNext => KeptJobs'
    BY LanesStep, KeptStep DEF KeptJobs
  <2> QED BY <2>1, <2>2
<1> QED BY <1>1, <1>2, JobsInvariant, HandlersInvariant, PipelineInvariant, PTL DEF PipelineSpec

\* A task shown RUNNING is run, or will be: its job is at the broker or with a
\* worker, or a handler is at work on it.  Of all that may happen, in any number
\* and order, only what marks the task itself can make this false: its handlers
\* meet or fail, a worker goes on unheard, an operator retries it.
THEOREM JobsAreNotLost == PipelineSpec => []RunningTasksHaveAJob
<1>1. KeptJobs => RunningTasksHaveAJob
  <2> SUFFICES ASSUME KeptJobs, NEW t \in TaskId, task[t].status = "RUNNING", Clean(t)
               PROVE  Carried(t) \/ AtWorkOn(t)
    BY DEF RunningTasksHaveAJob, Clean
  <2>1. AtBroker(t) \/ ReportsOutcome(t)
    BY DEF KeptJobs, JobKept, Started, Over
  <2> QED BY <2>1, EntrustedAtBroker DEF ReportsOutcome, AtWorkOn, Carried
<1> QED BY <1>1, KeptJobsInvariant, PTL

\* No job is settled before what became of its task is on record: the report that
\* is over has been written, has been refused because the row is past RUNNING
\* already, or is in a handler that will write it, unless the task is marked.
THEOREM NoOutcomeIsLost == PipelineSpec => OutcomesAreRecorded
<1>1. Agreement /\ Books /\ IInv /\ HandlersInv /\ KeptJobs /\ [PipelineNext]_pipelineVars
        => [\A t \in TaskId :
              Entrusted(t) /\ ~Entrusted(t)' => Recorded(t) \/ marks'[t] # {}]_pipelineVars
  <2> SUFFICES ASSUME Agreement, Books, IInv, HandlersInv, KeptJobs, PipelineNext,
                      NEW t \in TaskId, AtBroker(t), ~AtBroker(t)', Clean(t)'
               PROVE  Recorded(t)
    BY EntrustedAtBroker DEF Clean
  <2> QED BY SettledIsRecorded DEF KeptJobs, Over, ReportsOutcome, Recorded
<1> QED BY <1>1, KeptJobsInvariant, HandlersInvariant, PipelineInvariant, PTL
        DEF PipelineSpec, OutcomesAreRecorded

-----------------------------------------------------------------------------
(* The contract's steps, task by task                                       *)

Placed(t) == Place(t)' = Place(t) /\ Holder(t)' = Holder(t)
Told(t) == Result(t)' = Result(t)

LEMMA Stutters ==
  ASSUME \A t \in TaskId : Placed(t) /\ Told(t) PROVE UNCHANGED Contract!contractVars
<1>1. Places' = Places /\ Holders' = Holders /\ Results' = Results
  BY DEF Placed, Told, Places, Holders, Results
<1> QED BY <1>1, Zenon DEF Contract!contractVars

\* One task's job goes somewhere, the others' stay.
Goes(v, from, to) ==
  /\ Place(v) = from /\ Place(v)' = to
  /\ \A t \in TaskId \ {v} : Placed(t)

LEMMA GoesMaps ==
  ASSUME NEW v \in TaskId, NEW from, NEW to, Goes(v, from, to)
  PROVE  /\ Places[v] = from /\ Places' = [Places EXCEPT ![v] = to]
         /\ Holders' = [Holders EXCEPT ![v] = Holder(v)']
<1>1. Places[v] = from /\ Places' = [Places EXCEPT ![v] = to]
  BY DEF Goes, Placed, Places
<1>2. Holders' = [Holders EXCEPT ![v] = Holder(v)']
  BY DEF Goes, Placed, Holders
<1> QED BY <1>1, <1>2

LEMMA SameResults == ASSUME \A t \in TaskId : Told(t) PROVE Results' = Results
BY DEF Told, Results

LEMMA Offers ==
  ASSUME NEW v \in TaskId, Goes(v, "before", "offered"), Holder(v)' = Holder(v), \A t \in TaskId : Told(t)
  PROVE  Contract!Offer(v)
<1>1. Places[v] = "before" /\ Places' = [Places EXCEPT ![v] = "offered"]
  BY GoesMaps
<1>2. Holders' = Holders
  BY DEF Goes, Placed, Holders
<1> QED BY <1>1, <1>2, SameResults DEF Contract!Offer

LEMMA Leases ==
  ASSUME NEW v \in TaskId, NEW l, Goes(v, "offered", "leased"), Holder(v)' = l, \A t \in TaskId : Told(t)
  PROVE  Contract!Lease(v, l)
BY GoesMaps, SameResults DEF Contract!Lease

LEMMA Settles ==
  ASSUME NEW v \in TaskId, Goes(v, "leased", "over"), Holder(v)' = NoLane,
         \A t \in TaskId \ {v} : Told(t), Result(v)' = "excused" \/ (Told(v) /\ Result(v) # "open")
  PROVE  Contract!Settle(v)
<1>1. /\ Places[v] = "leased" /\ Places' = [Places EXCEPT ![v] = "over"]
      /\ Holders' = [Holders EXCEPT ![v] = NoLane]
  BY GoesMaps
<1>2. CASE Result(v)' = "excused"
  <2>1. Results' = [Results EXCEPT ![v] = "excused"]
    BY <1>2 DEF Told, Results
  <2> QED BY <1>1, <2>1 DEF Contract!Settle
<1>3. CASE Told(v) /\ Result(v) # "open"
  <2>1. Results' = Results /\ Results[v] # "open"
    BY <1>3 DEF Told, Results
  <2> QED BY <1>1, <2>1 DEF Contract!Settle
<1> QED BY <1>2, <1>3

\* What becomes of tasks whose jobs stay where they are, or are lost.
LEMMA Happens ==
  ASSUME \A t \in TaskId : /\ Told(t) \/ Result(t)' = "excused"
                           /\ Placed(t) \/ (Place(t) = "before" /\ Place(t)' = "over"
                                            /\ Holder(t)' = Holder(t))
  PROVE  Contract!ContractNext
<1> DEFINE lost == {t \in TaskId : Place(t) = "before" /\ Place(t)' = "over"}
           excused == {t \in TaskId : Result(t)' = "excused"}
<1>1. /\ \A t \in lost : Places[t] = "before"
      /\ Places' = [t \in TaskId |-> IF t \in lost THEN "over" ELSE Places[t]]
  BY DEF Placed, Places
<1>2. Holders' = Holders
  BY DEF Placed, Holders
<1>3. Results' = [t \in TaskId |-> IF t \in excused THEN "excused" ELSE Results[t]]
  BY DEF Told, Results
<1>4. lost \in SUBSET TaskId /\ excused \in SUBSET TaskId
  OBVIOUS
<1> HIDE DEF lost, excused
<1>5. Contract!Mishap(lost, excused)
  BY <1>1, <1>2, <1>3 DEF Contract!Mishap
<1> QED BY <1>4, <1>5 DEF Contract!ContractNext

LEMMA Concludes ==
  ASSUME NEW v \in TaskId, \A t \in TaskId : Placed(t), \A t \in TaskId \ {v} : Told(t),
         Result(v) = "open", Result(v)' = "known"
  PROVE  Contract!ContractNext
<1>1. Places' = Places /\ Holders' = Holders
  BY DEF Placed, Places, Holders
<1>2. Results[v] = "open" /\ Results' = [Results EXCEPT ![v] = "known"]
  BY DEF Told, Results
<1>3. Contract!Conclude(v)
  BY <1>1, <1>2 DEF Contract!Conclude
<1> QED BY <1>3 DEF Contract!ContractNext

LEMMA Reissues ==
  ASSUME NEW v \in TaskId, Retried(v)', \A t \in TaskId \ {v} : Placed(t) /\ Told(t)
  PROVE  Contract!ContractNext
<1>1. Place(v)' = "reissued" /\ Holder(v)' = NoLane /\ Result(v)' = "excused"
  BY DEF Place, Holder, Result, Retried
<1>2. /\ Places' = [Places EXCEPT ![v] = "reissued"] /\ Holders' = [Holders EXCEPT ![v] = NoLane]
      /\ Results' = [Results EXCEPT ![v] = "excused"]
  BY <1>1 DEF Placed, Told, Places, Holders, Results
<1>3. Contract!Reissue(v)
  BY <1>2 DEF Contract!Reissue
<1> QED BY <1>3 DEF Contract!ContractNext

LEMMA Revokes ==
  ASSUME NEW w \in Worker, \A t \in TaskId : Told(t),
         \A t \in TaskId : IF Place(t) = "leased" /\ Holder(t)[1] = w
                             THEN Place(t)' = "offered" /\ Holder(t)' = NoLane
                             ELSE Placed(t)
  PROVE  Contract!ContractNext
<1> DEFINE its == {t \in TaskId : Places[t] = "leased" /\ Holders[t][1] = w}
<1>1. \A t \in TaskId : t \in its <=> Place(t) = "leased" /\ Holder(t)[1] = w
  BY DEF Places, Holders
<1> HIDE DEF its
<1>2. Places' = [t \in TaskId |-> IF t \in its THEN "offered" ELSE Places[t]]
  BY <1>1 DEF Placed, Places
<1>3. Holders' = [t \in TaskId |-> IF t \in its THEN NoLane ELSE Holders[t]]
  BY <1>1 DEF Placed, Holders
<1>4. Contract!Revoke(w)
  BY <1>2, <1>3, SameResults DEF Contract!Revoke, its
<1> QED BY <1>4 DEF Contract!ContractNext

-----------------------------------------------------------------------------
(* What the contract says of a task, from its marks and its jobs            *)

\* All that has been proved of the pipeline's states.
Whole == Agreement /\ Books /\ IInv /\ HandlersInv /\ JobsInv /\ LaneInv

Unsent(t) == task[t].status = "ABSENT" \/ Created(req, t) \/ InBuffer(outbox, t)

LEMMA PlaceOf ==
  ASSUME NEW t
  PROVE  /\ Retried(t) => Place(t) = "reissued" /\ Holder(t) = NoLane
         /\ ~Retried(t) =>
              Place(t) = IF Delivered(held, t) THEN "leased" ELSE IF InQueues(queue, t) THEN "offered"
                         ELSE IF Unsent(t) THEN "before" ELSE "over"
         /\ ~Delivered(held, t) => Holder(t) = NoLane
         /\ ~Retried(t) /\ Delivered(held, t) => Holder(t) \in Lane /\ Holds(held, Holder(t), t)
<1>1. Holding(t) # {} <=> Delivered(held, t)
  BY DEF Holding, Delivered, Holds
<1>2. Entrusted(t) <=> InQueues(queue, t) \/ Delivered(held, t)
  BY EntrustedAtBroker DEF AtBroker
<1>3. Unpublished(t) <=> Unsent(t)
  BY DEF Unpublished, Unsent, Created, Creates, InBuffer, IsJob
<1>4. Holding(t) # {} => (CHOOSE l \in Holding(t) : TRUE) \in Holding(t)
  OBVIOUS
<1> QED BY <1>1, <1>2, <1>3, <1>4 DEF Place, Holder, Holding, Holds

LEMMA PlaceNext ==
  ASSUME NEW t
  PROVE  /\ Retried(t)' => Place(t)' = "reissued" /\ Holder(t)' = NoLane
         /\ ~Retried(t)' =>
              Place(t)' = IF Delivered(held', t) THEN "leased" ELSE IF InQueues(queue', t) THEN "offered"
                         ELSE IF Unsent(t)' THEN "before" ELSE "over"
         /\ ~Delivered(held', t) => Holder(t)' = NoLane
         /\ ~Retried(t)' /\ Delivered(held', t) => Holder(t)' \in Lane /\ Holds(held', Holder(t)', t)
<1>1. Holding(t)' # {} <=> Delivered(held', t)
  BY DEF Holding, Delivered, Holds
<1>2. Entrusted(t)' <=> InQueues(queue', t) \/ Delivered(held', t)
  BY EntrustedAtBroker DEF AtBroker
<1>3. Unpublished(t)' <=> Unsent(t)'
  BY DEF Unpublished, Unsent, Created, Creates, InBuffer, IsJob
<1>4. Holding(t)' # {} => (CHOOSE l \in Holding(t) : TRUE)' \in Holding(t)'
  OBVIOUS
<1> QED BY <1>1, <1>2, <1>3, <1>4 DEF Place, Holder, Holding, Holds

\* A retried task stays where it is, and so does a task whose jobs do.
LEMMA RetriedStays == ASSUME NEW t, Retried(t), Retried(t)' PROVE Placed(t)
BY PlaceOf, PlaceNext DEF Placed

LEMMA PlaceStays ==
  ASSUME NEW t, Retried(t)' <=> Retried(t), UNCHANGED held,
         InQueues(queue', t) <=> InQueues(queue, t), Unsent(t)' <=> Unsent(t)
  PROVE  Placed(t)
<1>1. Holder(t)' = Holder(t)
  BY DEF Holder, Holding
<1> QED BY <1>1, PlaceOf, PlaceNext DEF Placed

LEMMA MarksStay == ASSUME NEW t, marks'[t] = marks[t] PROVE Retried(t)' <=> Retried(t)
BY DEF Retried

LEMMA Soled == ASSUME JobsInv, NEW t \in TaskId, ~Retried(t) PROVE Sole(t)
BY DEF JobsInv, Retried

\* What is known of a task is not taken back.
LEMMA ResultSteps ==
  ASSUME Whole, PipelineNext, NEW t \in TaskId
  PROVE  \/ Told(t) \/ Result(t)' = "excused"
         \/ Clean(t)' /\ Result(t) = "open" /\ Result(t)' = "known"
<1>1. CASE ~Clean(t)'
  BY <1>1 DEF Clean, Result
<1>2. CASE Clean(t)'
  <2>1. Clean(t) /\ MovesOn(t)
    BY <1>2, UnmarkedMovesOn DEF Whole
  <2>2. (Recorded(t) <=> Over(t) \/ ReportsOutcome(t)) /\ (Recorded(t)' <=> Over(t)' \/ ReportsOutcome(t)')
    BY DEF Recorded, Over, ReportsOutcome
  <2>3. Recorded(t) => Recorded(t)'
    BY <2>1, <2>2 DEF MovesOn
  <2> QED BY <1>2, <2>1, <2>3 DEF Clean, Result, Told
<1> QED BY <1>1, <1>2

\* A step of one handler tells something new of its task alone.
LEMMA SlotTells ==
  ASSUME NEW s \in Request, \A u \in Request \ {s} : req'[u] = req[u],
         NEW t, req[s].task # t, req'[s].task # t, task'[t] = task[t], marks'[t] = marks[t]
  PROVE  Told(t)
<1>1. Recorded(t)' <=> Recorded(t)
  BY DEF Recorded
<1> QED BY <1>1 DEF Told, Result

LEMMA QuietTells ==
  ASSUME UNCHANGED <<task, req>>, NEW t, marks'[t] = marks[t] PROVE Told(t)
<1>1. Recorded(t)' <=> Recorded(t)
  BY DEF Recorded
<1> QED BY <1>1 DEF Told, Result

LEMMA NoteElsewhere ==
  ASSUME Books, NEW v, NEW kinds, Note(v, kinds), NEW t \in TaskId \ {v} PROVE marks'[t] = marks[t]
BY DEF Books, MarkTypes, Note

\* A handler writes to no row but its own.
LEMMA OwnRowOnly ==
  ASSUME IInv, NEW s \in Request, Slotted(s), Continue(s) \/ DbError(s), NEW t \in TaskId \ {req[s].task}
  PROVE  task'[t] = task[t]
<1>1. task' = task \/ \E row : UpdateById(req[s].task, row)
  BY DEF Slotted, Continue, CreateInsert, CreateConflict, CreatePublish, CreateMarkQueued, ReportWrite,
     ReportDeadLetter, ReportSchedule, CancelWrite, RetryWrite, RetryPublish, DeleteWrite, UpdateWrite, DbError
<1> QED BY <1>1 DEF UpdateById, IInv, TypeOK

LEMMA OneHandlerTells ==
  ASSUME Whole, NEW s \in Request, ApiStep(s) \/ StatementFails(s), NEW t \in TaskId \ {req[s].task}
  PROVE  Told(t) /\ marks'[t] = marks[t]
<1>1. Slotted(s) /\ (Continue(s) \/ DbError(s)) /\ task'[t] = task[t]
  BY OwnRowOnly DEF Whole, HandlersInv, ApiStep, StatementFails
<1>2. /\ \A u \in Request \ {s} : req'[u] = req[u]
      /\ req'[s].task \in {req[s].task, NoTask}
  BY <1>1, ContinueSlot DEF Whole
<1>3. marks'[t] = marks[t]
  BY NoteElsewhere DEF Whole, ApiStep, StatementFails
<1> QED BY <1>1, <1>2, <1>3, SlotTells, TaskCommandsAssumption

LEMMA OneArrivalTells ==
  ASSUME Whole, NEW s \in Request, NEW v \in TaskId, Inserts(s, v) \/ Reads(s, v),
         NEW t \in TaskId \ {v}, marks'[t] = marks[t]
  PROVE  Told(t)
<1>1. TypeOK /\ Slotted(s)
  BY DEF Whole, IInv, HandlersInv
<1>2. /\ Idle(s) /\ task'[t] = task[t] /\ req'[s].task = v
      /\ \A u \in Request \ {s} : req'[u] = req[u]
  BY <1>1, InsertFacts, ReadFacts
<1>3. req[s].task # t
  BY <1>1, <1>2, TaskCommandsAssumption DEF Slotted
<1> QED BY <1>2, <1>3, SlotTells

-----------------------------------------------------------------------------
(* Which step of the contract each step of the pipeline is                  *)

KeepsContract == Contract!ContractNext \/ UNCHANGED Contract!contractVars

\* Something becomes known of one task, or its job is lost with an excuse.
LEMMA OneTaskOnly ==
  ASSUME Whole, PipelineNext, NEW v, \A t \in TaskId \ {v} : Placed(t) /\ Told(t),
         v \in TaskId =>
           Placed(v) \/ /\ Place(v) = "before" /\ Place(v)' = "over" /\ Holder(v)' = Holder(v)
                        /\ Result(v)' = "excused"
  PROVE  KeepsContract
<1>1. CASE v \notin TaskId
  BY <1>1, Stutters DEF KeepsContract
<1>2. CASE v \in TaskId /\ Result(v) = "open" /\ Result(v)' = "known"
  BY <1>2, Concludes DEF KeepsContract
<1>3. CASE v \in TaskId /\ (Told(v) \/ Result(v)' = "excused")
  <2>1. \A t \in TaskId : /\ Told(t) \/ Result(t)' = "excused"
                          /\ Placed(t) \/ (Place(t) = "before" /\ Place(t)' = "over"
                                           /\ Holder(t)' = Holder(t))
    BY <1>3
  <2> QED BY <2>1, Happens DEF KeepsContract
<1> QED BY <1>1, <1>2, <1>3, ResultSteps

\* A handler that goes on has its job bought in, or leaves an excuse.
LEMMA HandlersPlaces ==
  ASSUME Whole, NEW s \in Request, ApiStep(s) \/ StatementFails(s), NEW t \in TaskId
  PROVE  \/ Placed(t)
         \/ /\ t = req[s].task /\ Place(t) = "before" /\ Place(t)' = "over" /\ Holder(t)' = Holder(t)
            /\ Result(t)' = "excused"
<1>1. /\ Slotted(s) /\ UNCHANGED <<queue, held>> /\ (Continue(s) \/ DbError(s)) /\ TypeOK
      /\ outbox \in Seq(Message)
  BY DEF Whole, HandlersInv, ApiStep, StatementFails, brokerVars, IInv, TypeOK
<1>2. /\ ~Idle(s) /\ req[s].task \in TaskId /\ task[req[s].task].status # "ABSENT"
      /\ \A u \in Request \ {s} : req'[u] = req[u]
      /\ req'[s].task \in {req[s].task, NoTask} /\ NoTask # t
  BY <1>1, ContinueSlot, TaskCommandsAssumption DEF Whole, Slotted
<1>3. HandlerEffect(s, t)
  BY <1>1, RequestStepJobs DEF RequestStep, Whole
<1>4. Retried(t)' <=> Retried(t)
  BY DEF ApiStep, StatementFails, Note, Whole, Books, MarkTypes, Retried
<1>5. task'[t].status = "ABSENT" <=> task[t].status = "ABSENT"
  <2>1. CASE t = req[s].task
    <3>1. [Next]_vars
      BY <1>1 DEF Next
    <3> QED BY <1>2, <2>1, <3>1, RowsStay DEF Whole
  <2>2. CASE t # req[s].task
    BY <1>1, <2>2, OwnRowOnly DEF Whole
  <2> QED BY <2>1, <2>2
<1>6. \A m \in Message : /\ InBuffer(Append(outbox, m), t) <=> InBuffer(outbox, t) \/ IsJob(m, t)
  BY <1>1, BufferAppended
<1>7. CASE Retried(t)
  BY <1>4, <1>7, RetriedStays
<1>8. CASE ~Retried(t) /\ req[s].pc = "create.publish" /\ req[s].task = t
  <2>1. Unsent(t)
    BY <1>8 DEF Unsent, Created, Creates
  <2>2. CASE Unsent(t)'
    BY <1>1, <1>4, <2>1, <2>2, PlaceStays
  <2>3. CASE ~Unsent(t)'
    <3>1. Result(t)' = "excused"
      <4>1. CASE StatementFails(s)
        BY <1>8, <4>1 DEF StatementFails, Note, Whole, Books, MarkTypes, Result
      <4>2. CASE ApiStep(s)
        <5>1. ~HandedOver(s)
          <6>1. SUFFICES ASSUME outbox' # outbox PROVE Unsent(t)'
            BY <2>3 DEF HandedOver
          <6>2. CreatePublish(s)
            BY <1>8, <4>2 DEF ApiStep, Continue, CreateInsert, CreateConflict, CreateMarkQueued, ReportWrite,
               ReportDeadLetter, ReportSchedule, CancelWrite, RetryWrite, RetryPublish, DeleteWrite, UpdateWrite
          <6>3. outbox' = Append(outbox, TaskMessage(req[s]))
            BY <6>1, <6>2, PublishAppends DEF CreatePublish
          <6>4. TaskMessage(req[s]) \in Message /\ IsJob(TaskMessage(req[s]), t)
            BY <1>1, <1>2, <1>8, MessageTypes DEF TaskMessage, IsJob, TypeOK
          <6>5. InBuffer(outbox', t)
            BY <1>6, <6>3, <6>4
          <6> QED BY <6>5 DEF Unsent
        <5>2. Publishing(s)
          BY <1>8 DEF Publishing
        <5> QED BY <1>8, <4>2, <5>1, <5>2 DEF ApiStep, Note, Whole, Books, MarkTypes, Result
      <4> QED BY <4>1, <4>2
    <3>2. \/ Place(t)' = Place(t)
          \/ Place(t) = "before" /\ Place(t)' = "over"
      BY <1>1, <1>4, <1>8, <2>1, <2>3, PlaceOf, PlaceNext
    <3>3. Holder(t)' = Holder(t)
      BY <1>1, <1>4 DEF Holder, Holding
    <3> QED BY <1>8, <3>1, <3>2, <3>3 DEF Placed
  <2> QED BY <2>2, <2>3
<1>9. CASE ~Retried(t) /\ ~(req[s].pc = "create.publish" /\ req[s].task = t)
  <2>1. ~Creates(req[s], t)
    BY <1>9 DEF Creates
  <2>2. Created(req', t) <=> Created(req, t)
    <3>1. ~Creates(req'[s], t)
      BY <1>2, <1>3, <1>5, <2>1 DEF HandlerEffect, Creates
    <3> QED BY <1>2, <2>1, <3>1 DEF Created
  <2>3. InBuffer(outbox', t) <=> InBuffer(outbox, t)
    <3>1. ASSUME NEW m \in Message, outbox' = Append(outbox, m),
                 IsJob(m, t) => req[s].task = t /\ req[s].pc \in {"create.publish", "retry.publish"}
          PROVE  InBuffer(outbox', t) <=> InBuffer(outbox, t)
      <4>1. ~IsJob(m, t)
        BY <1>1, <1>9, <3>1 DEF Slotted, Retried
      <4> QED BY <1>6, <3>1, <4>1
    <3> QED BY <1>3, <3>1 DEF HandlerEffect
  <2>4. Unsent(t)' <=> Unsent(t)
    BY <1>5, <2>2, <2>3 DEF Unsent
  <2> QED BY <1>1, <1>4, <2>4, PlaceStays
<1> QED BY <1>7, <1>8, <1>9

LEMMA HandlersKeep ==
  ASSUME Whole, PipelineNext, NEW s \in Request, ApiStep(s) \/ StatementFails(s) PROVE KeepsContract
<1>1. PICK v : v = req[s].task
  OBVIOUS
<1>2. \A t \in TaskId \ {v} : Placed(t) /\ Told(t)
  BY <1>1, HandlersPlaces, OneHandlerTells
<1>3. v \in TaskId =>
        Placed(v) \/ /\ Place(v) = "before" /\ Place(v)' = "over" /\ Holder(v)' = Holder(v)
                     /\ Result(v)' = "excused"
  BY HandlersPlaces
<1> QED BY <1>2, <1>3, OneTaskOnly

\* A request that arrives moves no job, but a retry puts the task out of the contract.
LEMMA ArrivalPlaces ==
  ASSUME Whole, NEW s \in Request, NEW v \in TaskId, Inserts(s, v) \/ Reads(s, v), UNCHANGED brokerVars,
         NEW t \in TaskId, Retried(t)' <=> Retried(t)
  PROVE  Placed(t)
<1>1. TypeOK /\ UNCHANGED <<queue, held>>
  BY DEF Whole, IInv, brokerVars
<1>2. /\ ~Idle(s)' /\ Idle(s) /\ outbox' = outbox /\ \A u \in Request \ {s} : req'[u] = req[u]
      /\ \/ task'[t].status = task[t].status /\ ~Creates(req'[s], t)
         \/ task[t].status = "ABSENT" /\ Creates(req'[s], t)
  BY <1>1, InsertFacts, ReadFacts DEF Creates, Idle
<1>3. Unsent(t)' <=> Unsent(t)
  BY <1>2 DEF Unsent, Created, Creates, Idle
<1> QED BY <1>1, <1>3, PlaceStays

LEMMA CreateKeeps ==
  ASSUME Whole, PipelineNext, NEW s \in Request, Create(s) PROVE KeepsContract
<1>1. (\E v \in TaskId : Inserts(s, v)) /\ UNCHANGED brokerVars /\ marks' = marks
  BY DEF Create, CreateUnkeyed, Inserts, notes
<1>2. PICK v \in TaskId : Inserts(s, v)
  BY <1>1
<1>3. \A t \in TaskId : Placed(t)
  BY <1>1, <1>2, ArrivalPlaces, MarksStay
<1>4. \A t \in TaskId \ {v} : Told(t)
  BY <1>1, <1>2, OneArrivalTells
<1> QED BY <1>3, <1>4, OneTaskOnly

\* A handler has read the row of task v, and left its marks on it.
LEMMA ReadKeeps ==
  ASSUME Whole, PipelineNext, NEW s \in Request, NEW v \in TaskId, Reads(s, v), UNCHANGED brokerVars,
         NEW kinds, Note(v, kinds)
  PROVE  KeepsContract
<1>1. \A t \in TaskId \ {v} : marks'[t] = marks[t]
  BY NoteElsewhere DEF Whole
<1>2. \A t \in TaskId \ {v} : Placed(t) /\ Told(t)
  BY <1>1, ArrivalPlaces, OneArrivalTells, MarksStay
<1>3. CASE Retried(v)' <=> Retried(v)
  BY <1>2, <1>3, ArrivalPlaces, OneTaskOnly
<1>4. CASE Retried(v)'
  BY <1>2, <1>4, Reissues DEF KeepsContract
<1>5. Retried(v) => Retried(v)'
  BY MarksGrow DEF Whole, Retried
<1> QED BY <1>3, <1>4, <1>5

LEMMA OperateKeeps ==
  ASSUME Whole, PipelineNext, NEW s \in Request, NEW v \in TaskId, Operate(s, v) PROVE KeepsContract
<1>1. Reads(s, v) /\ UNCHANGED brokerVars /\ \E kinds : Note(v, kinds)
  BY DEF Operate, Reads
<1> QED BY <1>1, ReadKeeps

LEMMA ReportArrivesKeeps ==
  ASSUME Whole, PipelineNext, NEW l \in Lane, NEW s \in Request, ReportArrives(l, s)
  PROVE  KeepsContract
<1>1. PICK v : v = TaskOf(l)
  OBVIOUS
<1>2. W!Busy(l)
  BY DEF ReportArrives, W!Call, W!Busy
<1>3. v \in TaskId /\ job[l].next \in Reportable
  BY <1>1, <1>2, JobsOfTasks DEF Whole
<1>4. Reads(s, v) /\ UNCHANGED brokerVars /\ \E kinds : Note(v, kinds)
  BY <1>1, <1>3 DEF ReportArrives, Reads
<1> QED BY <1>3, <1>4, ReadKeeps

LEMMA LateReportKeeps ==
  ASSUME Whole, PipelineNext, NEW r \in late, NEW s \in Request, LateReportArrives(r, s)
  PROVE  KeepsContract
<1>1. r[1] \in TaskId /\ r[2] \in Reportable
  BY DEF Whole, Books, LateTypes
<1>2. Reads(s, r[1]) /\ UNCHANGED brokerVars /\ \E kinds : Note(r[1], kinds)
  BY <1>1 DEF LateReportArrives, Reads
<1> QED BY <1>1, <1>2, ReadKeeps
-----------------------------------------------------------------------------
\* What leaves the workers' deliveries, the queues and the jobs to come as they are.
LEMMA QuietPlaces ==
  ASSUME UNCHANGED <<task, req, outbox, held>>, NEW t, InQueues(queue', t) <=> InQueues(queue, t),
         marks'[t] = marks[t]
  PROVE  Placed(t) /\ Told(t)
<1>1. Unsent(t)' <=> Unsent(t)
  BY DEF Unsent
<1> QED BY <1>1, PlaceStays, MarksStay, QuietTells

LEMMA QuietKeeps ==
  ASSUME Whole, PipelineNext, UNCHANGED apiVars, UNCHANGED brokerVars, NEW v,
         \A t \in TaskId \ {v} : marks'[t] = marks[t]
  PROVE  KeepsContract
<1>1. UNCHANGED <<task, req, outbox, held, queue>>
  BY DEF apiVars, brokerVars
<1>2. \A t \in TaskId \ {v} : Placed(t) /\ Told(t)
  BY <1>1, QuietPlaces
<1>3. CASE v \in TaskId /\ (Retried(v)' <=> Retried(v))
  <2>1. Unsent(v)' <=> Unsent(v)
    BY <1>1 DEF Unsent
  <2> QED BY <1>1, <1>2, <1>3, <2>1, PlaceStays, OneTaskOnly
<1>4. CASE v \in TaskId /\ Retried(v)'
  BY <1>2, <1>4, Reissues DEF KeepsContract
<1>5. CASE v \notin TaskId
  BY <1>2, <1>5, OneTaskOnly
<1>6. v \in TaskId => (Retried(v) => Retried(v)')
  BY MarksGrow DEF Whole, Retried
<1> QED BY <1>3, <1>4, <1>5, <1>6

LEMMA ToBrokerKeeps == ASSUME Whole, PipelineNext, ToBroker PROVE KeepsContract
<1> DEFINE m == Head(outbox)
<1>1. /\ UNCHANGED <<task, req, held, marks>> /\ outbox \in Seq(Message) /\ outbox # <<>>
      /\ outbox' = Tail(outbox)
  BY ToBrokerJobs DEF Whole
<1>2. m \in Message
  BY <1>1, TailFacts
<1>3. ASSUME NEW t \in TaskId
      PROVE  /\ InQueues(queue', t) <=> InQueues(queue, t) \/ IsJob(m, t)
             /\ InBuffer(outbox', t) => InBuffer(outbox, t)
             /\ InBuffer(outbox, t) => IsJob(m, t) \/ InBuffer(outbox', t)
             /\ IsJob(m, t) => InBuffer(outbox, t)
             /\ Told(t) /\ (Retried(t)' <=> Retried(t))
  <2>1. InQueues(queue', t) <=> InQueues(queue, t) \/ IsJob(m, t)
    BY ToBrokerJobs DEF Whole
  <2>2. InBuffer(outbox, t) => IsJob(m, t) \/ InBuffer(outbox', t)
    BY <1>1, TailFacts DEF InBuffer
  <2>3. (InBuffer(outbox', t) => InBuffer(outbox, t)) /\ (IsJob(m, t) => InBuffer(outbox, t))
    BY <1>1, BufferTaken
  <2>4. Told(t) /\ (Retried(t)' <=> Retried(t))
    BY <1>1, QuietTells, MarksStay
  <2> QED BY <2>1, <2>2, <2>3, <2>4
<1> HIDE DEF m
<1>4. ASSUME NEW t \in TaskId, ~IsJob(m, t) \/ Retried(t) PROVE Placed(t)
  <2>1. CASE Retried(t)
    BY <1>3, <2>1, RetriedStays
  <2>2. CASE ~IsJob(m, t)
    <3>1. Unsent(t)' <=> Unsent(t)
      BY <1>1, <1>3, <2>2 DEF Unsent
    <3> QED BY <1>1, <1>3, <2>2, <3>1, PlaceStays
  <2> QED BY <1>4, <2>1, <2>2
<1>5. CASE \A t \in TaskId : ~IsJob(m, t) \/ Retried(t)
  BY <1>3, <1>4, <1>5, Stutters DEF KeepsContract
<1>6. ASSUME NEW v \in TaskId, IsJob(m, v), ~Retried(v) PROVE KeepsContract
  <2>1. \A t \in TaskId \ {v} : Placed(t)
    BY <1>4, <1>6 DEF IsJob
  <2>2. ~InQueues(queue, v) /\ ~Delivered(held, v) /\ ~Delivered(held', v)
    <3>1. Sole(v)
      BY <1>6, Soled DEF Whole
    <3> QED BY <1>1, <1>3, <1>6, <3>1 DEF Sole, OneJob
  <2>3. Place(v) = "before"
    BY <1>3, <1>6, <2>2, PlaceOf DEF Unsent
  <2>4. Place(v)' = "offered"
    BY <1>3, <1>6, <2>2, PlaceNext
  <2>5. Holder(v)' = Holder(v)
    BY <2>2, PlaceOf, PlaceNext
  <2> QED BY <1>3, <2>1, <2>3, <2>4, <2>5, Offers DEF Goes, KeepsContract, Contract!ContractNext
<1> QED BY <1>5, <1>6

LEMMA RetryDueKeeps ==
  ASSUME Whole, NEW n \in B!Tier, RetryDue(n) PROVE KeepsContract
<1>1. \A t \in TaskId : /\ UNCHANGED <<task, req, outbox, held, marks>>
                        /\ InQueues(queue', t) <=> InQueues(queue, t)
  BY RetryDueJobs DEF Whole, JobsInv, RetryDue, B!Expire
<1>2. \A t \in TaskId : Placed(t) /\ Told(t)
  BY <1>1, QuietPlaces
<1> QED BY <1>2, Stutters DEF KeepsContract

LEMMA TakeKeeps ==
  ASSUME Whole, NEW l \in Lane, TakeJob(l) PROVE KeepsContract
<1>1. PICK m : m = Head(queue[B!Source(l)])
  OBVIOUS
<1>2. /\ UNCHANGED <<task, req, outbox, marks>> /\ held[l] = Nothing
      /\ m \in Message /\ InQueues(queue, m.task)
      /\ \A k \in Lane : held'[k] = IF k = l THEN m ELSE held[k]
  BY <1>1, TakeJobs DEF Whole
<1>3. m # Nothing /\ m.task \in TaskId
  BY <1>2, PipelineAssumption DEF Message
<1>4. ASSUME NEW t \in TaskId
      PROVE  /\ TakenFrom(queue, queue', m, t) /\ Told(t) /\ (Retried(t)' <=> Retried(t))
             /\ Unsent(t)' <=> Unsent(t)
             /\ \A k \in Lane : Holds(held', k, t) <=> IF k = l THEN m.task = t ELSE Holds(held, k, t)
  <2>1. TakenFrom(queue, queue', m, t)
    BY <1>1, TakeJobs DEF Whole
  <2>2. Told(t) /\ (Retried(t)' <=> Retried(t)) /\ (Unsent(t)' <=> Unsent(t))
    BY <1>2, QuietTells, MarksStay DEF Unsent
  <2> QED BY <1>2, <1>3, <2>1, <2>2 DEF Holds
<1>5. ASSUME NEW t \in TaskId, m.task # t PROVE Placed(t)
  <2>1. Holding(t)' = Holding(t)
    BY <1>2, <1>3, <1>5 DEF Holding
  <2>2. Holder(t)' = Holder(t)
    BY <1>4, <2>1 DEF Holder
  <2>3. Delivered(held', t) <=> Delivered(held, t)
    BY <1>2, <1>4, <1>5 DEF Delivered, Holds
  <2>4. InQueues(queue', t) <=> InQueues(queue, t)
    BY <1>4, <1>5 DEF TakenFrom
  <2> QED BY <1>4, <2>2, <2>3, <2>4, PlaceOf, PlaceNext DEF Placed
<1>6. PICK v \in TaskId : v = m.task
  BY <1>3
<1>7. CASE Retried(v)
  <2>1. \A t \in TaskId : Placed(t) /\ Told(t)
    BY <1>4, <1>5, <1>6, <1>7, RetriedStays
  <2> QED BY <2>1, Stutters DEF KeepsContract
<1>8. CASE ~Retried(v)
  <2>1. Sole(v)
    BY <1>8, Soled DEF Whole
  <2>2. ~Delivered(held, v) /\ InQueues(queue, v)
    BY <1>2, <1>6, <2>1 DEF Sole, OneJob
  <2>3. Delivered(held', v) /\ \A k \in Lane : Holds(held', k, v) => k = l
    BY <1>4, <1>6, <2>2 DEF Delivered
  <2>4. Place(v) = "offered" /\ Place(v)' = "leased"
    BY <1>4, <1>8, <2>2, <2>3, PlaceOf, PlaceNext
  <2>5. Holder(v)' = l
    BY <1>4, <1>8, <2>3, PlaceNext
  <2> QED BY <1>4, <1>5, <1>6, <2>4, <2>5, Leases DEF Goes, KeepsContract, Contract!ContractNext
<1> QED BY <1>7, <1>8
-----------------------------------------------------------------------------
LEMMA ReportEndsKeeps ==
  ASSUME Whole, PipelineNext, NEW l \in Lane, ReportEnds(l) PROVE KeepsContract
<1>1. PICK v : v = TaskOf(l)
  OBVIOUS
<1>2. /\ UNCHANGED apiVars /\ W!Busy(l)
      /\ UNCHANGED brokerVars \/ (W!Settle(l) /\ B!Ack(l))
  BY DEF ReportEnds, ReportIgnored, ReportAnswered, ReportFails, ReportTimesOut, ReportOverdue, Resume, W!Busy
<1>3. v \in TaskId
  BY <1>1, <1>2, JobsOfTasks DEF Whole
<1>4. /\ \A t \in TaskId \ {v} : marks'[t] = marks[t]
      /\ Retried(v)' <=> Retried(v)
  BY <1>1, <1>3 DEF ReportEnds, ReportIgnored, ReportAnswered, ReportFails, ReportTimesOut, ReportOverdue, Note,
     Met, Retried, Whole, Books, MarkTypes
<1>5. CASE UNCHANGED brokerVars
  BY <1>2, <1>4, <1>5, QuietKeeps
<1>6. CASE W!Settle(l) /\ B!Ack(l)
  <2>1. /\ UNCHANGED <<task, req, outbox, queue>> /\ held[l] # Nothing /\ held[l] = job[l].msg
        /\ \A k \in Lane : held'[k] = IF k = l THEN Nothing ELSE held[k]
    BY <1>2, <1>6 DEF B!Ack, W!Settle, W!Owner, apiVars, Whole, Agreement, QueueTypes, DeliveriesMatchJobs
  <2>2. held[l].task = v /\ Holds(held, l, v)
    BY <1>1, <2>1 DEF TaskOf, Holds
  <2>3. ASSUME NEW t \in TaskId \ {v} PROVE Placed(t) /\ Told(t)
    <3>1. Holding(t)' = Holding(t)
      BY <2>1, <2>2 DEF Holding
    <3>2. (Retried(t)' <=> Retried(t)) /\ (Unsent(t)' <=> Unsent(t))
      BY <1>4, <2>1, MarksStay DEF Unsent
    <3>3. Holder(t)' = Holder(t)
      BY <3>1, <3>2 DEF Holder
    <3>4. Delivered(held', t) <=> Delivered(held, t)
      BY <2>1, <2>2 DEF Delivered, Holds
    <3>5. Told(t)
      BY <1>4, <2>1, QuietTells
    <3> QED BY <2>1, <3>2, <3>3, <3>4, <3>5, PlaceOf, PlaceNext DEF Placed
  <2>4. CASE Retried(v)
    BY <1>4, <2>3, <2>4, RetriedStays, OneTaskOnly
  <2>5. CASE ~Retried(v)
    <3>1. Sole(v)
      BY <1>3, <2>5, Soled DEF Whole
    <3>2. Delivered(held, v) /\ ~Created(req, v) /\ ~InBuffer(outbox, v) /\ ~InQueues(queue, v)
      BY <2>2, <3>1 DEF Sole, OneJob, Delivered
    <3>3. task[v].status # "ABSENT"
      BY <1>3, <3>2 DEF Whole, JobsInv, Rowed, JobIn
    <3>4. ~Delivered(held', v)
      BY <2>1, <2>2, <3>1 DEF Sole, OneJob, HeldOnce, Delivered, Holds
    <3>5. ~Unsent(v)'
      BY <2>1, <3>2, <3>3 DEF Unsent
    <3>6. Place(v) = "leased" /\ Place(v)' = "over" /\ Holder(v)' = NoLane
      BY <1>4, <2>1, <2>5, <3>2, <3>4, <3>5, PlaceOf, PlaceNext
    <3>7. Result(v)' = "excused" \/ (Told(v) /\ Result(v) # "open")
      <4>1. CASE ~Clean(v)'
        BY <4>1 DEF Clean, Result
      <4>2. CASE Clean(v)'
        <5>1. AtBroker(v) /\ ~AtBroker(v)'
          BY <2>1, <3>2, <3>4 DEF AtBroker
        <5>2. Over(v) \/ ReportsOutcome(v)
          BY <1>3, <4>2, <5>1, SettledIsRecorded DEF Whole
        <5>3. Clean(v)
          BY <1>3, <4>2, UnmarkedMovesOn DEF Whole
        <5>4. Recorded(v)
          BY <5>2 DEF Recorded, Over, ReportsOutcome
        <5>5. Told(v)
          BY <2>1, <4>2, <5>3, QuietTells DEF Clean
        <5> QED BY <5>4, <5>5 DEF Result
      <4> QED BY <4>1, <4>2
    <3> QED BY <1>3, <2>3, <3>6, <3>7, Settles DEF Goes, KeepsContract, Contract!ContractNext
  <2> QED BY <2>4, <2>5
<1> QED BY <1>2, <1>5, <1>6

LEMMA WorkerLossKeeps ==
  ASSUME Whole, NEW w \in Worker, WorkerCrash(w) \/ WorkerDrop(w) \/ WorkerShutdown(w)
  PROVE  KeepsContract
<1>1. B!Disconnect(w) /\ UNCHANGED <<task, req, outbox, marks>> /\ QueueTypes
  BY DEF WorkerCrash, WorkerDrop, WorkerShutdown, Whole, Agreement, apiVars
<1>2. \A l \in Lane : held'[l] = IF l[1] = w THEN Nothing ELSE held[l]
  BY <1>1, ReleasedLanes
<1>3. ASSUME NEW t \in TaskId
      PROVE  IF Place(t) = "leased" /\ Holder(t)[1] = w THEN Place(t)' = "offered" /\ Holder(t)' = NoLane
                                                        ELSE Placed(t)
  <2>1. /\ Retried(t)' <=> Retried(t)
        /\ Unsent(t)' <=> Unsent(t)
        /\ InQueues(queue', t) <=> InQueues(queue, t) \/ \E l \in Lane : l[1] = w /\ Holds(held, l, t)
    BY <1>1, MarksStay, DisconnectJobs DEF Unsent
  <2>2. CASE Retried(t)
    BY <2>1, <2>2, RetriedStays, PlaceOf
  <2>3. CASE ~Retried(t) /\ Delivered(held, t)
    <3>1. PICK k \in Lane : k = Holder(t) /\ Holds(held, k, t)
      BY <2>3, PlaceOf
    <3>2. \A l \in Lane : Holds(held, l, t) => l = k
      BY <2>3, <3>1, Soled DEF Whole, Sole, OneJob, HeldOnce
    <3>3. Place(t) = "leased"
      BY <2>3, PlaceOf
    <3>4. CASE k[1] = w
      <4>1. ~Delivered(held', t)
        BY <1>2, <3>2, <3>4 DEF Delivered, Holds
      <4>2. InQueues(queue', t)
        BY <2>1, <3>1, <3>4
      <4> QED BY <2>1, <2>3, <3>1, <3>3, <3>4, <4>1, <4>2, PlaceNext
    <3>5. CASE k[1] # w
      <4>1. Holding(t)' = Holding(t)
        BY <1>2, <3>2, <3>5 DEF Holding, Holds
      <4>2. Holder(t)' = Holder(t)
        BY <2>1, <4>1 DEF Holder
      <4>3. Delivered(held', t)
        BY <1>2, <3>1, <3>5 DEF Delivered, Holds
      <4> QED BY <2>1, <2>3, <3>1, <3>3, <3>5, <4>2, <4>3, PlaceNext DEF Placed
    <3> QED BY <3>4, <3>5
  <2>4. CASE ~Retried(t) /\ ~Delivered(held, t)
    <3>1. ~Delivered(held', t) /\ (InQueues(queue', t) <=> InQueues(queue, t))
      BY <1>2, <2>1, <2>4 DEF Delivered, Holds
    <3> QED BY <2>1, <2>4, <3>1, PlaceOf, PlaceNext DEF Placed
  <2> QED BY <2>2, <2>3, <2>4
<1>4. \A t \in TaskId : Told(t)
  BY <1>1, QuietTells
<1> QED BY <1>3, <1>4, Revokes DEF KeepsContract

LEMMA ApiLossKeeps ==
  ASSUME Whole, PipelineNext, ApiDies \/ BufferLost PROVE KeepsContract
<1>1. \A t \in TaskId : Retried(t)' <=> Retried(t)
  BY DEF ApiDies, BufferLost, Retried, Whole, Books, MarkTypes
<1>2. ASSUME NEW t \in TaskId
      PROVE  Placed(t) \/ (Place(t) = "before" /\ Place(t)' = "over" /\ Holder(t)' = Holder(t))
  <2>1. UNCHANGED <<task, queue, held>> /\ ~InBuffer(outbox', t) /\ (Created(req', t) => Created(req, t))
    BY LossJobs
  <2>2. Unsent(t)' => Unsent(t)
    BY <2>1 DEF Unsent
  <2>3. Holder(t)' = Holder(t)
    BY <1>1, <2>1 DEF Holder, Holding
  <2> QED BY <1>1, <2>1, <2>2, <2>3, PlaceOf, PlaceNext DEF Placed
<1>3. ASSUME NEW t \in TaskId PROVE Told(t) \/ Result(t)' = "excused"
  <2>1. CASE BufferLost
    BY <2>1, QuietTells DEF BufferLost, ConnectionLost
  <2>2. CASE ApiDies
    <3>1. task' = task /\ \A s \in Request : req'[s].pc = "idle"
      BY <2>2 DEF ApiDies, ApiCrash, IdleSlot
    <3>2. Recorded(t)' => Recorded(t)
      BY <3>1 DEF Recorded
    <3>3. Clean(t)' => Clean(t)
      BY UnmarkedMovesOn DEF Whole
    <3> QED BY <3>2, <3>3, ResultSteps DEF Clean, Result
  <2> QED BY <2>1, <2>2
<1> QED BY <1>2, <1>3, Happens DEF KeepsContract

LEMMA EveryStepKeeps == ASSUME Whole, PipelineNext PROVE KeepsContract
<1>1. ASSUME NEW l \in Lane, RunJob(l) PROVE KeepsContract
  BY <1>1, QuietKeeps DEF RunJob, notes
<1>2. ASSUME NEW w \in Worker, StartWorker(w) \/ WorkerExit(w) PROVE KeepsContract
  BY <1>2, QuietKeeps DEF StartWorker, WorkerExit, notes
<1>3. CASE Progress
  BY <1>1, <1>2, <1>3, HandlersKeep, ToBrokerKeeps, RetryDueKeeps, TakeKeeps, ReportEndsKeeps, ReportArrivesKeeps
  DEF Progress, ReportEnds
<1>4. CASE Outside
  BY <1>4, CreateKeeps, HandlersKeep, OperateKeeps, ApiLossKeeps, ReportEndsKeeps, LateReportKeeps, WorkerLossKeeps
  DEF Outside, ReportEnds
<1> QED BY <1>3, <1>4 DEF PipelineNext

\* The pipeline keeps its contract, for any number of tasks, requests, workers, lanes
\* and retries, with every fault, operator and meeting of handlers in any number and
\* order: a job is leased to one lane at a time, only the end of that lane's connection
\* takes it back, and its holder settles it once, when it is known what became of the
\* task.  What the contract excuses is what the marks of a task say: an operator's
\* retry, which publishes a second job, and handlers that met, failed or were not heard.
THEOREM PipelineKeepsContract == PipelineSpec => ContractKept
<1>1. PipelineInit => Contract!ContractInit
  <2> SUFFICES ASSUME PipelineInit PROVE Contract!ContractInit
    OBVIOUS
  <2>1. \A t \in TaskId : ~Delivered(held, t) /\ ~InQueues(queue, t)
    BY NoJobsYet DEF JobIn
  <2>2. \A t \in TaskId : task[t].status = "ABSENT" /\ marks[t] = {}
    BY DEF PipelineInit, Init
  <2>3. \A s \in Request : req[s].pc = "idle"
    BY NoJobsYet
  <2>4. \A t \in TaskId : Place(t) = "before" /\ Holder(t) = NoLane
    BY <2>1, <2>2, PlaceOf DEF Unsent, Retried
  <2>5. \A t \in TaskId : Result(t) = "open"
    BY <2>2, <2>3 DEF Result, Recorded
  <2> QED BY <2>4, <2>5 DEF Contract!ContractInit, Places, Holders, Results
<1>2. Whole /\ [PipelineNext]_pipelineVars => [Contract!ContractNext]_(Contract!contractVars)
  <2>1. Whole /\ PipelineNext => Contract!ContractNext \/ UNCHANGED Contract!contractVars
    BY EveryStepKeeps DEF KeepsContract
  <2>2. UNCHANGED pipelineVars => UNCHANGED Contract!contractVars
    <3>1. SUFFICES ASSUME UNCHANGED pipelineVars PROVE \A t \in TaskId : Placed(t) /\ Told(t)
      BY Stutters
    <3> QED BY <3>1, QuietPlaces DEF pipelineVars, apiVars, brokerVars, notes
  <2> QED BY <2>1, <2>2
<1>3. Agreement /\ IInv /\ Books /\ HandlersInv /\ JobsInv /\ KeptJobs => Whole
  BY DEF Whole, KeptJobs
<1> QED BY <1>1, <1>2, <1>3, PipelineInvariant, HandlersInvariant, JobsInvariant, KeptJobsInvariant, PTL
     DEF PipelineSpec, ContractKept, Contract!ContractSpec
=============================================================================
