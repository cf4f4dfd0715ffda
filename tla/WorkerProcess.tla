---------------------------- MODULE WorkerProcess ----------------------------
(***************************************************************************)
(* A worker process (apps/worker/src): whether it is up and subscribed,    *)
(* and the job each of its lanes is running.  WorkerConsumerLoop hands a   *)
(* delivery to TaskRunner.run, which reports RUNNING, executes the task    *)
(* and reports the outcome; ApiClient.updateTaskStatus swallows every      *)
(* failure of a report, so the runner goes on after an answer, an error    *)
(* and a timeout alike.                                                    *)
(*                                                                         *)
(* This module is the worker's half of each step; Pipeline joins it to the *)
(* broker's and the API's.  Workers accept every task type (the default    *)
(* WORKER_QUEUES, "*").                                                    *)
(***************************************************************************)
EXTENDS Naturals

CONSTANTS
  Worker,     \* worker processes
  Lane,       \* places for a delivery: tuples whose first part is the worker
  JobMessage, \* job messages: records with a task, an attempt and maxRetries
  Runnable,   \* tasks whose type has a registered executor
  Nothing     \* no message

VARIABLES
  proc,   \* what each process is doing
  job     \* the job of each lane

workerVars == <<proc, job>>

\* "deaf": connected again after a lost connection, on a channel with no
\* consumers.  "closing": the signal handler is closing the connection.
ProcState == {"down", "consuming", "deaf", "closing"}

\* `next` is the status being reported; "sending" while the request is on its
\* way to the API, "waiting" while the API works on it.
Job == [pc: {"idle", "sending", "waiting", "executing"}, msg: JobMessage \cup {Nothing},
        next: {"RUNNING", "COMPLETED", "FAILED", "RETRYING"}]

IdleJob == [pc |-> "idle", msg |-> Nothing, next |-> "RUNNING"]
Busy(l) == job[l].pc # "idle"
Owner(l) == l[1]
Reporting(l) == job[l].pc \in {"sending", "waiting"}

WorkerInit ==
  /\ proc = [w \in Worker |-> "down"]
  /\ job = [l \in Lane |-> IdleJob]

\* bootstrap: register, connect, subscribe.
Start(w) ==
  /\ proc[w] = "down"
  /\ proc' = [proc EXCEPT ![w] = "consuming"] /\ UNCHANGED job

\* mutant: the runner executes the task without reporting RUNNING first
Take_Unreported(l, m) ==
  /\ proc[Owner(l)] = "consuming" /\ ~Busy(l)
  /\ job' = [job EXCEPT ![l] = [pc |-> "executing", msg |-> m, next |-> "RUNNING"]]
  /\ UNCHANGED proc
Take(l, m) ==
  /\ proc[Owner(l)] = "consuming" /\ ~Busy(l)
  /\ job' = [job EXCEPT ![l] = [pc |-> "sending", msg |-> m, next |-> "RUNNING"]]
  /\ UNCHANGED proc

\* The API starts to serve the report.
Call(l) ==
  /\ job[l].pc = "sending"
  /\ job' = [job EXCEPT ![l].pc = "waiting"] /\ UNCHANGED proc

\* The report of RUNNING is over, one way or another.
Proceed(l) ==
  /\ Reporting(l) /\ job[l].next = "RUNNING"
  /\ job' = [job EXCEPT ![l].pc = "executing"] /\ UNCHANGED proc

Outcomes(m) ==
  IF m.task \notin Runnable THEN {"FAILED"}
  ELSE {"COMPLETED", IF m.attempt >= m.maxRetries THEN "FAILED" ELSE "RETRYING"}

Execute(l) ==
  /\ job[l].pc = "executing"
  /\ \E o \in Outcomes(job[l].msg) :
       job' = [job EXCEPT ![l].pc = "sending", ![l].next = o]
  /\ UNCHANGED proc

\* The report of the outcome is over: the runner returns and the loop acks.
Outcome(l) == Reporting(l) /\ job[l].next # "RUNNING"
Settle(l) ==
  /\ Outcome(l) /\ proc[Owner(l)] = "consuming"
  /\ job' = [job EXCEPT ![l] = IdleJob] /\ UNCHANGED proc

\* The process ends, whatever it was running.
Die(w) ==
  /\ proc[w] # "down"
  /\ proc' = [proc EXCEPT ![w] = "down"]
  /\ job' = [l \in Lane |-> IF Owner(l) = w THEN IdleJob ELSE job[l]]

\* The channel the delivery came on is closed: ack throws, so does the nack in
\* the catch of the loop and the one in the catch of the consumer, whose promise
\* nobody awaits; Node ends the process on the unhandled rejection.
SettleClosed(l) ==
  Outcome(l) /\ proc[Owner(l)] \in {"deaf", "closing"} /\ Die(Owner(l))

\* The AMQP connection is lost.  The manager reconnects by itself, but subscribe
\* is called once, by bootstrap.  Jobs under way go on.
\* mutant: the worker subscribes again while it still runs the old jobs
ConnectionDrop_Resubscribes(w) == proc[w] = "consuming" /\ UNCHANGED workerVars
ConnectionDrop(w) ==
  /\ proc[w] = "consuming"
  /\ proc' = [proc EXCEPT ![w] = "deaf"] /\ UNCHANGED job

\* SIGTERM: the channel and the connection are closed first, then the process
\* exits.  Nothing waits for the jobs.
Shutdown(w) ==
  /\ proc[w] \in {"consuming", "deaf"}
  /\ proc' = [proc EXCEPT ![w] = "closing"] /\ UNCHANGED job
Exit(w) == proc[w] = "closing" /\ Die(w)

WorkerTypeOK == proc \in [Worker -> ProcState] /\ job \in [Lane -> Job]
=============================================================================
