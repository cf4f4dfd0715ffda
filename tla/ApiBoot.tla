------------------------------- MODULE ApiBoot -------------------------------
(***************************************************************************)
(* How the API process comes up (apps/api/src/main.ts) and what its queue   *)
(* module hands to the others: the providers are built first, the lifecycle *)
(* hooks run when the application is told to listen.                        *)
(***************************************************************************)
EXTENDS Naturals

CONSTANTS
  Task,      \* tasks that are created
  Starts     \* bound: times the process is started

VARIABLES
  stage,     \* how far bootstrap() has come
  manager,   \* RabbitMQConnectionService.manager, and its connection
  captured,  \* what each client of the queue module was built with
  row,       \* the status of each task
  starts

bootVars == <<stage, manager, captured, row, starts>>

Client == {"TASK_PRODUCER", "QUEUE_INSPECTOR"}
Manager == {"undefined", "connecting", "open", "lost"}

BootInit ==
  /\ stage = "building" /\ manager = "undefined" /\ starts = 1
  /\ captured = [c \in Client |-> "undefined"] /\ row = [t \in Task |-> "ABSENT"]

\* The factory's argument is the value of svc.manager at that moment.
Captured(m) == IF m = "undefined" THEN "undefined" ELSE "manager"

\* NestFactory.create calls every factory once.
BuildProviders ==
  /\ stage = "building" /\ stage' = "built"
  /\ captured' = [c \in Client |-> Captured(manager)]
  /\ UNCHANGED <<manager, row, starts>>

\* app.listen runs the hooks before it opens the port; here onModuleInit.
ModuleInit ==
  /\ stage = "built" /\ stage' = "initialising" /\ manager' = "connecting"
  /\ UNCHANGED <<captured, row, starts>>

Connected ==
  /\ stage = "initialising" /\ stage' = "listening" /\ manager' = "open"
  /\ UNCHANGED <<captured, row, starts>>

\* connect() throws: bootstrap ends the process.
ConnectFails ==
  /\ stage = "initialising" /\ stage' = "exited" /\ manager' = "undefined"
  /\ UNCHANGED <<captured, row, starts>>

\* The manager's own reconnects are ConnectionManager's matter.
ConnectionChanges ==
  /\ stage = "listening" /\ manager' = IF manager = "open" THEN "lost" ELSE "open"
  /\ UNCHANGED <<stage, captured, row, starts>>

\* getChannel() of what the client was built with.
HasChannel(c) == captured[c] = "manager" /\ manager = "open"

\* CreateTaskHandler catches the error of the publish and leaves the row PENDING.
CreateTask(t) ==
  /\ stage = "listening" /\ row[t] = "ABSENT"
  /\ row' = [row EXCEPT ![t] = IF HasChannel("TASK_PRODUCER") THEN "QUEUED" ELSE "PENDING"]
  /\ UNCHANGED <<stage, manager, captured, starts>>

\* SIGTERM: onModuleDestroy closes the manager.
ModuleDestroy ==
  /\ stage = "listening" /\ stage' = "exited" /\ manager' = "undefined"
  /\ UNCHANGED <<captured, row, starts>>

\* Docker starts the container again.
Restart ==
  /\ stage = "exited" /\ starts < Starts /\ starts' = starts + 1
  /\ stage' = "building" /\ captured' = [c \in Client |-> "undefined"]
  /\ UNCHANGED <<manager, row>>

BootNext ==
  \/ BuildProviders \/ ModuleInit \/ Connected \/ ConnectFails
  \/ ConnectionChanges \/ ModuleDestroy \/ Restart
  \/ \E t \in Task : CreateTask(t)

BootSpec == BootInit /\ [][BootNext]_bootVars
-----------------------------------------------------------------------------
\* "Owns the RabbitMQ connection; exposes TaskProducer / QueueInspector to other
\* modules" (docs/architecture.md:62): a task created while the API is connected to
\* the broker is published, and only an unreachable broker leaves it PENDING
\* (docs/deployment.md:106).
ConnectedApiPublishes ==
  [][\A t \in Task : row[t] = "ABSENT" /\ row'[t] = "PENDING" => manager # "open"]_bootVars
=============================================================================
