# DistroTask: TLA+ models and proofs

DistroTask accepts tasks over HTTP, stores them in Postgres, hands them to
workers through RabbitMQ and shows their progress on a dashboard.  This
directory holds TLA+ models of its protocols, the TLC instances that check
them and the proofs of what matters most.  Paths below are relative to `src/`.

## 1. The system

| Part | State | Operations | Talks to |
|---|---|---|---|
| Task commands (`apps/api/src/tasks/commands`) | rows of `Task` in Postgres | create, report status, cancel, retry, delete, edit, append log | Postgres (await per statement), producer, event bus |
| Task vocabulary (`packages/shared/src`) | none | `canTransition`, `isTerminalStatus`, backoff, topology constants | imported by API and worker |
| Producer (`packages/rabbitmq/src/producer`) | the channel's write buffer | `publishTask`, `scheduleRetry`, `republish` | broker |
| Broker topology (`packages/rabbitmq/src/connection-manager.ts`) | exchanges, four priority queues, six retry tiers, the DLQ | route, deliver, ack, nack, expire | producer, consumers |
| Connection manager | connection, channel, `isShuttingDown` | connect, reconnect, close | broker |
| Consumer and worker loop (`packages/rabbitmq/src/consumer`, `apps/worker/src/consumers`) | unacknowledged deliveries, `inFlight` | subscribe, handle a message, ack, nack | broker, task runner |
| Task runner, API client (`apps/worker/src/executors`, `api-client`) | the job being run | report RUNNING, execute, report the outcome | task commands over HTTP, 10 s timeout |
| Worker registry (`apps/api/src/workers`) | rows of `Worker` | register, heartbeat, stale sweep (cron) | heartbeat service |
| API bootstrap (`apps/api/src/main.ts`, `queue`) | the connection manager and the clients built on it | build providers, init, listen, destroy | connection manager, producer |
| Authentication (`apps/api/src/auth`, `users`) | `User.refreshTokenHash`, role, `isActive` | register, login, refresh, logout, update a user | web client |
| Gateway and broadcaster (`apps/api/src/websocket`, `monitoring`) | rooms of each socket | connect, subscribe, emit events, broadcast metrics | event bus, sockets |
| Web client and session (`apps/web/services`, `store/auth.store.ts`) | tokens in memory and in localStorage, `isRefreshing`, the waiting requests | attach a token, refresh and resend, sign in, sign out | REST API, other tabs |
| Live dashboard (`apps/web/hooks`, `app`, `store/socket.store.ts`) | query cache, socket, metrics | fetch, poll, invalidate, send commands, navigate | REST API, gateway |

What is hard here: every handler reads a row, awaits, and then updates it by
id, so handlers race; the row and the message are two writes with no
transaction; a worker's report can time out and still be carried out; the broker
redelivers what a lost worker held; retries travel through queues that forget
them; in the browser a page is kept current by three mechanisms at once, each
racing with the requests of the others, and tabs share tokens but no lock.
`PROJECT.json` lists each hazard at its line.

What makes each part correct:

* commands: the transition table is respected, a key names one task, a finished
  task is dated, a deleted one stays deleted, only exhausted tasks are
  dead-lettered;
* broker, workers: a job is in one place, is not lost, is run again only after a
  failure, and is done with only when the row says what became of its task;
* registry: a worker that keeps reporting is not shown OFFLINE, one that stopped is;
* sessions: a token that was rotated out is worth nothing, nothing but a login brings a
  session back that was ended, an installation has an ADMIN, a waiting request has a
  refresh that will wake it;
* dashboard: what is on screen catches up with the rows, by events, by polling, or
  by the answer to the tab's own command;
* bootstrap: a connected API publishes.

## 2. Modules

| Module | Models |
|---|---|
| `TaskStatusRules` | the statuses, the transition table, `canTransition`, `isTerminalStatus` |
| `TaskCommands` | every command handler that changes a task or publishes a job, split at its awaits |
| `Broker` | exchanges, bindings, priority queues, retry tiers, DLQ, deliveries per consumer |
| `WorkerProcess` | a worker's life and the job of each of its lanes |
| `Pipeline` | the three together: API, broker, workers, faults, operators |
| `WorkContract` | what the pipeline promises of a task's job, without queues, processes or messages |
| `WorkerRegistry` | registrations, heartbeats and the stale sweep, against a clock |
| `ConnectionManager` | `connect()`, close events, reconnects, `close()`, and the worker that calls them |
| `ApiBoot` | the order in which the API builds its providers, connects and listens |
| `AuthSession` | the handlers that change a user's row, split at their awaits |
| `WebSession` | browser tabs with their calls, token refresh and sign-in, composed with `AuthSession` |
| `LiveDashboard` | one tab's query cache, socket and metrics, the gateway and the broadcaster |
| `MCTaskCommands`, `MCBroker`, `MCPipeline`, `MCWorkerRegistry`, `MCConnectionManager`, `MCAuthSession`, `MCWebSession` | TLC instances, and statements of the repository the code does not keep |
| `TaskCommandsProofs`, `BrokerProofs`, `PipelineProofs`, `WorkerRegistryProofs`, `ConnectionManagerProofs`, `AuthSessionProofs`, `WebSessionProofs`, `LiveDashboardProofs` | theorems about the module each is named for |

### TaskCommands

`task` is the table, by id; `ABSENT` is an id Postgres has not generated,
`DELETED` a row that is gone.  A row keeps the columns some handler decides on:
`status`, `retryCount`, `maxRetries`, `priority`, `idempotencyKey`, and whether
`completedAt` is set.  Names, payloads, results, error texts and the other dates
are left out, and so are the events sent to the dashboard.

`req[s]` is one request being served: `pc` says which statement its handler is
waiting for, the other fields what it has read or was given.  A handler's first
statement comes with the arrival of the request, since nothing is touched before
it.  Requests refused by a guard change nothing and are not steps.  A PATCH that
leaves fields out is the case where the new value equals the old one.

`outbox` is the write buffer of the API's AMQP channel.  `channel.publish`
returns false when that buffer is full, having buffered the message all the
same; the producer then throws (`PublishOutcome = "full"`).  Without an open
channel nothing is buffered (`"refused"`).  The socket drains the buffer
(`Flush`), and a crash or a dropped connection loses it.

A failed statement ends the handler with what was committed before it
(`DbError`); a statement that succeeded but whose answer was lost is the next
statement's `DbError`.  `ApiCrash` ends all handlers.

Reports come from workers; in this module any reportable status may arrive for
any task at any time, which includes late and duplicate reports.  `Pipeline`
narrows that to what the workers send.

### Broker

`queue` holds the four priority queues, the six retry tiers and the DLQ.
`Routed` sends a message to the queues `Bindings` gives its exchange and key.
`tier` 0 is a job for the TASKS exchange, `tier` n a retry for `retry.attempt.n`.
`Expire` dead-letters the head of a tier to TASKS under the key it was
published with, because `assertTopology` sets no `x-dead-letter-routing-key`.

`subscribe` opens one consumer per priority queue on one channel, and prefetch
counts per consumer, so `<<worker, priority, 1..Prefetch>>` are the places for an
unacknowledged delivery (`held`).  `Disconnect` is the end of a connection: what
it held goes back to the head of its queue, in any order.  `unsent` feeds this
module when it runs alone, and `Reject` is for the messages that cannot be parsed.
`ExpiredRetriesReturn` is what the comment over the retry queues says of them.

### WorkerProcess

`proc[w]` is `down`, `consuming`, `deaf` (reconnected, on a channel without
consumers: `subscribe` is called once, by `bootstrap`) or `closing` (in the signal
handler).  `job[l]` is the run of one delivery: report RUNNING, execute, report
the outcome, acknowledge.  A report is `sending` until a handler of the API
starts on it and `waiting` until its answer, an error or the 10 s timeout;
`ApiClient` swallows all three differences.  `SettleClosed` is the end of a job
whose channel is closed: `ack` throws, the `nack` of the loop's catch throws, the
`nack` of the consumer's catch throws in a promise nobody awaits, and Node ends
the process.

Workers accept every task type (`WORKER_QUEUES` defaults to `*`), so the branch
that nacks a type with requeue is left out; `Runnable` are the tasks whose type
has an executor.

### Pipeline

`ApiStep` is any step of a handler that is at work, `ToBroker` drains the write
buffer into `Publish`, `TakeJob` joins `Deliver` with the job's start,
`ReportArrives` joins the worker's call with the handler's read, `Resume` is
what a job does when its report is over (the last report settles with `Ack`).
`caller[s]` is the lane waiting for slot `s`, forgotten when its process ends.

Nothing keeps the handlers of a task apart: a report, an operator's request or a late
report may come while a create, another report or a cancel is at work on the same
row, as the API serves requests as they come.  A worker gives up on a report after
10 s, whether its handler is still at work (`ReportTimesOut`) or the API has yet
to read the row (`ReportOverdue`).  In the second case, and when the worker's process
ends, the request is not gone: it is kept in `late`, and `LateReportArrives` lets the
API carry it out at any later time, beside or after the next reports of the job.

Everything that goes wrong, and everything operators do after a create, is drawn
from `Disturbance` and takes one unit of `budget`:

| Kind | What |
|---|---|
| `workerCrash`, `workerDrop`, `shutdown` | a worker dies, loses its connection, gets SIGTERM |
| `apiCrash`, `apiDrop`, `db`, `publish` | the API dies, loses its connection with what is buffered, a statement fails, a publish fails or is reported failed |
| `timeout`, `unreachable` | the worker gives up on an answer, or cannot reach the API |
| `cancel`, `retry`, `delete`, `update` | the operator's requests |

An acknowledgement that is lost is a `workerDrop` or `workerCrash` just before it.

`marks[t]` is a history variable that no action reads.  It keeps which of four
things have happened to a task that each alone can break a promise about it:

| Mark | Set when |
|---|---|
| `overlap` | a handler read the row while another was at work on the task |
| `unheard` | a report was given up, or could not be sent, before the API had read the row for it |
| `broken` | a handler failed or died, or took a message for refused that may be buffered |
| `retry` | an operator asked for a retry |

Each property names the marks that excuse a task, so that what it says of all other
tasks is said with every fault, operator action and overlap possible around them.

### WorkContract

Per task: where its job is (`work`), the lane that has it (`holder`), and what is known
of the task (`result`).  Once a queue has the job it is leased to one lane at a time; it
comes back only when the connection of that lane's worker ends, together with all else
that connection held; its holder settles it, once, and not before the result is known.
The exceptions are part of the contract: a job may be lost before a queue has it, the
result of an excused task need not be known, and of the jobs of a task that an operator
retries nothing more is said.  `Pipeline!Contract` maps the broker's deliveries to
`holder`, its queues and deliveries to `work`, the row and the handler about to write
it to `result`, and the marks to the excuses.

### WorkerRegistry

`row[n]` is the row of the name n: its status and the age of `lastHeartbeatAt`.
Processes register under `NameOf`, which need not tell them apart: the replicas of
`docker-compose.yml` share one name and so one row.  `proc[p]` is a worker process,
`timer[p]` the ticks until its next heartbeat, `beats` the heartbeats on their way or
waiting for their update (`from` is the process, `stamp` the age of the `new Date()`
the update was built with), `sweep` the sweep between its `findMany` and its
`updateMany`.  Whether tasks were active shows when a heartbeat is recorded.  Dates
become ages so that the state space is finite; past `Oldest` all ages are alike, since
every comparison is with the timeout.  `Tick` is the clock: it waits for a heartbeat or
a sweep that is due and for a call that has taken `Latency` ticks.

`off[p]` is a history variable: for how many ticks the registry has shown a
sending worker OFFLINE, or a name whose processes are all gone not.  `lost` and
`skipped` count failed heartbeats and sweeps, at most `Losses` of each.

Idealised: a registration takes effect in one step while the process waits for
it; the API itself is up (an API that is down is a run of failed heartbeats and
sweeps); two heartbeats alike in every field are one.  Left out: metrics rows,
events (the dashboard reads the rows again), task counts.

### ConnectionManager

`call[c]` says at which await a call of `connect()` is; the connection it opens
has the same identifier, `link[c]` says whether it is open and `handlers[c]` how
many close handlers it has.  `connection`, `channel` are the manager's fields,
`timers` the reconnects that are scheduled, `consumer` the call whose channel the
worker subscribed on.  `process` is the worker: `retryWithBackoff`, `subscribe`,
then `up` until SIGTERM, whose two awaits in `close()` are two steps.

Calls overlap: a `connect()` that fails schedules a reconnect and throws, and at
start its caller tries again too.  A call then assigns fields that another reads
after its own await, and attaches its handlers to `this.connection`, whosever
that is.  `crossed` is a history variable: two such strands have been under way
at once.  An identifier is reused when no call, connection or field holds it.

Idealised: the delays of the timers (any order is possible), the declarations of
the topology as one await.  A connection that is lost without a listener for its
`error` event may end the process, or not: it depends on how it is lost.  Left
out: a broker that refuses a declaration and closes the channel alone.

### ApiBoot

`stage` follows `bootstrap()`: `NestFactory.create` calls the provider factories
(`BuildProviders`), `app.listen` runs `onModuleInit` and then opens the port.
`captured[c]` is what a client of the queue module was constructed with: the value
of `svc.manager` at that moment, which no later assignment changes.  `manager` is
the field and, when it is set, its connection.  `TaskCommands` models the producer
the code means to have, with a channel that comes and goes; this module is about
the one it builds.

### AuthSession

`account[u]` is the row of an address: role, `isActive`, and whether a
`refreshTokenHash` is stored.  `auth[r]` is a request being served, as in
`TaskCommands`: the await it is at and what it remembers of the rows it read.  Of a
refresh token it matters whose it is and whether a newer one has been stored since
(`turn`).  `Leading` is the part of it that bcrypt reads: 72 bytes, which end inside
the payload before `jti`, so that all refresh tokens of a user have one hash.  A
handler whose statement fails, or whose process restarts, is `HandlerDies`; an
answer that is lost is the client's matter.  Requests refused before any write are
not steps.  `seen` and `by` are history variables of a handler.  `MCAuthSession` counts
the tokens stored for a user, to say which of them have been rotated out.

### WebSession

Extends `AuthSession`: `<<t, "form">>` and `<<t, "refresh">>` are the handlers that
serve tab t's sign-in form and its token refresh.  `store[t]` are the tokens in the
tab's memory, `writer` the tab that wrote localStorage last.  `call[t][c]` is one
call of `apiClient`: sent, refused (a 401 that is being handled), waiting on the
list, refreshing (it posted the refresh), or forgotten (dropped from the list, its
promise unsettled).  `again` is `_retry`.  `refreshing[t]` is the shared refresh,
with the call that leads it, on its way, at its handler, answered or failed.
`OnRefused` is the response interceptor up to its `await`, `RefreshSucceeds` and
`RefreshFails` are the two continuations.  Other clients reach an account by
`LoggedOutElsewhere`; updates by an ADMIN are left to `AuthSession`, so no account
here becomes inactive.  All accounts start as `AuthInit` has them: a tab signs in by its
form (`FormTab`) or finds in localStorage what another tab left there.  A reload keeps the handlers of the API going and forgets
everything of the tab but localStorage.

### LiveDashboard

What a query returns is a version number: the code never looks into the data to
keep it current.  `world[q]` is the version the API would answer with now;
`cache[q]` is react-query's entry: its data, the fetch under way and whether the API
has answered it already, with which version, `isInvalidated`, `isError`.  `sock` is
the life of the socket, `rooms` what the gateway has joined it to, `wire` the
messages on their way to the tab in order, `up` the subscriptions on their way to
the API, `due` the events of committed changes that are still to be published,
`samples` the metrics a broadcast has read and not yet emitted, `latest` the metrics
store.  A change is committed with an event to come (`Committed`) or without one
(`CommittedInSilence`): a retry's row is QUEUED before its message is published, a
heartbeat's row is updated before its metrics are stored, and when the second step
throws, the event that would come after it does not.  `Coming(q, v)` says that version
v of q, or a later one, is on its way to the tab: an event is to be published or under
way, or a fetch that will bring it.  `Invalidated` says what react-query does with an
event: a query on screen is fetched again and the fetch under way is given up, except
the very first one, which is joined.  `Turn` is navigation: pages mount and unmount
queries, and data older than `staleTime` (nondeterministic) is fetched again.
`mutation` is the command a button has sent: carried out and answered, carried out and
its answer lost, or failed after its commit.  `faults` counts failed requests, lost
connections, lost sessions and restarts.  Signing in and out may happen at any time;
`WebSession` says when.

## 3. Runs

| Run | Instance | Shows |
|---|---|---|
| `command_races` | 2 tasks, 2 requests, 1 key, limit 1 | whatever leaves the table is a late unconditional update; finished tasks are dated; deleted tasks stay deleted; racing creates leave one task under a key |
| `pipeline_faults` | 1 task, 2 workers, 2 requests, limits 0, 1 and 3, any 2 of 13 kinds of disturbance, overlaps and late reports at any time | deliveries match jobs; a job leaves the broker by the acknowledgement of the subscribed worker that ran it, once the outcome is on record or about to be; a RUNNING task has a job, a runner or a handler; subscribed workers do not share a task; the table holds and dead letters are exhausted while handlers have not met; `WorkContract` is refined |
| `registry_clock` | 2 processes under one name, ticks of 10 s, 1 failed heartbeat, 1 failed sweep | a live worker reappears, a name without processes is found, a sweep marks stale rows |
| `connection_faults` | 4 calls, 2 attempts at start, 2 faults | the manager is never forsaken; its channel is current unless two reconnects cross; the connection comes back |
| `auth_sessions` | 2 accounts, 2 requests | a session that was ended is resumed by a login or a late refresh only; first registrations leave an ADMIN |
| `web_session` | 1 account, 2 tabs on one localStorage, 2 calls in one and 1 in the other | waiting calls have a refresh to wait for; a call settles unless its tab lost the session or its refresh is never answered |
| `live_dashboard` | 1 query, 1 metric, 3 versions, 2 changes, 1 fault | events alone, polling alone and the answers to its own commands each keep a page current; no step takes from a page a version it shows or has coming; metrics catch up |
| `pipeline_deaf` (violation) | 1 worker, 1 lost connection | an idle worker that reconnects never consumes again |
| `pipeline_overtaken` (violation) | 1 task, 2 workers, no disturbance | a worker's RUNNING report overtakes the update to QUEUED, and the task stays QUEUED for ever (`create-task.command.ts:88` against `docs/system-design.md:8`) |
| `broker_retries` (violation) | 1 worker, 2 retries | an expired retry is dropped (`connection-manager.ts:109` against its comment, `docs/system-design.md:104` and `queue.integration-spec.ts:122`) |
| `auth_rotation` (violation) | 1 account, 2 requests | a refresh token that was rotated out is accepted (`refresh-token.command.ts:42` against `docs/api.md:73` and `auth.e2e-spec.ts:170`) |
| `boot_producer` (violation) | 2 tasks, 2 starts | a connected API publishes nothing (`queue.module.ts:51` against `docs/architecture.md:62`) |

Bounds and why they are enough:

* `OutboxBound` messages in the write buffer, `CountBound`, the `retryCount` from
  which a row is no longer reported RETRYING: racing handlers can raise the
  count without limit, so the second is a bound and not a property.
* Two requests are enough for every race of the handlers: each reads once and
  writes once (the report twice), and no handler looks at another task except
  through the idempotency key, for which there are two tasks.  With limit 1
  a first RETRYING report publishes a retry and a later one dead-letters; the limits
  0 and 3 (the default) are in the pipeline's run, and the theorems cover all of them.
* One task in the pipeline: tasks share queues and workers but no data, and what
  sharing a queue can do to messages is `MessagesAreInOnePlace` of `BrokerProofs`, for
  any number of them.  Two workers with one lane per priority let a redelivered job run
  beside the first run; two requests let two handlers meet, and late reports take
  their turn with the others.
* The registry's ticks are the smallest that tell its times apart: heartbeats every
  10 s, timeout and sweep 30 s, a call up to 10 s (the time limit of the worker's client),
  that is 1, 3, 3 and 1.  A lost heartbeat or sweep adds the same again, so one is as good
  as ten.  Two processes are what it takes for one to write over the row of the other;
  names share nothing but the sweep, and the theorems cover any number of processes,
  names and losses.  Both time limits are reached, and fail if they are made one tick
  shorter.
* Four calls of `connect()` at a time: with two faults a due reconnect never lacks
  one for good.  Two faults make two reconnects cross in every order; the
  theorems are for any number.
* Two requests in `auth_sessions` make every pair of handlers race on one row, and
  two accounts make the first registrations race; handlers on different rows meet
  only in the count of users and in the ADMIN's guard.  The theorems cover any number.
* Two tabs are needed for what tabs share, localStorage and the account's row: both have
  calls and refresh, at once and with each other's tokens rotated away.  Two calls in
  one tab are the least that make one wait for the other's refresh; a third would wait
  like the second, and the second tab has one call to lead its own.  One tab has the
  form: the other finds the session stored, or reloads into what the first left.
* In `live_dashboard` two changes come after the page was loaded, so that one is committed
  during the fetch for the other, shares its event, or has none.  The dashboard page
  shows the list and the header; signing out and in again unmounts and mounts it as any
  navigation does.  One fault at a time: a lost connection or session, an API restart or
  a failed request.  Workers' events are handled as the tasks' are, and queue metrics as
  system metrics.
* `Budget`: a pair of disturbances for every pair of kinds, on top of overlaps and late
  reports, which are free; the theorems are for any number.

Deadlock is not checked where the system may rest: the pipeline with all its
tasks finished and its budget spent, the broker with every message settled, a
worker that has exited, an installation whose accounts are all inactive.

Fairness: `FairPipeline` asks that the system as a whole does not stop while it
can take a step that no fault or operator is needed for.  Node's event loop runs
every callback that is ready, RabbitMQ delivers to a consumer with room, expires
messages at their TTL, and Docker restarts a worker that exited
(`restart: unless-stopped`).  One weak-fairness condition on the union suffices for
what it is used for, the two runs in which the system comes to rest in the wrong
place.  It assumes nothing about faults or clients.  `FairManager` asks the same
of the connection manager: timers fire, dials and declarations are answered.
`FairWeb` asks that a call ends, by axios's 15 s if by nothing else, and that an interceptor
which has its answer goes on.  The refresh is a plain `axios.post` without a time limit, so
nothing is asked of its answer: `CallsSettleUnlessSignedOut` says itself that it is about
the tabs of which no refresh stays unanswered for ever.  Users, other tabs and faults
are not relied on.  `FairLive`
asks that requests are answered, committed changes published, messages delivered in
order and broadcasts made; neither polling, nor a reconnection, nor the user is relied on,
and `PollingCatchesUp` states its condition (the interval keeps firing) itself.

## 4. Proofs

`TaskCommandsProofs` proves the properties of `TaskCommands` for any number of
tasks, requests, keys and limits.  The inductive invariant `IInv` is the type
invariant and `SlotSound`: a handler waiting at a statement holds the id of a
task and a snapshot from which the table allows the status it is about to write.
It is needed because no property of the rows is inductive without knowing what
the waiting handlers will write.  `StepEffect` then says what one step can do to
the table (insert one row, or update the row one handler remembers) and the
safety theorems follow from it.  With a single request the snapshot is also
current (`Fresh`), which gives `SerialHandlersObeyTheTable` and
`SerialDeadLettersAreExhausted`.

`PipelineProofs` is for any number of workers, priorities, lanes and
disturbances.  Its invariant `Agreement` strengthens `DeliveriesMatchJobs`: that
alone is not inductive, since a process could start with a job left over
(`DownIsIdle` excludes it), a report could name no task (`BusyHasJob`), and a
requeue could put a non-message into a queue (`QueueTypes`, with the lemmas on
each step of the broker).  From `Agreement`:

* `PipelineTypeCorrectness`: the whole state is well formed;
* `DeliveriesMatch`: deliveries and jobs agree;
* `PipelineRefinesCommands`: every behaviour of the pipeline is one of
  `TaskCommands`, each step a step of a handler or a stutter.
  `PipelineKeepsTheCommandsProperties` draws the consequence.

No theorem about the pipeline has a hypothesis on `Disturbance`, the limits or the
number of anything: a task is excused by its own marks only, and what happens to the
others does not matter.

As long as no two handlers have met on a task (`overlap`) at most one is at work on it, so
what it remembers of the row still holds (`HandlersInv`):

* `TableTheoremInTurn`: every change of its status is one the table lists;
* `DeadLettersExhaustedInTurn`: when it is DEAD_LETTERED it is past its own limit.

Handlers that meet do break both (section 5).

The rest of the module follows the jobs.  A task's job is with the handler about to
publish it, in the write buffer, in a priority queue or delivered to a lane
(`JobIn`); the lemmas on routes, queues and deliveries say what each step of the
broker does to each place, and `HandlerEffect` what a handler's step does.

* `OneSubscriber`, for tasks without the mark `retry`.  `JobsInv`: no job precedes its
  row, the retry tiers hold nothing that could run, and a task nobody retried has one
  job at most, in one place.  `OneSubscribedRunner` alone says nothing of the jobs that
  will be delivered next.
* `JobsStayUntilRun`, for all tasks.  `AtBroker` says that a task has a job queued or
  delivered.  One lemma for each step of the broker shows that it keeps it (a delivery
  moves it, a lost connection requeues it), but for the acknowledgement; and only the
  end of a report acknowledges (`OneWayOut`), by the agreement of deliveries and jobs
  the worker's own delivery.
* `NoOutcomeIsLost`, for tasks without marks.  `OneWayOut` names the lane whose job
  leaves, and `LaneInv` says what a lane knows at each point of its run: past its
  report of RUNNING the task has begun, and once the report of an outcome was
  answered or given up on, a handler is at work on it or has written it.  `MovesOn`
  is why it stays so: unmarked handlers take nothing back.
* `JobsAreNotLost`, for tasks without marks.  `KeptJobs`: a task that has started, or
  of which a RUNNING report may still come late, has its job at the broker, or a handler
  about to write its outcome, or is over for good (`JobKept`).
* `PipelineKeepsContract`, for all tasks: every step of the pipeline is a step of the
  contract or a stutter (`EveryStepKeeps`).  A job that reaches its queue is `Offer`,
  `TakeJob` `Lease`, the acknowledgement `Settle`, the end of a connection `Revoke`, a
  report that is read or written `Conclude`, a manual retry `Reissue`, and a failure that
  loses jobs on their way or marks tasks `Mishap`.  `Whole` joins the invariants above.

The four marks are what the code needs.  With TLC, leaving any one of them out of
`RunningTasksHaveAJob` or `OutcomesAreRecorded` gives a counterexample in `pipeline_faults`
(`retry` in the first with a third disturbance); section 5 has the behaviours.

Assumed: `TaskCommandsAssumption` (limits and bounds are naturals, the null
values are not keys or tasks, there is a priority) and `PipelineAssumption` (the
budget is a natural, the prefetch a positive one, the null lane is no lane, the
null message no message).

`WorkerRegistryProofs` is for any number of processes and names and any periods.
Its first invariant says that a stamp is not older than its call, that nothing
is counted while nothing is wrong, and that a sweep under way is followed by its
successor after the rest of the period and holds rows that were stale or have
been refreshed since (`SweepSound`): hence `SweepsMarkStaleRows`.  The two time
limits need an account of where the time goes:

* `LiveWorkersAreShown`: while a live worker is shown OFFLINE, the ticks counted
  and those left to its next heartbeat stay within the allowance for lost
  heartbeats, or a heartbeat sent in time is under way (`LiveSound`).  It needs
  `Latency <= Interval`: a heartbeat is recorded by the time the next one is due.
* `GoneWorkersAreMarked`: the ticks counted for a name without processes are bounded by
  the wait of the last heartbeats under it, then by the age of its row, and past the
  timeout by the sweep that has the row in hand or the time left to the next
  (`GoneSound`).  It takes names as they are, shared or not.

Assumed: `RegistryAssumption` (periods and interval are positive, a call takes no
longer than the timeout).

`ConnectionManagerProofs` is for any number of calls, attempts and faults.
`NeverForsaken` is almost inductive: it also takes that the worker waits only for
a call that is under way (`WaitsForItsCall`), so that a failed call finds a process
that is not closing and its reconnect is scheduled.  The heart of the proof is
`Drop`: a lost connection either has a handler, or belongs to a call still waiting
on it, or is not the manager's.

`ChannelStaysCurrent` is about the strands of the manager: a reconnect that is due, a
call under way or its open connection, a caller about to try again.  While none
have crossed there is one at most (`OneStrand`), so the call under way is the only
one that assigns `connection` and `channel`, and its own connection is the one that
gets the handlers (`CallSound`); hence the fields are those of one connection
(`FieldsCurrent`).  A crossing breaks all of this for good, which is why the property is
conditional: section 5 has the behaviour.  Assumed: `ConnectionAssumption` (the worker tries
at least once, the null value is no call).

`BrokerProofs` is for any messages, workers, priorities and prefetch.  Its invariant
`BrokerInv` is the type invariant and `OnePlace` itself, which is inductive once it is
known what each step does to the contents of all queues: a message has one route at
most (`OneRoute`), and appending one that is in no queue (`AddOne`), taking a head
(`TakeHead`) and returning a connection's deliveries in any order (`PutBack`) keep
the queues' contents distinct.  `TiersHoldRetries`, that a retry queue holds messages
published for a tier only, is needed beside it for `AckedOrExpiredLeave`: what an
expiry drops is a retry.  The theorems have `BrokerAssumption` as a hypothesis (the
prefetch is positive, the null value no message, a message has a priority and a tier).
No run checks them: the runs of the pipeline use the same definitions.

`AuthSessionProofs` is for any number of accounts and requests.  Its invariant `AuthInv`
adds to the types that an address without an account has an empty row (`RowSound`)
and what a waiting handler has made sure of (`HandlerSound`): its user exists, a
refresh about to issue tokens has seen a session, and a registration about to be
stored takes ADMIN or is not the first.  That no handler is ever at "revoke" is part
of it: the comparison it would have to fail reads 72 bytes which all refresh tokens of
a user share (section 5).  Assumed: `AuthAssumption` (the null value is no user).

`WebSessionProofs` is for any number of tabs, calls and accounts.  Its invariant is
`AuthInv`, which the tabs' requests keep because they are requests of `AuthSession`, the
types of the tabs, and `Leaders`: the refresh of a tab and its refreshing call
belong together one for one, and a waiting call has a refresh.  `WaitingHaveALeader`
alone is not inductive, since a second leader would end the refresh of the first.
`TabsResumeNothingElse` carries `OnlyALateRefreshResumes` over to the composition.
`StepResumes` of `AuthSessionProofs` is the step both theorems rest on.

`LiveDashboardProofs` is for any queries, metrics, pages, versions and faults.  Its
invariant `Parts` adds to the types that rooms, messages and subscriptions exist on a
ready socket only (`Connection`), without which a message could outlive its socket,
and `Sound`, that an entry has an answer exactly while its fetch is answered: hence
`LiveTypeCorrectness`.  `Ordered` says that answers do not go back: an answer lies
between the data it replaces and what the API holds.  It needs to know what any step
may do to an entry (`Moves`).  `UpdatesStayComing` takes both, for each version: a page
that has it keeps it, since answers do not go back; a page that has it coming keeps the
event, or takes it and fetches, or keeps the fetch, unless the fetch fails.  A change
without an event, or one that shares the event of another, takes nothing away.  The
event that is taken must not join a fetch the API has answered before the change:
react-query cancels that one, except the very first, which is why the property asks for
data.  Assumed: `LiveAssumption`.

Model-checked only: every safety property of a passing run is the statement of a
theorem above.  `ConnectionReturns`, `CallsSettleUnlessSignedOut`, `PushSuffices`,
`PollingCatchesUp`, `OwnCommandsShow` and `MetricsKeepUp` are liveness under fairness,
which is out of the prover's reach and stays with TLC.

## 5. Where the code and its documents part

The violation runs show the five disagreements listed as findings:

* after a reconnect the worker consumes nothing (`pipeline_deaf`);
* the producer is built without a connection manager (`boot_producer`);
* a worker's RUNNING report can overtake the update to QUEUED
  (`create-task.command.ts:77` and 88): it is refused, so is the outcome, the job is
  acknowledged, and the task ends QUEUED without a job, where `docs/system-design.md:8`
  promises that an accepted task is never silently lost (`pipeline_overtaken`);
* the retry queues name no dead-letter routing key (`connection-manager.ts:109`), so an
  expired retry keeps `retry.attempt.N`, which nothing on the TASKS exchange is bound
  to, and is dropped.  The comment at lines 101-103, `docs/system-design.md:104` and
  `queue.integration-spec.ts:122` have it redelivered (`broker_retries`);
* bcrypt reads 72 bytes, which the refresh tokens of one user share, so a rotated
  token is still accepted; `docs/api.md:73`, `docs/system-design.md:161`,
  `README.md:23` and the test at `apps/api/test/e2e/auth.e2e-spec.ts:158` expect a 401
  and a revoked hash (`auth_rotation`).

Others, seen in the models or the source and without a run of their own:

Jobs and workers:

* `packages/shared/src/types/enums.ts:52` says that the table is enforced so that
  handlers "never let a task jump into an invalid state".  Two handlers that read a
  row before either writes do: COMPLETED becomes CANCELLED, CANCELLED becomes
  QUEUED.  `OnlyStaleWritesBreakTheTable` says that nothing else does.
* `apps/worker/src/main.ts:22` leaves reconnects to the connection manager.  After a
  failed first `connect()` its reconnect and the worker's retry can cross: the
  second connection is assigned, then both channels are, the older one last, and
  both handlers go to the second connection.  When the first is lost nothing
  notices, and the manager keeps a dead channel for good
  (`NeverForsaken` holds throughout: the connection is open).  Crossed reconnects
  also part the channel of the consumer from the one its acks go to
  (`task.consumer.ts:45`).  `ChannelIsCurrent` fails at both without its `~crossed`.
* `scheduleRetry` overwrites the attempt number its caller computed with
  `retryCount` (`task.producer.ts:47`), so the first retry carries attempt 1 as
  the original job did; `docs/architecture.md:149` says "attempt+1".
* A job whose outcome could not be reported is acknowledged, because
  `updateTaskStatus` catches every error (`api-client.ts:60`);
  `docs/system-design.md:158` says it lands in the DLQ.  The row stays as it was: the
  mark `unheard` of the models.
* A report the worker gave up on (`api-client.ts:10`) may be carried out later, beside the
  next one of the job or after it: a RUNNING report that comes when the outcome was
  refused leaves the task RUNNING for ever, without a job.
* Two RETRYING reports that meet, or a manual retry in between, count one attempt
  instead of two (`update-task-status.command.ts:109`): the task is then retried more
  often than its limit, or dead-lettered late.
* SIGTERM closes the connection and exits without waiting for the jobs under way
  (`main.ts:52`); `docs/deployment.md:71` says the handlers drain in-flight work.
* A heartbeat that revives a row marked OFFLINE leaves its `stoppedAt`
  (`record-heartbeat.command.ts:33-40`); only a registration clears it.
* RETRYING to DEAD_LETTERED is in no entry of the transition table, and
  `update-task-status.command.ts:129` makes that change; the models treat it as
  the code does.
* A repeated idempotency key whose creates race is answered 409 (the unique index
  decides, `create-task.command.ts:49`), where `docs/system-design.md:160` speaks of
  the existing task.
* The retry guard (`retry-task.command.ts:32`) lets PENDING and RETRYING tasks
  pass; its message at line 34 names the failed ones only.
* A task left QUEUED or RUNNING without a job can be cancelled but not retried.
* An exhausted job is reported FAILED and acknowledged (`task-runner.ts:74`), so
  the DLQ of `queue.constants.ts:16-17` gets none; the API's dead-letter branch needs
  an operator who lowers `maxRetries` while a job is out.
* Prefetch holds per consumer and there are four (`task.consumer.ts:26`), so a
  worker takes four times its concurrency (`worker-consumer-loop.ts:9`).
* `nextRetryAt` is computed with a cap of 5 minutes (`queue.constants.ts:61`) while the
  tiers stop at 64 s.
* `docker-compose.yml:104` starts two replicas under the one WORKER_NAME of
  `.env.example:37`.  They share a row, and the heartbeats of one hide the death of the
  other, which `docs/system-design.md:159` says is marked OFFLINE.  `GoneWorkersAreFound`
  is about a name of which no process is left; of a single replica nothing of the
  kind holds, since nothing in the row tells the two apart.
* `QueueInspector` is built with the same undefined manager as the producer: queue
  metrics are never broadcast, and GET `/monitoring/queues` fails.

Sessions:

* A refresh that read the row before a logout stores its hash after it
  (`auth.service.ts:57`) and so resumes the session.
* When the refresh fails, the requests waiting for it are neither sent again nor
  rejected (`api-client.ts:58`); the comment at lines 38-39 says "until the in-flight
  refresh resolves".  Any failure of it, a lost connection too, signs the tab out.
* The refresh is a plain `axios.post` without a timeout.  Until it is answered every call
  that is refused waits; its answer may come after a
  sign-out, and `setTokens` resumes the session; a 401 that comes late is retried with
  whatever tokens are stored by then, another user's included.
* Signing out never calls `/auth/logout`, and keeps the query cache and the socket store.
  A session lost at a 401 leaves the socket open.  A wrong password is a 401 without
  a refresh token: it clears the tokens other tabs share through localStorage.

Dashboard:

* `README.md:42` says "no polling required".  Events between a connection and the
  arrival of its subscriptions are lost, and nothing fetches again on connect;
  the interval is what catches up.  The worker count is in any case not renewed by
  events: `['workers']` does not match its key (`use-workers.ts:51`).  Nor does an event
  renew a query whose first fetch is under way, which react-query joins.
* Once the API refuses the socket with its expired token, `liveMetrics ?? polledMetrics`
  (`app/(app)/monitoring/page.tsx:31`) shows the last snapshot for ever, although polling goes
  on: `README.md:51` has all pages live-updating, `docs/deployment.md:107` speaks of no
  redirect only.
* A change is committed before the step that may keep its event from being published
  (`retry-task.command.ts:63`, `record-heartbeat.command.ts:44`): pages learn of it by the
  next event or the interval only.
* Every header that mounts and every renewed token adds all listeners to the one
  socket again (`use-socket.ts:34`), and none is removed.

## 6. Not modelled, and the plan

`PROJECT.json` lists every component.  Left out for good: what queries return beyond a
version, rendering, guards and configuration (stateless; their effect is an error
answer), what an executor computes, `append-task-log` (it adds a row nothing reads
back to decide anything), the `TaskSchedule` table (no code uses it), and the dates
a row displays.  A broker that closes a channel and keeps the connection is left out too.

The modules of the plan are written, and every safety property the passing runs check
is the statement of a theorem.  What could be added:

| Property | What it takes |
|---|---|
| jobs of a task that operators retry | an invariant weaker than one job at a time: how many jobs a task has, by its manual retries |
| every accepted task finishes | the code first: the update to QUEUED has to precede the publish, an expired retry to reach a queue, a lost report to be repeated |
| liveness, proved | a prover with fairness and ENABLED; the safety halves (`WaitingHaveALeader`, `NeverForsaken`, `RunningTasksHaveAJob`, `UpdatesAreNotForgotten`) are what such proofs would start from |
