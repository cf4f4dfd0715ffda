-------------------------- MODULE ConnectionManager --------------------------
(***************************************************************************)
(* RabbitMQConnectionManager in a worker process                           *)
(* (packages/rabbitmq/src/connection-manager.ts, apps/worker/src/main.ts): *)
(* calls of connect() and the connections they open, the reconnects that   *)
(* failures and close events schedule, and the process that calls connect, *)
(* subscribes once and closes.                                             *)
(*                                                                         *)
(* A call of connect() and the connection it opens have one identifier.    *)
(* Calls overlap: `connection` and `channel` are fields of the manager, so *)
(* that a call may go on with what another one has assigned.               *)
(***************************************************************************)
EXTENDS Naturals, FiniteSets

CONSTANTS
  Call,     \* calls of connect(), numbered; reused when nothing holds on to them
  None,
  Attempts, \* how often the caller of connect tries
  Faults    \* failed dials and lost connections

ASSUME ConnectionAssumption ==
  Call \subseteq Nat /\ None \notin Call /\ Attempts \in Nat \ {0} /\ Faults \in Nat

VARIABLES
  process,    \* what the process is doing
  tries,      \* how often it has called connect
  awaited,    \* the call it waits for
  call,       \* where each call is
  link,       \* the connection of each call
  handlers,   \* its close handlers
  connection, \* this.connection and this.channel
  channel,
  consumer,   \* the call whose channel the process consumes from
  timers,     \* reconnects that are scheduled
  faults,
  crossed     \* two reconnects have been under way at once

managerVars == <<process, tries, awaited, call, link, handlers, connection, channel, consumer,
                 timers, faults, crossed>>

Process == {"starting", "calling", "pausing", "subscribing", "up", "closingChannel",
            "closingConnection", "exited"}
isShuttingDown == process \in {"closingChannel", "closingConnection", "exited"}

Pending(c) == call[c] \in {"dialing", "opening", "declaring"}
Open(c) == c # None /\ link[c] = "open"
Unused(c) == ~Pending(c) /\ ~Open(c) /\ c \notin {connection, channel, consumer}

\* What may yet give the manager a connection, or has given it one.
Strands ==
  timers + Cardinality({c \in Call : Pending(c) \/ Open(c)}) + (IF process = "pausing" THEN 1 ELSE 0)
Watch == crossed' = (crossed \/ Strands' > 1)

ManagerInit ==
  /\ process = "starting" /\ tries = 0 /\ awaited = None
  /\ call = [c \in Call |-> "over"] /\ link = [c \in Call |-> "closed"]
  /\ handlers = [c \in Call |-> 0]
  /\ connection = None /\ channel = None /\ consumer = None
  /\ timers = 0 /\ faults = 0 /\ crossed = FALSE

\* process.exit: the connections go with the process.
Exit ==
  /\ process' = "exited" /\ awaited' = None
  /\ call' = [c \in Call |-> "over"] /\ link' = [c \in Call |-> "closed"]
  /\ handlers' = [c \in Call |-> 0]
  /\ connection' = None /\ channel' = None /\ consumer' = None /\ timers' = 0
  /\ UNCHANGED <<tries, faults, crossed>>

\* mutant: a process that has started gives up its connection
Scheduled_OnceOnly(n) == timers' = IF isShuttingDown \/ process = "up" THEN timers ELSE timers + n
Scheduled(n) == timers' = IF isShuttingDown THEN timers ELSE timers + n
-----------------------------------------------------------------------------
(* connect()                                                                *)

Begin(c) ==
  /\ Unused(c) /\ \A d \in Call : Unused(d) => c <= d
  /\ call' = [call EXCEPT ![c] = "dialing"]
  /\ UNCHANGED <<link, handlers, connection, channel, consumer, faults>>

\* retryWithBackoff calls connect, for the first time or again.
ProcessConnects(c) ==
  /\ process \in {"starting", "pausing"} /\ Begin(c)
  /\ process' = "calling" /\ tries' = tries + 1 /\ awaited' = c
  /\ UNCHANGED timers /\ Watch

\* A reconnect is due.  It does not look at isShuttingDown.
TimerFires(c) ==
  /\ timers > 0 /\ timers' = timers - 1 /\ Begin(c)
  /\ UNCHANGED <<process, tries, awaited>> /\ Watch

Dialed(c) ==
  /\ call[c] = "dialing" /\ call' = [call EXCEPT ![c] = "opening"]
  /\ link' = [link EXCEPT ![c] = "open"] /\ connection' = c
  /\ UNCHANGED <<process, tries, awaited, handlers, channel, consumer, timers, faults>> /\ Watch

\* The handlers are attached to this.connection, whichever that is by now; on one
\* that is closed already they will never run.
ChannelOpened(c) ==
  /\ call[c] = "opening" /\ call' = [call EXCEPT ![c] = "declaring"] /\ channel' = c
  /\ handlers' = IF Open(connection) THEN [handlers EXCEPT ![connection] = @ + 1] ELSE handlers
  /\ UNCHANGED <<process, tries, awaited, link, connection, consumer, timers, faults>> /\ Watch

\* The topology is asserted and connect() returns.
Declared(c) ==
  /\ call[c] = "declaring" /\ call' = [call EXCEPT ![c] = "over"]
  /\ IF awaited = c THEN process' = "subscribing" /\ awaited' = None ELSE UNCHANGED <<process, awaited>>
  /\ consumer' = IF awaited = c THEN channel ELSE consumer
  /\ UNCHANGED <<tries, link, handlers, connection, channel, timers, faults>> /\ Watch

\* connect() fails: it schedules a reconnect and throws.  Its caller tries
\* again as well, unless it has tried enough and ends the process.
CallerHears(c) ==
  IF awaited = c THEN process' = "pausing" /\ awaited' = None ELSE UNCHANGED <<process, awaited>>

\* mutant: one attempt too many
GivesUp_Late(c) == awaited = c /\ tries > Attempts
GivesUp(c) == awaited = c /\ tries = Attempts

DialFails(c) ==
  /\ call[c] = "dialing" /\ faults < Faults
  /\ \/ GivesUp(c) /\ Exit
     \/ /\ ~GivesUp(c) /\ CallerHears(c) /\ Scheduled(1)
        /\ call' = [call EXCEPT ![c] = "over"] /\ faults' = faults + 1
        /\ UNCHANGED <<tries, link, handlers, connection, channel, consumer>> /\ Watch

\* A connection is lost: every close handler schedules a reconnect, and so does
\* the call that was waiting for the broker on it.  A process that is
\* subscribing on its channel ends, and one may end that has not yet attached the
\* handlers: nothing listens for the error event that can come with the close.
\* mutant: close events are left to the call under way
Reconnects_WithoutHandlers(c) == IF Pending(c) THEN 1 ELSE 0
\* mutant: a failed call is left to its caller
Reconnects_HandlersOnly(c) == handlers[c]
Reconnects(c) == handlers[c] + IF Pending(c) THEN 1 ELSE 0

EndsProcess(c) == (Pending(c) /\ GivesUp(c)) \/ (process = "subscribing" /\ consumer = c)
Unheard(c) == handlers[c] = 0

Drop(c) ==
  /\ Open(c) /\ faults < Faults
  /\ \/ (EndsProcess(c) \/ Unheard(c)) /\ Exit
     \/ /\ ~EndsProcess(c) /\ CallerHears(c) /\ Scheduled(Reconnects(c))
        /\ call' = [call EXCEPT ![c] = "over"] /\ link' = [link EXCEPT ![c] = "closed"]
        /\ handlers' = [handlers EXCEPT ![c] = 0] /\ faults' = faults + 1
        /\ UNCHANGED <<tries, connection, channel, consumer>> /\ Watch
-----------------------------------------------------------------------------
(* The process                                                              *)

Subscribed ==
  /\ process = "subscribing" /\ process' = "up"
  /\ UNCHANGED <<tries, awaited, call, link, handlers, connection, channel, consumer, timers, faults>>
  /\ Watch

\* SIGTERM: close() closes the channel, then the connection of that moment, and
\* the process exits.  A call that waits on what is closed fails and schedules
\* nothing.
CloseChannel ==
  /\ process = "up" /\ process' = "closingChannel"
  /\ call' = [c \in Call |-> IF c = channel /\ call[c] = "declaring" THEN "over" ELSE call[c]]
  /\ UNCHANGED <<tries, awaited, link, handlers, connection, channel, consumer, timers, faults>>
  /\ Watch

CloseConnection ==
  /\ process = "closingChannel" /\ process' = "closingConnection"
  /\ call' = [c \in Call |-> IF c = connection /\ call[c] # "dialing" THEN "over" ELSE call[c]]
  /\ link' = [c \in Call |-> IF c = connection THEN "closed" ELSE link[c]]
  /\ handlers' = [c \in Call |-> IF c = connection THEN 0 ELSE handlers[c]]
  /\ UNCHANGED <<tries, awaited, connection, channel, consumer, timers, faults>> /\ Watch

ProcessExits == process = "closingConnection" /\ Exit
-----------------------------------------------------------------------------
Progress ==
  \/ \E c \in Call :
       ProcessConnects(c) \/ TimerFires(c) \/ Dialed(c) \/ ChannelOpened(c) \/ Declared(c)
  \/ Subscribed \/ CloseConnection \/ ProcessExits

ManagerNext == Progress \/ CloseChannel \/ \E c \in Call : DialFails(c) \/ Drop(c)

ManagerSpec == ManagerInit /\ [][ManagerNext]_managerVars
FairManager == ManagerSpec /\ WF_managerVars(Progress)

ManagerTypeOK ==
  /\ process \in Process /\ tries \in 0..Attempts /\ awaited \in Call \cup {None}
  /\ call \in [Call -> {"dialing", "opening", "declaring", "over"}]
  /\ link \in [Call -> {"open", "closed"}] /\ handlers \in [Call -> Nat]
  /\ {connection, channel, consumer} \subseteq Call \cup {None}
  /\ timers \in Nat /\ faults \in 0..Faults /\ crossed \in BOOLEAN
-----------------------------------------------------------------------------
(* Properties                                                               *)

Running == process # "starting" /\ ~isShuttingDown

\* Whatever fails, in whatever order calls overlap, the manager is never left to
\* itself: its connection is open and will be missed when it is lost, or another
\* call of connect() is to come that will replace it.
NeverForsaken ==
  Running =>
    \/ Open(connection) /\ (handlers[connection] > 0 \/ call[connection] = "opening")
    \/ timers > 0 \/ \E c \in Call : call[c] = "dialing"

\* A channel that is closed is about to be replaced, and the channel the worker
\* consumes from is the one it acknowledges on: the ack goes to whatever channel
\* the manager holds.  Both may be lost when two reconnects cross.
ChannelIsCurrent ==
  Running /\ ~crossed =>
    /\ channel # None /\ ~Open(channel) => timers > 0 \/ \E c \in Call : Pending(c)
    /\ Open(consumer) => channel = consumer

\* When faults end, the manager has a connection, or the process has stopped.
ConnectionReturns == []<>(isShuttingDown \/ Open(connection))
=============================================================================
