-------------------------------- MODULE Broker --------------------------------
(***************************************************************************)
(* RabbitMQ as this system sets it up (assertTopology in                   *)
(* packages/rabbitmq/src/connection-manager.ts) and consumes it            *)
(* (TaskConsumer.subscribe): exchanges, bindings, one durable queue per    *)
(* priority, six retry tiers with a TTL, the dead letter queue, and the    *)
(* deliveries each consumer has not settled yet.                           *)
(*                                                                         *)
(* A worker opens one consumer per priority queue, and the prefetch count  *)
(* holds per consumer: consumer <<w, p>> has lanes <<w, p, 1..Prefetch>>,  *)
(* each free or holding one unacknowledged delivery.                       *)
(***************************************************************************)
EXTENDS Naturals, Sequences, SequencesExt

CONSTANTS
  Priority,   \* task priorities
  Worker,     \* worker processes
  Prefetch,   \* unacknowledged deliveries per consumer
  Message,    \* what producers publish: records with a priority and a tier
  Nothing     \* a lane without a delivery

\* What is asked of the constants: the theorems of BrokerProofs suppose it.
BrokerAssumption ==
  /\ Prefetch \in Nat \ {0} /\ Nothing \notin Message
  /\ \A m \in Message : m.priority \in Priority /\ m.tier \in 0..6

VARIABLES
  unsent,     \* messages producers have still to publish
  queue,      \* the queues, head first
  held        \* the unsettled delivery of each lane

brokerVars == <<unsent, queue, held>>

Tier == 1..6
TaskQueue(p) == <<"queue", p>>
RetryQueue(n) == <<"retry", n>>
DeadLetterQueue == <<"dlq", 0>>
TaskQueues == {TaskQueue(p) : p \in Priority}
Queue == TaskQueues \cup {RetryQueue(n) : n \in Tier} \cup {DeadLetterQueue}

Lane == Worker \X Priority \X (1..Prefetch)
LanesOf(w) == {w} \X Priority \X (1..Prefetch)
Source(l) == TaskQueue(l[2])

\* tier 0 is a job for the TASKS exchange (publishTask), tier n a retry for the
\* RETRY exchange (scheduleRetry).
PublishedTo(m) == IF m.tier = 0 THEN "TASKS" ELSE "RETRY"
RoutingKey(m) == IF m.tier = 0 THEN <<"task", m.priority>> ELSE <<"retry.attempt", m.tier>>

Bindings ==
  {<<"TASKS", <<"task", p>>, TaskQueue(p)>> : p \in Priority} \cup
  {<<"RETRY", <<"retry.attempt", n>>, RetryQueue(n)>> : n \in Tier}

\* DLX is a fanout exchange with one queue; the others match the routing key.
\* A message no queue is bound for is dropped.
Route(exchange, key) ==
  IF exchange = "DLX" THEN {DeadLetterQueue}
                      ELSE {q \in Queue : <<exchange, key, q>> \in Bindings}

Routed(qs, exchange, m) ==
  [q \in Queue |-> IF q \in Route(exchange, RoutingKey(m)) THEN Append(qs[q], m) ELSE qs[q]]

BrokerInit ==
  /\ unsent = Message
  /\ queue = [q \in Queue |-> <<>>]
  /\ held = [l \in Lane |-> Nothing]

Publish(m) ==
  /\ queue' = Routed(queue, PublishedTo(m), m)
  /\ UNCHANGED held

Send(m) == m \in unsent /\ Publish(m) /\ unsent' = unsent \ {m}

\* The TTL of the oldest message of a tier runs out: it is dead-lettered to the
\* TASKS exchange under the routing key it was published with, since the queue
\* declares no dead-letter routing key.
Expire(n) ==
  LET q == RetryQueue(n)
  IN  /\ queue[q] # <<>>
      /\ queue' = Routed([queue EXCEPT ![q] = Tail(@)], "TASKS", Head(queue[q]))
      /\ UNCHANGED <<unsent, held>>

Deliver(l) ==
  /\ held[l] = Nothing /\ queue[Source(l)] # <<>>
  /\ held' = [held EXCEPT ![l] = Head(queue[Source(l)])]
  /\ queue' = [queue EXCEPT ![Source(l)] = Tail(@)]
  /\ UNCHANGED unsent

Ack(l) ==
  /\ held[l] # Nothing
  /\ held' = [held EXCEPT ![l] = Nothing]
  /\ UNCHANGED <<unsent, queue>>

\* nack without requeue: the priority queues dead-letter to DLX.
Reject(l) ==
  /\ held[l] # Nothing
  /\ held' = [held EXCEPT ![l] = Nothing]
  /\ queue' = Routed(queue, "DLX", held[l])
  /\ UNCHANGED unsent

\* The lanes of consumer <<w, p>> with an unsettled delivery.
\* mutant: the consumers take deliveries as acknowledged (noAck), so there is
\* nothing to return
Unsettled_NoAck(w, p) == {}
Unsettled(w, p) == {l \in {w} \X {p} \X (1..Prefetch) : held[l] # Nothing}

\* The orders in which the deliveries of a lost worker can be put back.
Orders(w) ==
  {f \in [Priority -> UNION {SetToSeqs(Unsettled(w, p)) : p \in Priority}] :
     \A p \in Priority : f[p] \in SetToSeqs(Unsettled(w, p))}

Released(w) == [l \in Lane |-> IF l \in LanesOf(w) THEN Nothing ELSE held[l]]

\* The connection of a worker ends, with its channel and its consumers: what
\* they had not settled goes back to the head of its queue.
Disconnect(w) ==
  /\ \E order \in Orders(w) :
       queue' = [q \in Queue |->
                   IF q \in TaskQueues
                     THEN [i \in DOMAIN order[q[2]] |-> held[order[q[2]][i]]] \o queue[q]
                     ELSE queue[q]]
  /\ held' = Released(w)
  /\ UNCHANGED unsent

BrokerNext ==
  \/ \E m \in Message : Send(m)
  \/ \E n \in Tier : Expire(n)
  \/ \E l \in Lane : Deliver(l) \/ Ack(l) \/ Reject(l)
  \/ \E w \in Worker : Disconnect(w)

BrokerSpec == BrokerInit /\ [][BrokerNext]_brokerVars

BrokerTypeOK ==
  /\ unsent \subseteq Message
  /\ queue \in [Queue -> Seq(Message)]
  /\ held \in [Lane -> Message \cup {Nothing}]
-----------------------------------------------------------------------------
(* Properties                                                               *)

Queued(m) == \E q \in Queue : \E i \in DOMAIN queue[q] : queue[q][i] = m
Waits(m, n) == \E i \in DOMAIN queue[RetryQueue(n)] : queue[RetryQueue(n)][i] = m
Present(m) == Queued(m) \/ \E l \in Lane : held[l] = m

\* A message is in one place at a time: one position of one queue, or the
\* unsettled delivery of one lane.  Deliveries, requeues after a lost connection
\* and dead-lettering neither copy it nor let two consumers hold it.
OnePlace ==
  /\ \A q, r \in Queue : \A i \in DOMAIN queue[q], j \in DOMAIN queue[r] :
       queue[q][i] = queue[r][j] => q = r /\ i = j
  /\ \A l, k \in Lane : held[l] = held[k] /\ held[l] # Nothing => l = k
  /\ \A l \in Lane : held[l] # Nothing => ~Queued(held[l])
  /\ \A m \in unsent : ~Present(m)

\* What the comment over the retry queues says (connection-manager.ts:100-103) and the
\* integration test of the tiers expects: a retry that leaves its tier is back in a
\* priority queue.
ExpiredRetriesReturn ==
  [][\A n \in Tier : \A m \in Message :
       Waits(m, n) /\ ~Waits(m, n)' =>
         \E q \in TaskQueues : \E i \in DOMAIN queue'[q] : queue'[q][i] = m]_brokerVars
=============================================================================
