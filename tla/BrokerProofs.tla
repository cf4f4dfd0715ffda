----------------------------- MODULE BrokerProofs -----------------------------
(***************************************************************************)
(* Theorems about Broker, for any messages, workers, priorities and         *)
(* prefetch: a message is in one place, and which messages may disappear.    *)
(* OnePlace is inductive with the type invariant; what it takes is an        *)
(* account of what publishing, taking the head of a queue and returning      *)
(* deliveries do to the contents of all queues.                             *)
(***************************************************************************)
EXTENDS Broker, FiniteSetTheorems, SequenceTheorems, TLAPS

In(qs, m) == \E q \in Queue : \E i \in DOMAIN qs[q] : qs[q][i] = m
Distinct(qs) ==
  \A q, r \in Queue : \A i \in DOMAIN qs[q], j \in DOMAIN qs[r] :
    qs[q][i] = qs[r][j] => q = r /\ i = j
Queues == [Queue -> Seq(Message)]
-----------------------------------------------------------------------------
(* Names and routes                                                         *)

LEMMA QueueNames ==
  /\ \A l \in Lane : Source(l) \in TaskQueues
  /\ TaskQueues \subseteq Queue /\ DeadLetterQueue \in Queue
  /\ \A n \in Tier : RetryQueue(n) \in Queue
  /\ \A p \in Priority : TaskQueue(p) \in TaskQueues
  /\ \A q \in TaskQueues : \E p \in Priority : q = TaskQueue(p) /\ q[2] = p
BY DEF Lane, Source, Queue, TaskQueues, TaskQueue, RetryQueue, Tier

\* A message goes to one queue at most.
LEMMA OneRoute ==
  ASSUME NEW exchange, NEW m \in Message
  PROVE  \A q, r \in Route(exchange, RoutingKey(m)) : q = r /\ q \in Queue
<1>1. CASE exchange = "DLX"
  BY <1>1, QueueNames DEF Route
<1>2. CASE exchange # "DLX"
  BY <1>2 DEF Route, Bindings, RoutingKey
<1> QED BY <1>1, <1>2

\* What is published is bound to a queue.
LEMMA PublishedHasRoute ==
  ASSUME BrokerAssumption, NEW m \in Message
  PROVE  Route(PublishedTo(m), RoutingKey(m)) # {}
<1>1. m.priority \in Priority /\ m.tier \in 0..6
  BY DEF BrokerAssumption
<1>2. CASE m.tier = 0
  <2>1. <<"TASKS", <<"task", m.priority>>, TaskQueue(m.priority)>> \in Bindings
    BY <1>1 DEF Bindings
  <2> QED BY <1>1, <1>2, <2>1, QueueNames DEF Route, PublishedTo, RoutingKey
<1>3. CASE m.tier # 0
  <2>1. m.tier \in Tier
    BY <1>1, <1>3 DEF Tier
  <2>2. <<"RETRY", <<"retry.attempt", m.tier>>, RetryQueue(m.tier)>> \in Bindings
    BY <2>1 DEF Bindings
  <2> QED BY <1>3, <2>1, <2>2, QueueNames DEF Route, PublishedTo, RoutingKey
<1> QED BY <1>2, <1>3
-----------------------------------------------------------------------------
(* The contents of the queues                                               *)

\* A message that is in no queue is appended to one at most.
LEMMA AddOne ==
  ASSUME NEW qs \in Queues, NEW exchange, NEW m \in Message, Distinct(qs), ~In(qs, m)
  PROVE  /\ Routed(qs, exchange, m) \in Queues /\ Distinct(Routed(qs, exchange, m))
         /\ \A n : In(Routed(qs, exchange, m), n) =>
              In(qs, n) \/ (n = m /\ Route(exchange, RoutingKey(m)) # {})
         /\ \A n : In(qs, n) => In(Routed(qs, exchange, m), n)
         /\ Route(exchange, RoutingKey(m)) # {} => In(Routed(qs, exchange, m), m)
<1> DEFINE new == Routed(qs, exchange, m)
           R == Route(exchange, RoutingKey(m))
<1>1. \A q \in Queue : new[q] = IF q \in R THEN Append(qs[q], m) ELSE qs[q]
  BY DEF Routed
<1>2. \A q \in Queue : /\ qs[q] \in Seq(Message) /\ Append(qs[q], m) \in Seq(Message)
                       /\ DOMAIN qs[q] = 1..Len(qs[q]) /\ Len(qs[q]) \in Nat
                       /\ DOMAIN Append(qs[q], m) = 1..(Len(qs[q]) + 1)
                       /\ \A i \in 1..Len(qs[q]) : Append(qs[q], m)[i] = qs[q][i]
                       /\ Append(qs[q], m)[Len(qs[q]) + 1] = m
  BY AppendProperties DEF Queues
<1>3. new \in Queues
  BY <1>2 DEF Routed, Queues
<1>4. \A q, r \in R : q = r /\ q \in Queue
  BY OneRoute
<1> HIDE DEF new, R
<1>5. \A q \in Queue : \A i \in DOMAIN new[q] :
        \/ i \in DOMAIN qs[q] /\ new[q][i] = qs[q][i]
        \/ q \in R /\ new[q][i] = m /\ i = Len(qs[q]) + 1
  <2> TAKE q \in Queue
  <2>1. CASE q \in R
    <3>1. new[q] = Append(qs[q], m)
      BY <1>1, <2>1
    <3> QED BY <1>2, <2>1, <3>1
  <2>2. CASE q \notin R
    BY <1>1, <2>2
  <2> QED BY <2>1, <2>2
<1>6. \A q \in Queue : \A i \in DOMAIN qs[q] : i \in DOMAIN new[q] /\ new[q][i] = qs[q][i]
  <2> TAKE q \in Queue
  <2>1. CASE q \in R
    <3>1. new[q] = Append(qs[q], m)
      BY <1>1, <2>1
    <3> QED BY <1>2, <3>1
  <2>2. CASE q \notin R
    BY <1>1, <2>2
  <2> QED BY <2>1, <2>2
<1>7. \A q \in Queue : \A i \in DOMAIN qs[q] : qs[q][i] # m
  BY DEF In
<1>8. Distinct(new)
  BY <1>4, <1>5, <1>7 DEF Distinct
<1>9. \A n : In(new, n) => In(qs, n) \/ (n = m /\ R # {})
  BY <1>5 DEF In
<1>10. \A n : In(qs, n) => In(new, n)
  BY <1>6 DEF In
<1>11. ASSUME R # {} PROVE In(new, m)
  <2> PICK q \in R : TRUE
    BY <1>11
  <2>1. q \in Queue /\ new[q] = Append(qs[q], m)
    BY <1>1, <1>4
  <2>2. Len(qs[q]) + 1 \in DOMAIN new[q] /\ new[q][Len(qs[q]) + 1] = m
    BY <1>2, <2>1
  <2> QED BY <2>1, <2>2 DEF In
<1> QED BY <1>3, <1>8, <1>9, <1>10, <1>11 DEF new, R

\* The head leaves its queue.
LEMMA TakeHead ==
  ASSUME NEW qs \in Queues, NEW q \in Queue, qs[q] # <<>>, Distinct(qs)
  PROVE  LET new == [qs EXCEPT ![q] = Tail(@)] IN
         /\ Head(qs[q]) \in Message /\ In(qs, Head(qs[q]))
         /\ new \in Queues /\ Distinct(new)
         /\ ~In(new, Head(qs[q]))
         /\ \A n : In(new, n) <=> In(qs, n) /\ n # Head(qs[q])
<1> DEFINE new == [qs EXCEPT ![q] = Tail(@)]
           m == Head(qs[q])
<1>1. /\ qs[q] \in Seq(Message) /\ Len(qs[q]) \in Nat \ {0}
      /\ m \in Message /\ m = qs[q][1] /\ Tail(qs[q]) \in Seq(Message)
      /\ Len(Tail(qs[q])) = Len(qs[q]) - 1
      /\ \A i \in 1..(Len(qs[q]) - 1) : Tail(qs[q])[i] = qs[q][i+1]
  BY HeadTailProperties, EmptySeq, LenProperties DEF Queues
<1>2. /\ DOMAIN qs[q] = 1..Len(qs[q]) /\ DOMAIN Tail(qs[q]) = 1..(Len(qs[q]) - 1)
      /\ 1 \in DOMAIN qs[q]
  BY <1>1, LenProperties
<1>3. new[q] = Tail(qs[q]) /\ \A r \in Queue \ {q} : new[r] = qs[r]
  BY DEF Queues
<1>4. new \in Queues
  BY <1>1 DEF Queues
<1> HIDE DEF new, m
<1>5. \A i \in DOMAIN new[q] : i \in Nat /\ i # 0 /\ i + 1 \in DOMAIN qs[q] /\ new[q][i] = qs[q][i+1]
  BY <1>1, <1>2, <1>3
<1>6. \A i \in DOMAIN qs[q] : i = 1 \/ (i - 1 \in DOMAIN new[q] /\ new[q][i - 1] = qs[q][i])
  BY <1>1, <1>2, <1>3
<1>7. ASSUME NEW r \in Queue, NEW s \in Queue, NEW i \in DOMAIN new[r], NEW j \in DOMAIN new[s],
             new[r][i] = new[s][j]
      PROVE  r = s /\ i = j
  <2>1. \A k \in {r, s} : k # q => new[k] = qs[k]
    BY <1>3
  <2>2. CASE r = q /\ s = q
    <3>1. /\ i \in Nat /\ i + 1 \in DOMAIN qs[q] /\ new[r][i] = qs[q][i + 1]
          /\ j \in Nat /\ j + 1 \in DOMAIN qs[q] /\ new[s][j] = qs[q][j + 1]
      BY <1>5, <1>7, <2>2
    <3>2. qs[q][i + 1] = qs[q][j + 1]
      BY <1>7, <3>1
    <3>3. i + 1 = j + 1
      BY <3>1, <3>2 DEF Distinct
    <3> QED BY <2>2, <3>1, <3>3
  <2>3. CASE r # q /\ s # q
    BY <1>7, <2>1, <2>3 DEF Distinct
  <2>4. CASE r = q /\ s # q
    <3>1. i + 1 \in DOMAIN qs[q] /\ new[r][i] = qs[q][i + 1] /\ j \in DOMAIN qs[s]
      BY <1>5, <1>7, <2>1, <2>4
    <3>2. qs[q][i + 1] = qs[s][j]
      BY <1>7, <2>1, <2>4, <3>1
    <3> QED BY <2>4, <3>1, <3>2 DEF Distinct
  <2>5. CASE r # q /\ s = q
    <3>1. j + 1 \in DOMAIN qs[q] /\ new[s][j] = qs[q][j + 1] /\ i \in DOMAIN qs[r]
      BY <1>5, <1>7, <2>1, <2>5
    <3>2. qs[r][i] = qs[q][j + 1]
      BY <1>7, <2>1, <2>5, <3>1
    <3> QED BY <2>5, <3>1, <3>2 DEF Distinct
  <2> QED BY <2>2, <2>3, <2>4, <2>5
<1>8. Distinct(new)
  BY <1>7 DEF Distinct
<1>9. In(qs, m)
  BY <1>1, <1>2 DEF In
<1>10. ~In(new, m)
  <2> SUFFICES ASSUME NEW r \in Queue, NEW i \in DOMAIN new[r], new[r][i] = m PROVE FALSE
    BY DEF In
  <2>1. CASE r = q
    BY <1>1, <1>2, <1>5, <2>1 DEF Distinct
  <2>2. CASE r # q
    BY <1>1, <1>2, <1>3, <2>2 DEF Distinct
  <2> QED BY <2>1, <2>2
<1>11. \A n : In(new, n) => In(qs, n)
  BY <1>3, <1>5 DEF In
<1>12. \A n : In(qs, n) /\ n # m => In(new, n)
  <2> SUFFICES ASSUME NEW n, n # m, NEW r \in Queue, NEW i \in DOMAIN qs[r], qs[r][i] = n
               PROVE  In(new, n)
    BY DEF In
  <2>1. CASE r = q
    <3>1. i - 1 \in DOMAIN new[q] /\ new[q][i - 1] = n
      BY <1>1, <1>6, <2>1
    <3> QED BY <3>1 DEF In
  <2>2. CASE r # q
    BY <1>3, <2>2 DEF In
  <2> QED BY <2>1, <2>2
<1>13. \A n : In(new, n) <=> In(qs, n) /\ n # m
  BY <1>10, <1>11, <1>12
<1> QED BY <1>1, <1>4, <1>8, <1>9, <1>10, <1>13 DEF new, m

\* The deliveries of a consumer, in one of the orders they can be put back in.
LEMMA UnsettledLanes ==
  ASSUME BrokerAssumption, NEW w \in Worker, NEW p \in Priority
  PROVE  /\ IsFiniteSet(Unsettled(w, p)) /\ Unsettled(w, p) \subseteq LanesOf(w)
         /\ LanesOf(w) \subseteq Lane
         /\ \A l \in Unsettled(w, p) : l[2] = p /\ held[l] # Nothing
         /\ \A l \in LanesOf(w) : l[2] = p /\ held[l] # Nothing => l \in Unsettled(w, p)
<1> DEFINE D == 1..Prefetch
           f == [i \in D |-> <<w, p, i>>]
           T == {w} \X {p} \X D
<1>1. IsFiniteSet(D)
  BY FS_Interval DEF BrokerAssumption
<1>2. f \in Surjection(D, T)
  BY DEF Surjection
<1>3. IsFiniteSet(T)
  BY <1>1, <1>2, FS_Surjection
<1>4. Unsettled(w, p) \in SUBSET T
  BY DEF Unsettled
<1>5. IsFiniteSet(Unsettled(w, p))
  <2> HIDE DEF T
  <2> QED BY <1>3, <1>4, FS_Subset
<1> QED BY <1>5 DEF Unsettled, LanesOf, Lane

LEMMA OrderOfUnsettled ==
  ASSUME BrokerAssumption, NEW w \in Worker, NEW p \in Priority, NEW s \in SetToSeqs(Unsettled(w, p))
  PROVE  /\ s \in Seq(Unsettled(w, p))
         /\ \A i, j \in DOMAIN s : s[i] = s[j] => i = j
         /\ \A l \in Unsettled(w, p) : \E i \in DOMAIN s : s[i] = l
<1> DEFINE U == Unsettled(w, p)
           D == 1..Cardinality(U)
<1>1. IsFiniteSet(U) /\ Cardinality(U) \in Nat
  BY UnsettledLanes, FS_CardinalityType
<1>2. s \in [D -> U] /\ \A i, j \in D : i # j => s[i] # s[j]
  BY DEF SetToSeqs
<1>3. IsFiniteSet(D) /\ Cardinality(D) = Cardinality(U)
  BY <1>1, FS_Interval
<1> HIDE DEF U, D
<1>4. s \in Injection(D, U)
  BY <1>2 DEF Injection, IsInjective
<1>5. s \in Surjection(D, U)
  BY <1>1, <1>3, <1>4, FS_Injection
<1>6. s \in Seq(U)
  BY <1>1, <1>2, IsASeq DEF D
<1> QED BY <1>2, <1>5, <1>6 DEF Surjection, U

LEMMA Joined ==
  ASSUME NEW a \in Seq(Message), NEW b \in Seq(Message)
  PROVE  /\ a \o b \in Seq(Message) /\ Len(a) \in Nat
         /\ \A i \in DOMAIN (a \o b) :
              \/ i \in DOMAIN a /\ (a \o b)[i] = a[i]
              \/ i \in Nat /\ i - Len(a) \in DOMAIN b /\ (a \o b)[i] = b[i - Len(a)]
         /\ \A i \in DOMAIN a : i \in DOMAIN (a \o b) /\ (a \o b)[i] = a[i]
         /\ \A i \in DOMAIN b : i + Len(a) \in DOMAIN (a \o b) /\ (a \o b)[i + Len(a)] = b[i]
<1> DEFINE c == a \o b
<1>1. /\ c \in Seq(Message) /\ Len(c) = Len(a) + Len(b)
      /\ Len(a) \in Nat /\ Len(b) \in Nat
      /\ DOMAIN c = 1..Len(c) /\ DOMAIN a = 1..Len(a) /\ DOMAIN b = 1..Len(b)
      /\ \A i \in 1..(Len(a) + Len(b)) : c[i] = IF i <= Len(a) THEN a[i] ELSE b[i - Len(a)]
  BY ConcatProperties, LenProperties
<1> HIDE DEF c
<1>2. \A i \in DOMAIN c : \/ i \in DOMAIN a /\ c[i] = a[i]
                          \/ i \in Nat /\ i - Len(a) \in DOMAIN b /\ c[i] = b[i - Len(a)]
  BY <1>1
<1>3. \A i \in DOMAIN a : i \in DOMAIN c /\ c[i] = a[i]
  BY <1>1
<1>4. \A i \in DOMAIN b : i + Len(a) \in DOMAIN c /\ c[i + Len(a)] = b[i]
  BY <1>1
<1> QED BY <1>1, <1>2, <1>3, <1>4 DEF c

\* Messages returned to the heads of the queues.
LEMMA PutBack ==
  ASSUME NEW qs \in Queues, NEW front \in Queues, Distinct(qs), Distinct(front),
         \A m : ~(In(qs, m) /\ In(front, m)),
         NEW new, new = [q \in Queue |-> front[q] \o qs[q]]
  PROVE  /\ new \in Queues /\ Distinct(new)
         /\ \A m : In(new, m) <=> In(qs, m) \/ In(front, m)
<1>1. \A q \in Queue : new[q] = front[q] \o qs[q] /\ front[q] \in Seq(Message) /\ qs[q] \in Seq(Message)
  BY DEF Queues
<1>2. \A q \in Queue : front[q] \o qs[q] \in Seq(Message) /\ Len(front[q]) \in Nat
  BY <1>1, Joined
<1>3. new \in Queues
  BY <1>2 DEF Queues
<1>4. \A q \in Queue : \A i \in DOMAIN new[q] :
        \/ i \in DOMAIN front[q] /\ new[q][i] = front[q][i]
        \/ i \in Nat /\ i - Len(front[q]) \in DOMAIN qs[q] /\ new[q][i] = qs[q][i - Len(front[q])]
  <2> TAKE q \in Queue
  <2>1. new[q] = front[q] \o qs[q] /\ front[q] \in Seq(Message) /\ qs[q] \in Seq(Message)
    BY <1>1
  <2>2. \A i \in DOMAIN (front[q] \o qs[q]) :
          \/ i \in DOMAIN front[q] /\ (front[q] \o qs[q])[i] = front[q][i]
          \/ /\ i \in Nat /\ i - Len(front[q]) \in DOMAIN qs[q]
             /\ (front[q] \o qs[q])[i] = qs[q][i - Len(front[q])]
    <3> QED BY <2>1, Joined
  <2> QED BY <2>1, <2>2, Zenon
<1>5. \A q \in Queue : \A i \in DOMAIN front[q] : i \in DOMAIN new[q] /\ new[q][i] = front[q][i]
  <2> TAKE q \in Queue
  <2>1. new[q] = front[q] \o qs[q] /\ front[q] \in Seq(Message) /\ qs[q] \in Seq(Message)
    BY <1>1
  <2>2. \A i \in DOMAIN front[q] : /\ i \in DOMAIN (front[q] \o qs[q])
                                  /\ (front[q] \o qs[q])[i] = front[q][i]
    <3> QED BY <2>1, Joined
  <2> QED BY <2>1, <2>2, Zenon
<1>6. \A q \in Queue : \A i \in DOMAIN qs[q] :
        i + Len(front[q]) \in DOMAIN new[q] /\ new[q][i + Len(front[q])] = qs[q][i]
  <2> TAKE q \in Queue
  <2>1. new[q] = front[q] \o qs[q] /\ front[q] \in Seq(Message) /\ qs[q] \in Seq(Message)
    BY <1>1
  <2>2. \A i \in DOMAIN qs[q] : /\ i + Len(front[q]) \in DOMAIN (front[q] \o qs[q])
                               /\ (front[q] \o qs[q])[i + Len(front[q])] = qs[q][i]
    <3> QED BY <2>1, Joined
  <2> QED BY <2>1, <2>2, Zenon
<1>7. ASSUME NEW r \in Queue, NEW s \in Queue, NEW i \in DOMAIN new[r], NEW j \in DOMAIN new[s],
             new[r][i] = new[s][j]
      PROVE  r = s /\ i = j
  <2> DEFINE m == new[r][i]
  <2>1. CASE /\ i \in DOMAIN front[r] /\ new[r][i] = front[r][i]
             /\ j \in DOMAIN front[s] /\ new[s][j] = front[s][j]
    BY <1>7, <2>1 DEF Distinct
  <2>2. CASE /\ i \in Nat /\ i - Len(front[r]) \in DOMAIN qs[r] /\ new[r][i] = qs[r][i - Len(front[r])]
             /\ j \in Nat /\ j - Len(front[s]) \in DOMAIN qs[s] /\ new[s][j] = qs[s][j - Len(front[s])]
    <3>1. qs[r][i - Len(front[r])] = qs[s][j - Len(front[s])]
      BY <1>7, <2>2
    <3>2. r = s /\ i - Len(front[r]) = j - Len(front[s])
      BY <2>2, <3>1 DEF Distinct
    <3> QED BY <1>2, <2>2, <3>2
  <2>3. CASE /\ i \in DOMAIN front[r] /\ new[r][i] = front[r][i]
             /\ j - Len(front[s]) \in DOMAIN qs[s] /\ new[s][j] = qs[s][j - Len(front[s])]
    BY <1>7, <2>3 DEF In
  <2>4. CASE /\ i - Len(front[r]) \in DOMAIN qs[r] /\ new[r][i] = qs[r][i - Len(front[r])]
             /\ j \in DOMAIN front[s] /\ new[s][j] = front[s][j]
    BY <1>7, <2>4 DEF In
  <2> QED BY <1>4, <2>1, <2>2, <2>3, <2>4
<1>8. Distinct(new)
  BY <1>7 DEF Distinct
<1>9. ASSUME NEW m, In(new, m) PROVE In(qs, m) \/ In(front, m)
  <2> PICK q \in Queue : \E i \in DOMAIN new[q] : new[q][i] = m
    BY <1>9 DEF In
  <2> PICK i \in DOMAIN new[q] : new[q][i] = m
    OBVIOUS
  <2>1. CASE i \in DOMAIN front[q] /\ new[q][i] = front[q][i]
    BY <2>1 DEF In
  <2>2. CASE i - Len(front[q]) \in DOMAIN qs[q] /\ new[q][i] = qs[q][i - Len(front[q])]
    BY <2>2 DEF In
  <2> QED BY <1>4, <2>1, <2>2
<1>10. ASSUME NEW m, In(front, m) PROVE In(new, m)
  <2> PICK q \in Queue : \E i \in DOMAIN front[q] : front[q][i] = m
    BY <1>10 DEF In
  <2> PICK i \in DOMAIN front[q] : front[q][i] = m
    OBVIOUS
  <2>1. i \in DOMAIN new[q] /\ new[q][i] = m
    BY <1>5
  <2> QED BY <2>1 DEF In
<1>11. ASSUME NEW m, In(qs, m) PROVE In(new, m)
  <2> PICK q \in Queue : \E i \in DOMAIN qs[q] : qs[q][i] = m
    BY <1>11 DEF In
  <2> PICK i \in DOMAIN qs[q] : qs[q][i] = m
    OBVIOUS
  <2>1. i + Len(front[q]) \in DOMAIN new[q] /\ new[q][i + Len(front[q])] = m
    BY <1>6
  <2> QED BY <2>1 DEF In
<1> QED BY <1>3, <1>8, <1>9, <1>10, <1>11
-----------------------------------------------------------------------------
(* The steps                                                                *)

Apart(qs, lanes, rest) ==
  /\ Distinct(qs)
  /\ \A l, k \in Lane : lanes[l] = lanes[k] /\ lanes[l] # Nothing => l = k
  /\ \A l \in Lane : lanes[l] # Nothing => ~In(qs, lanes[l])
  /\ \A m \in rest : ~In(qs, m) /\ \A l \in Lane : lanes[l] # m

BrokerInv == BrokerAssumption /\ BrokerTypeOK /\ OnePlace

LEMMA PlacesApart ==
  /\ OnePlace <=> Apart(queue, held, unsent)
  /\ OnePlace' <=> Apart(queue', held', unsent')
  /\ \A m : Present(m) <=> In(queue, m) \/ \E l \in Lane : held[l] = m
  /\ \A m : Present(m)' <=> In(queue', m) \/ \E l \in Lane : held'[l] = m
BY DEF OnePlace, Apart, Distinct, Queued, Present, In

LEMMA TypesApart ==
  ASSUME BrokerInv
  PROVE  /\ BrokerAssumption
         /\ queue \in Queues /\ held \in [Lane -> Message \cup {Nothing}] /\ unsent \subseteq Message
         /\ Apart(queue, held, unsent)
BY PlacesApart DEF BrokerInv, BrokerTypeOK, Queues

LEMMA InvNext ==
  ASSUME BrokerAssumption, queue' \in Queues, held' \in [Lane -> Message \cup {Nothing}], unsent' \subseteq Message,
         Apart(queue', held', unsent')
  PROVE  BrokerInv'
BY PlacesApart DEF BrokerInv, BrokerTypeOK, Queues

\* The messages a step may do away with.
OnlyGone(gone) == \A m \in Message : Present(m) /\ ~Present(m)' => m \in gone

LEMMA SendStep ==
  ASSUME BrokerInv, NEW m \in Message, Send(m)
  PROVE  BrokerInv' /\ OnlyGone({}) /\ unsent' = unsent \ {m} /\ Present(m)'
<1>1. /\ queue' = Routed(queue, PublishedTo(m), m) /\ held' = held
      /\ m \in unsent /\ unsent' = unsent \ {m}
  BY DEF Send, Publish
<1>2. Distinct(queue) /\ ~In(queue, m) /\ queue \in Queues
  BY <1>1, TypesApart DEF Apart
<1>3. /\ queue' \in Queues /\ Distinct(queue') /\ In(queue', m)
      /\ \A n : In(queue', n) <=> In(queue, n) \/ n = m
  BY <1>1, <1>2, TypesApart, AddOne, PublishedHasRoute
<1>4. Apart(queue', held', unsent')
  BY <1>1, <1>3, TypesApart DEF Apart
<1>5. BrokerInv'
  BY <1>1, <1>3, <1>4, TypesApart, InvNext
<1> QED BY <1>1, <1>3, <1>5, PlacesApart DEF OnlyGone

\* An expired message finds its route by its key, or is dropped.  Only a retry is
\* ever in a retry queue.
LEMMA ExpireStep ==
  ASSUME BrokerInv, NEW n \in Tier, Expire(n)
  PROVE  BrokerInv' /\ OnlyGone({Head(queue[RetryQueue(n)])}) /\ unsent' = unsent
<1> DEFINE q == RetryQueue(n)
           m == Head(queue[q])
           taken == [queue EXCEPT ![q] = Tail(@)]
<1>1. /\ queue' = Routed(taken, "TASKS", m) /\ held' = held /\ unsent' = unsent
      /\ queue[q] # <<>> /\ q \in Queue
  BY QueueNames DEF Expire
<1>2. queue \in Queues /\ Distinct(queue)
  BY TypesApart DEF Apart
<1>3. /\ m \in Message /\ In(queue, m) /\ taken \in Queues /\ Distinct(taken) /\ ~In(taken, m)
      /\ \A k : In(taken, k) <=> In(queue, k) /\ k # m
  BY <1>1, <1>2, TakeHead
<1> HIDE DEF taken, m, q
<1>4. /\ queue' \in Queues /\ Distinct(queue')
      /\ \A k : In(queue', k) => In(queue, k)
      /\ \A k : In(queue, k) /\ k # m => In(queue', k)
  BY <1>1, <1>3, AddOne
<1>5. Apart(queue', held', unsent')
  BY <1>1, <1>4, TypesApart DEF Apart
<1>6. BrokerInv'
  BY <1>1, <1>4, <1>5, TypesApart, InvNext
<1>7. OnlyGone({m})
  BY <1>1, <1>4, PlacesApart DEF OnlyGone
<1> QED BY <1>1, <1>6, <1>7 DEF m, q

LEMMA DeliverStep ==
  ASSUME BrokerInv, NEW l \in Lane, Deliver(l)
  PROVE  BrokerInv' /\ OnlyGone({}) /\ unsent' = unsent
<1> DEFINE q == Source(l)
           m == Head(queue[q])
<1>1. /\ queue' = [queue EXCEPT ![q] = Tail(@)] /\ held' = [held EXCEPT ![l] = m]
      /\ unsent' = unsent /\ held[l] = Nothing /\ queue[q] # <<>> /\ q \in Queue
  BY QueueNames DEF Deliver
<1>2. queue \in Queues /\ Distinct(queue)
  BY TypesApart DEF Apart
<1>3. /\ m \in Message /\ In(queue, m) /\ queue' \in Queues /\ Distinct(queue')
      /\ \A k : In(queue', k) <=> In(queue, k) /\ k # m
  BY <1>1, <1>2, TakeHead
<1> HIDE DEF m, q
<1>4. held' \in [Lane -> Message \cup {Nothing}] /\ \A k \in Lane : held'[k] = IF k = l THEN m ELSE held[k]
  BY <1>1, <1>3, TypesApart
<1>5. Apart(queue', held', unsent')
  <2>1. /\ \A k \in Lane : held[k] # m
        /\ m \notin unsent /\ m # Nothing
    BY <1>3, TypesApart DEF Apart, BrokerAssumption
  <2>2. \A j, k \in Lane : held'[j] = held'[k] /\ held'[j] # Nothing => j = k
    BY <1>4, <2>1, TypesApart DEF Apart
  <2>3. \A k \in Lane : held'[k] # Nothing => ~In(queue', held'[k])
    BY <1>3, <1>4, TypesApart DEF Apart
  <2>4. \A k \in unsent' : ~In(queue', k) /\ \A j \in Lane : held'[j] # k
    BY <1>1, <1>3, <1>4, <2>1, TypesApart DEF Apart
  <2> QED BY <1>3, <2>2, <2>3, <2>4 DEF Apart
<1>6. BrokerInv'
  BY <1>1, <1>3, <1>4, <1>5, TypesApart, InvNext
<1>7. OnlyGone({})
  <2> SUFFICES ASSUME NEW k \in Message, Present(k) PROVE Present(k)'
    BY DEF OnlyGone
  <2>1. CASE k = m
    BY <1>4, <2>1, PlacesApart
  <2>2. CASE k # m /\ In(queue, k)
    BY <1>3, <2>2, PlacesApart
  <2>3. ASSUME NEW j \in Lane, held[j] = k PROVE Present(k)'
    BY <1>1, <1>4, <2>3, TypesApart, PlacesApart DEF BrokerAssumption
  <2> QED BY <2>1, <2>2, <2>3, PlacesApart
<1> QED BY <1>1, <1>6, <1>7

LEMMA Freed ==
  ASSUME BrokerInv, NEW l \in Lane
  PROVE  LET freed == [held EXCEPT ![l] = Nothing] IN
         /\ freed \in [Lane -> Message \cup {Nothing}]
         /\ \A k \in Lane : freed[k] = IF k = l THEN Nothing ELSE held[k]
BY TypesApart

\* Settling a delivery forgets its message, and no other.
LEMMA AckStep ==
  ASSUME BrokerInv, NEW l \in Lane, Ack(l)
  PROVE  BrokerInv' /\ OnlyGone({held[l]}) /\ unsent' = unsent
<1>1. queue' = queue /\ unsent' = unsent /\ held' = [held EXCEPT ![l] = Nothing]
  BY DEF Ack
<1>2. Apart(queue', held', unsent')
  BY <1>1, Freed, TypesApart DEF Apart, BrokerAssumption
<1>3. BrokerInv'
  BY <1>1, <1>2, Freed, TypesApart, InvNext
<1>4. OnlyGone({held[l]})
  BY <1>1, Freed, PlacesApart DEF OnlyGone
<1> QED BY <1>1, <1>3, <1>4

\* A rejected one goes to the dead letter queue.
LEMMA RejectStep ==
  ASSUME BrokerInv, NEW l \in Lane, Reject(l)
  PROVE  BrokerInv' /\ OnlyGone({}) /\ unsent' = unsent
<1> DEFINE m == held[l]
<1>1. /\ queue' = Routed(queue, "DLX", m) /\ unsent' = unsent
      /\ held' = [held EXCEPT ![l] = Nothing] /\ m # Nothing
  BY DEF Reject
<1>2. m \in Message /\ ~In(queue, m) /\ queue \in Queues /\ Distinct(queue)
  BY <1>1, TypesApart DEF Apart
<1>3. Route("DLX", RoutingKey(m)) # {}
  BY DEF Route
<1>4. /\ queue' \in Queues /\ Distinct(queue') /\ \A k : In(queue', k) <=> In(queue, k) \/ k = m
  BY <1>1, <1>2, <1>3, AddOne
<1>5. Apart(queue', held', unsent')
  BY <1>1, <1>4, Freed, TypesApart DEF Apart, BrokerAssumption
<1>6. BrokerInv'
  BY <1>1, <1>4, <1>5, Freed, TypesApart, InvNext
<1>7. OnlyGone({})
  BY <1>1, <1>4, Freed, PlacesApart DEF OnlyGone
<1> QED BY <1>1, <1>6, <1>7

\* What a lost worker had not settled goes back to its queues, each message once.
LEMMA DisconnectStep ==
  ASSUME BrokerInv, NEW w \in Worker, Disconnect(w)
  PROVE  BrokerInv' /\ OnlyGone({}) /\ unsent' = unsent
<1>1. PICK order \in Orders(w) :
        queue' = [q \in Queue |->
                    IF q \in TaskQueues
                      THEN [i \in DOMAIN order[q[2]] |-> held[order[q[2]][i]]] \o queue[q]
                      ELSE queue[q]]
  BY DEF Disconnect
<1>2. unsent' = unsent /\ \A l \in Lane : held'[l] = IF l \in LanesOf(w) THEN Nothing ELSE held[l]
  BY DEF Disconnect, Released
<1>3. held' \in [Lane -> Message \cup {Nothing}]
  BY TypesApart DEF Disconnect, Released
<1> DEFINE back(p) == [i \in DOMAIN order[p] |-> held[order[p][i]]]
           front == [q \in Queue |-> IF q \in TaskQueues THEN back(q[2]) ELSE <<>>]
<1>4. ASSUME NEW p \in Priority
      PROVE  /\ order[p] \in Seq(Unsettled(w, p)) /\ back(p) \in Seq(Message)
             /\ \A i, j \in DOMAIN order[p] : order[p][i] = order[p][j] => i = j
             /\ \A l \in Unsettled(w, p) : \E i \in DOMAIN order[p] : order[p][i] = l
  <2>1. order[p] \in SetToSeqs(Unsettled(w, p))
    BY <1>4 DEF Orders
  <2>2. order[p] \in Seq(Unsettled(w, p))
    BY <2>1, TypesApart, OrderOfUnsettled
  <2>3. \A l \in Unsettled(w, p) : held[l] \in Message
    BY UnsettledLanes, TypesApart
  <2>4. Len(order[p]) \in Nat /\ DOMAIN order[p] = 1..Len(order[p])
        /\ \A i \in 1..Len(order[p]) : order[p][i] \in Unsettled(w, p)
    BY <2>2, LenProperties, ElementOfSeq
  <2>5. back(p) \in [1..Len(order[p]) -> Message]
    BY <2>3, <2>4
  <2>6. back(p) \in Seq(Message)
    BY <2>4, <2>5, IsASeq
  <2> QED BY <2>1, <2>2, <2>6, TypesApart, OrderOfUnsettled
<1>5. front \in Queues
  <2>1. \A q \in Queue : front[q] \in Seq(Message)
    BY <1>4, QueueNames, EmptySeq
  <2> QED BY <2>1 DEF Queues
<1>6. queue' = [q \in Queue |-> front[q] \o queue[q]]
  <2>1. \A q \in Queue : queue[q] \in Seq(Message) /\ <<>> \o queue[q] = queue[q]
    BY TypesApart, ConcatEmptySeq DEF Queues
  <2> QED BY <1>1, <2>1
\* The messages put in front are those of the lanes of w.
<1>7. ASSUME NEW q \in Queue, NEW i \in DOMAIN front[q]
      PROVE  /\ q \in TaskQueues /\ q[2] \in Priority /\ q = TaskQueue(q[2])
             /\ i \in DOMAIN order[q[2]] /\ front[q][i] = held[order[q[2]][i]]
             /\ order[q[2]][i] \in LanesOf(w) /\ order[q[2]][i][2] = q[2]
             /\ held[order[q[2]][i]] # Nothing
  <2>1. q \in TaskQueues
    BY <1>7, EmptySeq
  <2>2. q[2] \in Priority /\ q = TaskQueue(q[2])
    BY <2>1, QueueNames
  <2>3. i \in DOMAIN order[q[2]] /\ front[q][i] = held[order[q[2]][i]]
    BY <1>7, <2>1
  <2>4. order[q[2]][i] \in Unsettled(w, q[2])
    BY <1>4, <2>2, <2>3, ElementOfSeq, LenProperties
  <2> QED BY <2>1, <2>2, <2>3, <2>4, TypesApart, UnsettledLanes
<1> HIDE DEF front, back
<1>8. Distinct(front)
  <2> SUFFICES ASSUME NEW q \in Queue, NEW r \in Queue, NEW i \in DOMAIN front[q], NEW j \in DOMAIN front[r],
                      front[q][i] = front[r][j]
               PROVE  q = r /\ i = j
    BY DEF Distinct
  <2>1. order[q[2]][i] = order[r[2]][j]
    BY <1>7, UnsettledLanes, TypesApart DEF Apart
  <2>2. q = r
    BY <1>7, <2>1
  <2> QED BY <1>4, <1>7, <2>1, <2>2
<1>9. \A m : In(front, m) <=> \E l \in LanesOf(w) : held[l] = m /\ m # Nothing
  <2>1. ASSUME NEW m, In(front, m) PROVE \E l \in LanesOf(w) : held[l] = m /\ m # Nothing
    <3> PICK q \in Queue : \E i \in DOMAIN front[q] : front[q][i] = m
      BY <2>1 DEF In
    <3> PICK i \in DOMAIN front[q] : front[q][i] = m
      OBVIOUS
    <3> QED BY <1>7
  <2>2. ASSUME NEW l \in LanesOf(w), held[l] # Nothing PROVE In(front, held[l])
    <3> DEFINE p == l[2]
               q == TaskQueue(p)
    <3>1. p \in Priority /\ q \in TaskQueues /\ q \in Queue /\ q[2] = p
      BY QueueNames DEF LanesOf, TaskQueue
    <3>2. l \in Unsettled(w, p)
      BY <2>2, <3>1, TypesApart, UnsettledLanes
    <3> HIDE DEF p, q
    <3>3. PICK i \in DOMAIN order[p] : order[p][i] = l
      BY <1>4, <3>1, <3>2
    <3>4. front[q] = back(p)
      BY <3>1 DEF front
    <3>5. i \in DOMAIN front[q] /\ front[q][i] = held[l]
      BY <3>3, <3>4 DEF back
    <3> QED BY <3>1, <3>5 DEF In
  <2> QED BY <2>1, <2>2
<1>10. \A m : ~(In(queue, m) /\ In(front, m))
  <2> SUFFICES ASSUME NEW m, In(queue, m), In(front, m) PROVE FALSE
    OBVIOUS
  <2> PICK l \in LanesOf(w) : held[l] = m /\ m # Nothing
    BY <1>9
  <2> QED BY TypesApart DEF Apart, LanesOf, Lane
<1>11. /\ queue' \in Queues /\ Distinct(queue')
       /\ \A m : In(queue', m) <=> In(queue, m) \/ In(front, m)
  BY <1>5, <1>6, <1>8, <1>10, PutBack, TypesApart DEF Apart
<1>12. Apart(queue', held', unsent')
  <2>1. \A l, k \in Lane : held'[l] = held'[k] /\ held'[l] # Nothing => l = k
    BY <1>2, TypesApart DEF Apart
  <2>2. ASSUME NEW l \in Lane, held'[l] # Nothing, In(queue', held'[l]) PROVE FALSE
    <3>1. l \notin LanesOf(w) /\ held'[l] = held[l] /\ ~In(queue, held[l])
      BY <1>2, <2>2, TypesApart DEF Apart
    <3>2. PICK k \in LanesOf(w) : held[k] = held[l]
      BY <1>9, <1>11, <2>2, <3>1
    <3>3. k \in Lane
      BY DEF LanesOf, Lane
    <3> QED BY <2>2, <3>1, <3>2, <3>3, TypesApart DEF Apart
  <2>3. \A m \in unsent' : ~In(queue', m) /\ \A l \in Lane : held'[l] # m
    BY <1>2, <1>9, <1>11, UnsettledLanes, TypesApart DEF Apart, BrokerAssumption
  <2> QED BY <1>11, <2>1, <2>2, <2>3 DEF Apart
<1>13. BrokerInv'
  BY <1>2, <1>3, <1>11, <1>12, TypesApart, InvNext
<1>14. OnlyGone({})
  BY <1>2, <1>9, <1>11, PlacesApart DEF OnlyGone, BrokerAssumption
<1> QED BY <1>2, <1>13, <1>14
-----------------------------------------------------------------------------
(* What waits for its TTL is a retry                                        *)

Retries == {m \in Message : m.tier > 0}
TiersHoldRetries == \A n \in Tier : queue[RetryQueue(n)] \in Seq(Retries)

LEMMA TiersTakeRetries ==
  ASSUME BrokerAssumption, NEW qs \in Queues, \A n \in Tier : qs[RetryQueue(n)] \in Seq(Retries),
         NEW exchange, NEW m \in Message
  PROVE  \A n \in Tier : Routed(qs, exchange, m)[RetryQueue(n)] \in Seq(Retries)
<1> TAKE n \in Tier
<1> DEFINE q == RetryQueue(n)
<1>1. q \in Queue /\ Routed(qs, exchange, m)[q] =
        IF q \in Route(exchange, RoutingKey(m)) THEN Append(qs[q], m) ELSE qs[q]
  BY QueueNames DEF Routed
<1>2. ASSUME q \in Route(exchange, RoutingKey(m)) PROVE m.tier > 0
  <2>1. exchange # "DLX"
    BY <1>2 DEF Route, DeadLetterQueue, RetryQueue
  <2>2. <<exchange, RoutingKey(m), q>> \in Bindings
    BY <1>2, <2>1 DEF Route
  <2>3. RoutingKey(m)[1] = "retry.attempt"
    BY <2>2 DEF Bindings, RetryQueue, TaskQueue
  <2> QED BY <2>3 DEF RoutingKey, BrokerAssumption
<1>3. q \in Route(exchange, RoutingKey(m)) => m \in Retries
  BY <1>2 DEF Retries
<1> HIDE DEF q
<1> QED BY <1>1, <1>3, AppendProperties DEF q

LEMMA TiersNext == ASSUME BrokerInv, TiersHoldRetries, [BrokerNext]_brokerVars PROVE TiersHoldRetries'
<1>1. queue \in Queues /\ BrokerAssumption
  BY TypesApart
<1>2. ASSUME NEW m \in Message, Send(m) PROVE TiersHoldRetries'
  BY <1>1, <1>2, TiersTakeRetries DEF Send, Publish, TiersHoldRetries
<1>3. ASSUME NEW n \in Tier, Expire(n) PROVE TiersHoldRetries'
  <2> DEFINE q == RetryQueue(n)
             taken == [queue EXCEPT ![q] = Tail(@)]
  <2>1. /\ q \in Queue /\ queue[q] # <<>> /\ Distinct(queue)
        /\ queue' = Routed(taken, "TASKS", Head(queue[q]))
    BY <1>3, QueueNames, TypesApart DEF Expire, Apart
  <2>2. taken \in Queues /\ Head(queue[q]) \in Message
    BY <1>1, <2>1, TakeHead
  <2>3. Tail(queue[q]) \in Seq(Retries)
    BY <2>1, HeadTailProperties DEF TiersHoldRetries
  <2>4. \A k \in Tier : taken[RetryQueue(k)] \in Seq(Retries)
    BY <1>1, <2>1, <2>3, QueueNames DEF TiersHoldRetries, Queues
  <2> HIDE DEF taken
  <2> QED BY <1>1, <2>1, <2>2, <2>4, TiersTakeRetries DEF TiersHoldRetries
<1>4. ASSUME NEW l \in Lane, Deliver(l) PROVE TiersHoldRetries'
  <2>1. \A n \in Tier : RetryQueue(n) # Source(l) /\ RetryQueue(n) \in Queue
    BY QueueNames DEF RetryQueue, Source, TaskQueue
  <2> QED BY <1>1, <1>4, <2>1 DEF Deliver, TiersHoldRetries, Queues
<1>5. ASSUME NEW l \in Lane, Reject(l) PROVE TiersHoldRetries'
  <2>1. held[l] \in Message
    BY <1>5, TypesApart DEF Reject
  <2> QED BY <1>1, <1>5, <2>1, TiersTakeRetries DEF Reject, TiersHoldRetries
<1>6. ASSUME NEW w \in Worker, Disconnect(w) PROVE TiersHoldRetries'
  <2>1. \A n \in Tier : RetryQueue(n) \notin TaskQueues /\ RetryQueue(n) \in Queue
    BY QueueNames DEF RetryQueue, TaskQueues, TaskQueue
  <2>2. \A n \in Tier : queue'[RetryQueue(n)] = queue[RetryQueue(n)]
    BY <1>6, <2>1 DEF Disconnect
  <2> QED BY <2>2 DEF TiersHoldRetries
<1>7. ASSUME NEW l \in Lane, Ack(l) PROVE TiersHoldRetries'
  BY <1>7 DEF Ack, TiersHoldRetries
<1>8. CASE UNCHANGED brokerVars
  BY <1>8 DEF brokerVars, TiersHoldRetries
<1> QED BY <1>2, <1>3, <1>4, <1>5, <1>6, <1>7, <1>8 DEF BrokerNext
-----------------------------------------------------------------------------
(* The theorems                                                             *)

LEMMA BrokerInit_Inv == BrokerAssumption /\ BrokerInit => BrokerInv /\ TiersHoldRetries
<1> SUFFICES ASSUME BrokerAssumption, BrokerInit PROVE BrokerInv /\ TiersHoldRetries
  OBVIOUS
<1>1. \A q \in Queue : queue[q] = <<>> /\ DOMAIN queue[q] = {}
  BY DEF BrokerInit
<1>2. BrokerTypeOK
  BY <1>1 DEF BrokerInit, BrokerTypeOK
<1>3. OnePlace
  BY <1>1 DEF BrokerInit, BrokerAssumption, OnePlace, Queued, Present
<1>4. TiersHoldRetries
  BY <1>1, QueueNames, EmptySeq DEF TiersHoldRetries
<1> QED BY <1>2, <1>3, <1>4 DEF BrokerInv

LEMMA StandStill == ASSUME BrokerInv, UNCHANGED brokerVars PROVE BrokerInv' /\ OnlyGone({})
BY DEF BrokerInv, BrokerTypeOK, OnePlace, Queued, Present, brokerVars, OnlyGone

LEMMA BrokerStep == ASSUME BrokerInv, [BrokerNext]_brokerVars PROVE BrokerInv'
BY SendStep, ExpireStep, DeliverStep, AckStep, RejectStep, DisconnectStep, StandStill DEF BrokerNext

LEMMA BrokerInvariant == BrokerAssumption /\ BrokerSpec => [](BrokerInv /\ TiersHoldRetries)
<1>1. BrokerInv /\ TiersHoldRetries /\ [BrokerNext]_brokerVars => (BrokerInv /\ TiersHoldRetries)'
  BY BrokerStep, TiersNext
<1> QED BY <1>1, BrokerInit_Inv, PTL DEF BrokerSpec

\* The queues hold messages, whatever is published, returned and dead-lettered.
THEOREM BrokerTypeCorrectness == BrokerAssumption /\ BrokerSpec => []BrokerTypeOK
<1>1. BrokerInv => BrokerTypeOK
  BY DEF BrokerInv
<1> QED BY <1>1, BrokerInvariant, PTL

\* A message is in one place, for any number of consumers and lost connections.
THEOREM MessagesAreInOnePlace == BrokerAssumption /\ BrokerSpec => []OnePlace
<1>1. BrokerInv => OnePlace
  BY DEF BrokerInv
<1> QED BY <1>1, BrokerInvariant, PTL

\* Who leaves the broker, and what is never lost on the way in.
Leaves ==
  \A m \in Message :
    /\ Present(m) /\ ~Present(m)' =>
         (\E l \in Lane : held[l] = m /\ Ack(l)) \/ \E n \in Tier : Expire(n) /\ m.tier > 0
    /\ m \in unsent /\ m \notin unsent' => Present(m)'

\* The broker forgets a message when its consumer acknowledged it, or when it was
\* a retry whose TTL ran out; what is published reaches a queue.
THEOREM AckedOrExpiredLeave == BrokerAssumption /\ BrokerSpec => [][Leaves]_brokerVars
<1>1. BrokerInv /\ TiersHoldRetries /\ [BrokerNext]_brokerVars => [Leaves]_brokerVars
  <2> SUFFICES ASSUME BrokerInv, TiersHoldRetries, BrokerNext PROVE Leaves
    BY DEF brokerVars
  <2>1. ASSUME NEW m \in Message, Send(m) PROVE Leaves
    BY <2>1, SendStep DEF OnlyGone, Leaves
  <2>2. ASSUME NEW n \in Tier, Expire(n) PROVE Leaves
    <3>1. Head(queue[RetryQueue(n)]) \in Retries
      BY <2>2, HeadTailProperties DEF TiersHoldRetries, Expire
    <3> QED BY <2>2, <3>1, ExpireStep DEF OnlyGone, Leaves, Retries
  <2>3. ASSUME NEW l \in Lane, Deliver(l) \/ Reject(l) PROVE Leaves
    BY <2>3, DeliverStep, RejectStep DEF OnlyGone, Leaves
  <2>4. ASSUME NEW l \in Lane, Ack(l) PROVE Leaves
    BY <2>4, AckStep DEF OnlyGone, Leaves
  <2>5. ASSUME NEW w \in Worker, Disconnect(w) PROVE Leaves
    BY <2>5, DisconnectStep DEF OnlyGone, Leaves
  <2> QED BY <2>1, <2>2, <2>3, <2>4, <2>5 DEF BrokerNext
<1> QED BY <1>1, BrokerInvariant, PTL DEF BrokerSpec
=============================================================================
