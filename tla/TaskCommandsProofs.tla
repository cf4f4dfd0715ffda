------------------------- MODULE TaskCommandsProofs -------------------------
(***************************************************************************)
(* Proofs about TaskCommands, for any number of tasks, requests, keys,     *)
(* priorities and retry limits.                                            *)
(*                                                                         *)
(* The inductive invariant says what a request slot knows: a handler       *)
(* waiting at a statement holds the id of a real task and a snapshot from  *)
(* which the table allows the status it is about to write.                 *)
(***************************************************************************)
EXTENDS TaskCommands, SequenceTheorems, TLAPS

\* What request s may rely on at each place it can be waiting.
SlotSound(s) ==
  LET r == req[s]
  IN  /\ r.pc \notin {"idle", "create.insert"} => r.task \in TaskId
      /\ r.pc = "create.insert" => r.task = NoTask
      /\ r.pc \in {"create.publish", "create.markQueued"} => r.seen = "PENDING"
      /\ r.pc = "report.write" => r.next \in Reportable /\ CanTransition(r.seen, r.next)
      /\ r.pc = "report.schedule" => r.seen = "RETRYING"
      /\ r.pc = "cancel.write" => CanTransition(r.seen, "CANCELLED")
      /\ r.pc = "retry.write" => CanTransition(r.seen, "QUEUED")
      /\ r.pc = "delete.write" => IsTerminalStatus(r.seen)
      /\ r.pc = "update.write" => r.seen \in MUTABLE_STATUSES

SlotsSound == \A s \in Request : SlotSound(s)

IInv == TypeOK /\ SlotsSound
-----------------------------------------------------------------------------
USE TaskCommandsAssumption

LEMMA IdleSlotType == IdleSlot \in Slot
BY DEF IdleSlot, Slot, RowStatus

LEMMA StatusTypes ==
  /\ TaskStatus \subseteq RowStatus
  /\ Reportable \subseteq TaskStatus
  /\ \A a, b : CanTransition(a, b) => a \in TaskStatus /\ b \in TaskStatus
BY DEF TaskStatus, RowStatus, Reportable, CanTransition, TASK_STATUS_TRANSITIONS

\* An update by id keeps the table typed when the row it writes is a row.
LEMMA UpdateType ==
  ASSUME task \in [TaskId -> Row], NEW t \in TaskId, NEW row \in Row, UpdateById(t, row)
  PROVE  task' \in [TaskId -> Row]
BY DEF UpdateById

\* A slot that stops serving, or that keeps a typed row, stays typed; the other
\* slots are not touched.
LEMMA FinishType ==
  ASSUME req \in [Request -> Slot], NEW s \in Request, Finish(s)
  PROVE  /\ req' \in [Request -> Slot]
         /\ req'[s].pc = "idle"
         /\ \A q \in Request \ {s} : req'[q] = req[q]
BY IdleSlotType DEF Finish, IdleSlot

LEMMA RememberType ==
  ASSUME req \in [Request -> Slot], NEW s \in Request, NEW t \in TaskId, NEW row \in Row,
         NEW n \in RowStatus,
         NEW pc \in {"create.publish", "report.write", "report.schedule", "cancel.write",
                     "retry.write", "retry.publish", "delete.write", "update.write"},
         Remember(s, pc, t, row, n)
  PROVE  /\ req' \in [Request -> Slot]
         /\ req'[s].pc = pc /\ req'[s].task = t /\ req'[s].seen = row.status
         /\ req'[s].next = n
         /\ \A q \in Request \ {s} : req'[q] = req[q]
BY DEF Remember, Slot, Row

LEMMA PublishType ==
  ASSUME outbox \in Seq(Message), NEW m \in Message, NEW o \in PublishOutcome, Publish(m, o)
  PROVE  outbox' \in Seq(Message)
BY DEF Publish

LEMMA TransitionedType ==
  ASSUME NEW row \in Row, NEW r \in Slot, r.next \in TaskStatus
  PROVE  Transitioned(row, r) \in Row /\ Transitioned(row, r).status = r.next
<1> DEFINE n == IF r.next = "RETRYING" THEN r.count + 1 ELSE row.retryCount
           c == IF r.next \in {"COMPLETED", "FAILED"} THEN TRUE ELSE row.completedAt
<1>1. n \in Nat /\ r.next \in RowStatus
  BY DEF Row, Slot
<1>3. c \in BOOLEAN
  BY DEF Row
<1>2. Transitioned(row, r) = [row EXCEPT !.status = r.next, !.retryCount = n, !.completedAt = c]
  BY DEF Transitioned
<1> HIDE DEF n, c
<1> QED
  BY <1>1, <1>2, <1>3 DEF Row

LEMMA MessageTypes ==
  ASSUME NEW r \in Slot, r.task \in TaskId
  PROVE  TaskMessage(r) \in Message /\ RetryMessage(r) \in Message
BY DEF TaskMessage, RetryMessage, Message, Slot
-----------------------------------------------------------------------------
(* Each action keeps the inductive invariant                                *)

\* Slots other than s keep what they know, and s knows what it should.
LEMMA SlotsKept ==
  ASSUME SlotsSound, NEW s \in Request, SlotSound(s)',
         \A q \in Request \ {s} : req'[q] = req[q]
  PROVE  SlotsSound'
BY DEF SlotsSound, SlotSound

LEMMA FinishSlots ==
  ASSUME IInv, NEW s \in Request, Finish(s)
  PROVE  req' \in [Request -> Slot] /\ SlotsSound'
<1>1. SlotSound(s)'
  BY FinishType DEF IInv, TypeOK, SlotSound
<1> QED
  BY <1>1, FinishType, SlotsKept DEF IInv, TypeOK

LEMMA InsertInv ==
  ASSUME IInv, NEW s \in Request, NEW t \in TaskId, NEW k \in Key \cup {NoKey},
         NEW p \in Priority, NEW m \in Nat, InsertRow(s, t, k, p, m)
  PROVE  IInv'
<1> DEFINE row == [status |-> "PENDING", retryCount |-> 0, maxRetries |-> m, priority |-> p,
                   completedAt |-> FALSE, idempotencyKey |-> k]
<1>1. row \in Row /\ row.status = "PENDING"
  BY DEF Row, RowStatus, TaskStatus
<1>2. task' = [task EXCEPT ![t] = row] /\ Remember(s, "create.publish", t, row, "QUEUED")
      /\ outbox' = outbox
  BY DEF InsertRow
<1> HIDE DEF row
<1>3. TypeOK'
  BY <1>1, <1>2, RememberType DEF IInv, TypeOK, RowStatus, TaskStatus
<1>4. SlotSound(s)' /\ \A q \in Request \ {s} : req'[q] = req[q]
  BY <1>1, <1>2, RememberType DEF IInv, TypeOK, SlotSound, RowStatus, TaskStatus
<1> QED
  BY <1>3, <1>4, SlotsKept DEF IInv

LEMMA CreateInv ==
  ASSUME IInv, NEW s \in Request,
         \/ \E k \in Key, p \in Priority, m \in MaxRetries : CreateLookup(s, k, p, m)
         \/ \E p \in Priority, m \in MaxRetries : CreateUnkeyed(s, p, m)
         \/ CreateInsert(s) \/ CreateConflict(s) \/ CreatePublish(s) \/ CreateMarkQueued(s)
  PROVE  IInv'
<1>1. CASE \E k \in Key, p \in Priority, m \in MaxRetries : CreateLookup(s, k, p, m)
  <2>1. PICK k \in Key, p \in Priority, m \in MaxRetries : CreateLookup(s, k, p, m)
    BY <1>1
  <2>2. TypeOK'
    <3> DEFINE new == [IdleSlot EXCEPT !.pc = "create.insert", !.key = k, !.limit = m,
                                       !.priority = p]
    <3>1. new \in Slot
      BY IdleSlotType DEF Slot
    <3>2. UNCHANGED <<task, outbox>> /\ (UNCHANGED req \/ req' = [req EXCEPT ![s] = new])
      BY <2>1 DEF CreateLookup
    <3> QED
      BY <3>1, <3>2 DEF IInv, TypeOK
  <2>3. SlotsSound'
    <3>1. CASE UNCHANGED req
      BY <3>1 DEF IInv, SlotsSound, SlotSound
    <3>2. CASE ~UNCHANGED req
      <4>1. /\ req'[s].pc = "create.insert" /\ req'[s].task = NoTask
            /\ \A q \in Request \ {s} : req'[q] = req[q]
        BY <2>1, <3>2 DEF CreateLookup, IInv, TypeOK, IdleSlot
      <4>2. SlotSound(s)'
        BY <4>1 DEF SlotSound
      <4> QED
        BY <4>1, <4>2, SlotsKept DEF IInv
    <3> QED
      BY <3>1, <3>2
  <2> QED
    BY <2>2, <2>3 DEF IInv
<1>2. CASE \E p \in Priority, m \in MaxRetries : CreateUnkeyed(s, p, m)
  BY <1>2, InsertInv DEF CreateUnkeyed
<1>3. CASE CreateInsert(s)
  <2>1. req[s].key \in Key \cup {NoKey} /\ req[s].priority \in Priority /\ req[s].limit \in Nat
    BY DEF IInv, TypeOK, Slot
  <2> QED
    BY <1>3, <2>1, InsertInv DEF CreateInsert
<1>4. CASE CreateConflict(s)
  BY <1>4, FinishSlots DEF CreateConflict, IInv, TypeOK
<1>5. CASE CreatePublish(s)
  <2>1. PICK o \in PublishOutcome :
          /\ Publish(TaskMessage(req[s]), o)
          /\ IF o = "ok" THEN req' = [req EXCEPT ![s].pc = "create.markQueued"] ELSE Finish(s)
    BY <1>5 DEF CreatePublish
  <2>2. req[s].task \in TaskId /\ req[s] \in Slot /\ req[s].pc = "create.publish"
    BY <1>5 DEF CreatePublish, IInv, TypeOK, SlotsSound, SlotSound
  <2>3. outbox' \in Seq(Message) /\ task' = task
    BY <1>5, <2>1, <2>2, PublishType, MessageTypes DEF CreatePublish, IInv, TypeOK
  <2>4. CASE o = "ok"
    <3>1. req' = [req EXCEPT ![s].pc = "create.markQueued"]
      BY <2>1, <2>4
    <3>2. req' \in [Request -> Slot]
      BY <3>1, <2>2 DEF IInv, TypeOK, Slot
    <3>3. /\ req'[s].pc = "create.markQueued" /\ req'[s].task = req[s].task
          /\ req'[s].seen = req[s].seen
          /\ \A q \in Request \ {s} : req'[q] = req[q]
      BY <3>1, <2>2 DEF IInv, TypeOK, Slot
    <3>4. SlotSound(s)'
      BY <3>3, <2>2 DEF IInv, SlotsSound, SlotSound
    <3> QED
      BY <2>3, <3>2, <3>3, <3>4, SlotsKept DEF IInv, TypeOK
  <2>5. CASE o # "ok"
    BY <2>1, <2>3, <2>5, FinishSlots DEF IInv, TypeOK
  <2> QED
    BY <2>4, <2>5
<1>6. CASE CreateMarkQueued(s)
  <2>1. req[s].task \in TaskId
    BY <1>6 DEF CreateMarkQueued, IInv, SlotsSound, SlotSound
  <2>2. [task[req[s].task] EXCEPT !.status = "QUEUED"] \in Row
    BY <2>1 DEF IInv, TypeOK, Row, RowStatus, TaskStatus
  <2> QED
    BY <1>6, <2>1, <2>2, UpdateType, FinishSlots DEF CreateMarkQueued, IInv, TypeOK
<1> QED
  BY <1>1, <1>2, <1>3, <1>4, <1>5, <1>6

LEMMA ReportInv ==
  ASSUME IInv, NEW s \in Request,
         \/ \E t \in TaskId, n \in Reportable : ReportRead(s, t, n)
         \/ ReportWrite(s) \/ ReportDeadLetter(s) \/ ReportSchedule(s)
  PROVE  IInv'
<1>1. CASE \E t \in TaskId, n \in Reportable : ReportRead(s, t, n)
  <2>1. PICK t \in TaskId, n \in Reportable : ReportRead(s, t, n)
    BY <1>1
  <2>2. task[t] \in Row /\ n \in RowStatus /\ Remember(s, "report.write", t, task[t], n)
    BY <2>1, StatusTypes DEF ReportRead, IInv, TypeOK
  <2>3. TypeOK' /\ req'[s].pc = "report.write" /\ req'[s].seen = task[t].status
        /\ req'[s].next = n /\ req'[s].task = t /\ \A q \in Request \ {s} : req'[q] = req[q]
    BY <2>1, <2>2, RememberType DEF ReportRead, IInv, TypeOK
  <2>4. SlotSound(s)'
    BY <2>1, <2>3 DEF ReportRead, SlotSound
  <2> QED
    BY <2>3, <2>4, SlotsKept DEF IInv
<1>2. CASE ReportWrite(s)
  <2> DEFINE t == req[s].task
             row == Transitioned(task[t], req[s])
  <2>1. t \in TaskId /\ req[s] \in Slot /\ task[t] \in Row /\ req[s].next \in TaskStatus
    BY <1>2, StatusTypes DEF ReportWrite, IInv, TypeOK, SlotsSound, SlotSound
  <2>2. row \in Row /\ row.status = req[s].next
    BY <2>1, TransitionedType
  <2>3. task' \in [TaskId -> Row] /\ outbox' = outbox
    BY <1>2, <2>1, <2>2, UpdateType DEF ReportWrite, IInv, TypeOK
  <2>4. CASE Exists(t) /\ req[s].next = "RETRYING"
    <3>1. Remember(s, "report.schedule", t, row, "DEAD_LETTERED")
      BY <1>2, <2>4 DEF ReportWrite
    <3>2. /\ req' \in [Request -> Slot]
          /\ req'[s].pc = "report.schedule" /\ req'[s].task = t /\ req'[s].seen = row.status
          /\ \A q \in Request \ {s} : req'[q] = req[q]
      BY <2>1, <2>2, <3>1, RememberType DEF IInv, TypeOK, RowStatus, TaskStatus
    <3>3. SlotSound(s)'
      BY <2>1, <2>2, <2>4, <3>2 DEF SlotSound
    <3> QED
      BY <2>3, <3>2, <3>3, SlotsKept DEF IInv, TypeOK
  <2>5. CASE ~(Exists(t) /\ req[s].next = "RETRYING")
    BY <1>2, <2>3, <2>5, FinishSlots DEF ReportWrite, IInv, TypeOK
  <2> QED
    BY <2>4, <2>5
<1>3. CASE ReportDeadLetter(s)
  <2>1. req[s].task \in TaskId
    BY <1>3 DEF ReportDeadLetter, IInv, SlotsSound, SlotSound
  <2>2. DeadLettered(task[req[s].task]) \in Row
    BY <2>1 DEF DeadLettered, IInv, TypeOK, Row, RowStatus, TaskStatus
  <2> QED
    BY <1>3, <2>1, <2>2, UpdateType, FinishSlots DEF ReportDeadLetter, IInv, TypeOK
<1>4. CASE ReportSchedule(s)
  <2>1. req[s].task \in TaskId /\ req[s] \in Slot
    BY <1>4 DEF ReportSchedule, IInv, TypeOK, SlotsSound, SlotSound
  <2>2. outbox' \in Seq(Message)
    BY <1>4, <2>1, PublishType, MessageTypes DEF ReportSchedule, IInv, TypeOK
  <2> QED
    BY <1>4, <2>2, FinishSlots DEF ReportSchedule, IInv, TypeOK
<1> QED
  BY <1>1, <1>2, <1>3, <1>4

LEMMA OperatorInv ==
  ASSUME IInv, NEW s \in Request,
         \/ \E t \in TaskId : CancelRead(s, t) \/ RetryRead(s, t) \/ DeleteRead(s, t)
         \/ \E t \in TaskId, p \in Priority, m \in MaxRetries : UpdateRead(s, t, p, m)
         \/ CancelWrite(s) \/ RetryWrite(s) \/ RetryPublish(s) \/ DeleteWrite(s) \/ UpdateWrite(s)
  PROVE  IInv'
<1>1. CASE \E t \in TaskId : CancelRead(s, t) \/ RetryRead(s, t) \/ DeleteRead(s, t)
  <2>1. PICK t \in TaskId : CancelRead(s, t) \/ RetryRead(s, t) \/ DeleteRead(s, t)
    BY <1>1
  <2>2. task[t] \in Row
    BY DEF IInv, TypeOK
  <2>3. PICK pc \in {"cancel.write", "retry.write", "delete.write"}, n \in RowStatus :
          /\ Remember(s, pc, t, task[t], n)
          /\ pc = "cancel.write" => CanTransition(task[t].status, "CANCELLED")
          /\ pc = "retry.write" => CanTransition(task[t].status, "QUEUED")
          /\ pc = "delete.write" => IsTerminalStatus(task[t].status)
    BY <2>1 DEF CancelRead, RetryRead, DeleteRead, RowStatus, TaskStatus
  <2>4. UNCHANGED <<task, outbox>>
    BY <2>1 DEF CancelRead, RetryRead, DeleteRead
  <2>5. /\ req' \in [Request -> Slot]
        /\ req'[s].pc = pc /\ req'[s].task = t /\ req'[s].seen = task[t].status
        /\ \A q \in Request \ {s} : req'[q] = req[q]
    BY <2>2, <2>3, RememberType DEF IInv, TypeOK
  <2>6. SlotSound(s)'
    BY <2>3, <2>5 DEF SlotSound
  <2> QED
    BY <2>4, <2>5, <2>6, SlotsKept DEF IInv, TypeOK
<1>2. CASE \E t \in TaskId, p \in Priority, m \in MaxRetries : UpdateRead(s, t, p, m)
  <2>1. PICK t \in TaskId, p \in Priority, m \in MaxRetries : UpdateRead(s, t, p, m)
    BY <1>2
  <2> DEFINE row == [task[t] EXCEPT !.priority = p, !.maxRetries = m]
  <2>2. row \in Row
    BY DEF IInv, TypeOK, Row
  <2>3. /\ req' \in [Request -> Slot] /\ UNCHANGED <<task, outbox>>
        /\ req'[s].pc = "update.write" /\ req'[s].task = t /\ req'[s].seen = row.status
        /\ \A q \in Request \ {s} : req'[q] = req[q]
    BY <2>1, <2>2, RememberType DEF UpdateRead, IInv, TypeOK, RowStatus
  <2>4. row.status \in MUTABLE_STATUSES
    BY <2>1 DEF UpdateRead, IInv, TypeOK, Row
  <2>5. SlotSound(s)'
    BY <2>3, <2>4 DEF SlotSound
  <2> QED
    BY <2>3, <2>5, SlotsKept DEF IInv, TypeOK
<1>3. CASE CancelWrite(s) \/ DeleteWrite(s) \/ UpdateWrite(s)
  <2>1. req[s].task \in TaskId /\ req[s] \in Slot /\ task[req[s].task] \in Row
    BY <1>3 DEF CancelWrite, DeleteWrite, UpdateWrite, IInv, TypeOK, SlotsSound, SlotSound
  <2>2. PICK row \in Row : UpdateById(req[s].task, row)
    BY <1>3, <2>1 DEF CancelWrite, DeleteWrite, UpdateWrite, Cancelled, Row, Slot,
                      RowStatus, TaskStatus
  <2> QED
    BY <1>3, <2>1, <2>2, UpdateType, FinishSlots
    DEF CancelWrite, DeleteWrite, UpdateWrite, IInv, TypeOK
<1>4. CASE RetryWrite(s)
  <2> DEFINE t == req[s].task
             row == [task[t] EXCEPT !.status = "QUEUED", !.retryCount = 0]
  <2>1. t \in TaskId /\ task[t] \in Row
    BY <1>4 DEF RetryWrite, IInv, TypeOK, SlotsSound, SlotSound
  <2>2. row \in Row
    BY <2>1 DEF Row, RowStatus, TaskStatus
  <2>3. task' \in [TaskId -> Row] /\ outbox' = outbox
    BY <1>4, <2>1, <2>2, UpdateType DEF RetryWrite, IInv, TypeOK
  <2>4. CASE Exists(t)
    <3>1. /\ req' \in [Request -> Slot]
          /\ req'[s].pc = "retry.publish" /\ req'[s].task = t
          /\ \A q \in Request \ {s} : req'[q] = req[q]
      BY <1>4, <2>1, <2>2, <2>4, RememberType DEF RetryWrite, IInv, TypeOK, RowStatus, TaskStatus
    <3>2. SlotSound(s)'
      BY <2>1, <3>1 DEF SlotSound
    <3> QED
      BY <2>3, <3>1, <3>2, SlotsKept DEF IInv, TypeOK
  <2>5. CASE ~Exists(t)
    BY <1>4, <2>3, <2>5, FinishSlots DEF RetryWrite, IInv, TypeOK
  <2> QED
    BY <2>4, <2>5
<1>5. CASE RetryPublish(s)
  <2>1. req[s].task \in TaskId /\ req[s] \in Slot
    BY <1>5 DEF RetryPublish, IInv, TypeOK, SlotsSound, SlotSound
  <2>2. outbox' \in Seq(Message)
    BY <1>5, <2>1, PublishType, MessageTypes DEF RetryPublish, IInv, TypeOK
  <2> QED
    BY <1>5, <2>2, FinishSlots DEF RetryPublish, IInv, TypeOK
<1> QED
  BY <1>1, <1>2, <1>3, <1>4, <1>5

LEMMA EnvironmentInv ==
  ASSUME IInv, Flush \/ ApiCrash \/ ConnectionLost \/ \E s \in Request : DbError(s)
  PROVE  IInv'
<1>1. CASE Flush \/ ConnectionLost
  <2>1. outbox' \in Seq(Message)
    <3>1. outbox \in Seq(Message) /\ outbox # <<>>
      BY <1>1 DEF Flush, ConnectionLost, IInv, TypeOK
    <3>2. Tail(outbox) \in Seq(Message)
      BY <3>1, HeadTailProperties
    <3>3. <<>> \in Seq(Message)
      OBVIOUS
    <3>4. outbox' = Tail(outbox) \/ outbox' = <<>>
      BY <1>1 DEF Flush, ConnectionLost
    <3> QED
      BY <3>2, <3>3, <3>4
  <2>2. task' = task /\ req' = req
    BY <1>1 DEF Flush, ConnectionLost
  <2> QED
    BY <2>1, <2>2 DEF IInv, TypeOK, SlotsSound, SlotSound
<1>2. CASE ApiCrash
  <2>1. req' = [s \in Request |-> IdleSlot] /\ outbox' = <<>> /\ task' = task
    BY <1>2 DEF ApiCrash
  <2>2. TypeOK'
    BY <2>1, IdleSlotType DEF IInv, TypeOK
  <2>3. SlotsSound'
    BY <2>1 DEF SlotsSound, SlotSound, IdleSlot
  <2> QED
    BY <2>2, <2>3 DEF IInv
<1>3. CASE \E s \in Request : DbError(s)
  BY <1>3, FinishSlots DEF DbError, IInv, TypeOK
<1> QED
  BY <1>1, <1>2, <1>3
-----------------------------------------------------------------------------
(* The invariant theorems                                                   *)

LEMMA InitInv == Init => IInv
<1> SUFFICES ASSUME Init PROVE IInv
  OBVIOUS
<1>1. task \in [TaskId -> Row]
  BY DEF Init, Row, RowStatus
<1>2. req \in [Request -> Slot] /\ outbox \in Seq(Message)
  BY IdleSlotType DEF Init
<1>3. SlotsSound
  BY DEF Init, SlotsSound, SlotSound, IdleSlot
<1> QED
  BY <1>1, <1>2, <1>3 DEF IInv, TypeOK

LEMMA StepInv == IInv /\ [Next]_vars => IInv'
<1> SUFFICES ASSUME IInv, [Next]_vars PROVE IInv'
  OBVIOUS
<1>1. ASSUME NEW s \in Request, Arrive(s) \/ Continue(s) PROVE IInv'
  BY <1>1, CreateInv, ReportInv, OperatorInv DEF Arrive, Continue
<1>2. CASE UNCHANGED vars
  BY <1>2 DEF vars, IInv, TypeOK, SlotsSound, SlotSound
<1> QED
  BY <1>1, <1>2, EnvironmentInv DEF Next

\* The tables, the request slots and the write buffer always hold values of
\* their types, and every waiting handler holds a real task and a snapshot that
\* entitles it to its write.
THEOREM InductiveInvariant == Spec => []IInv
BY InitInv, StepInv, PTL DEF Spec

\* Type correctness of the rows, the request slots and the published messages.
THEOREM TypeCorrectness == Spec => []TypeOK
<1>1. IInv => TypeOK
  BY DEF IInv
<1> QED
  BY <1>1, InductiveInvariant, PTL
-----------------------------------------------------------------------------
(* What one step can do to one row                                          *)

\* A status the handler may write after having read `seen`.
Entitled(seen, st) ==
  \/ CanTransition(seen, st)
  \/ seen = "RETRYING" /\ st = "DEAD_LETTERED"
  \/ IsTerminalStatus(seen) /\ st = "DELETED"

RowInsert(t) ==
  /\ task[t].status = "ABSENT" /\ task'[t].status = "PENDING"
  /\ UniqueIndexAllows(task'[t].idempotencyKey)

RowUpdate(s, t) ==
  /\ ~Idle(s) /\ req[s].task = t /\ req'[s].pc # req[s].pc
  /\ Exists(t) /\ task'[t].idempotencyKey = task[t].idempotencyKey
  /\ task[t].completedAt => task'[t].completedAt
  /\ \/ task'[t].status = task[t].status
     \/ /\ Entitled(req[s].seen, task'[t].status)
        /\ IsTerminalStatus(task'[t].status) => task'[t].completedAt

\* Row t is the only one that may have changed.
OnlyRow(t) == task' \in [TaskId -> Row] /\ \A u \in TaskId \ {t} : task'[u] = task[u]

LEMMA InsertEffect ==
  ASSUME IInv, NEW s \in Request, CreateInsert(s) \/ \E p \in Priority, m \in MaxRetries : CreateUnkeyed(s, p, m)
  PROVE  \E t \in TaskId : OnlyRow(t) /\ RowInsert(t)
<1>1. PICK t \in TaskId, k \in Key \cup {NoKey}, p \in Priority, m \in Nat : InsertRow(s, t, k, p, m)
  BY DEF CreateInsert, CreateUnkeyed, IInv, TypeOK, Slot
<1>2. OnlyRow(t) /\ RowInsert(t)
  <2> DEFINE row == [status |-> "PENDING", retryCount |-> 0, maxRetries |-> m, priority |-> p,
                     completedAt |-> FALSE, idempotencyKey |-> k]
  <2>1. task' = [task EXCEPT ![t] = row] /\ task[t].status = "ABSENT" /\ UniqueIndexAllows(k)
    BY <1>1 DEF InsertRow
  <2>2. task'[t] = row /\ row \in Row /\ \A u \in TaskId \ {t} : task'[u] = task[u]
    BY <2>1 DEF IInv, TypeOK, Row, RowStatus, TaskStatus
  <2> QED
    BY <2>1, <2>2 DEF OnlyRow, RowInsert, IInv, TypeOK
<1> QED
  BY <1>2

\* The late half of a handler: an update by id of the row it remembers.
LEMMA UpdateEffect ==
  ASSUME IInv, NEW s \in Request, NEW row \in Row, ~Idle(s), req'[s].pc # req[s].pc,
         req[s].task \in TaskId, UpdateById(req[s].task, row),
         row.idempotencyKey = task[req[s].task].idempotencyKey,
         task[req[s].task].completedAt => row.completedAt,
         \/ row.status = task[req[s].task].status
         \/ Entitled(req[s].seen, row.status) /\ (IsTerminalStatus(row.status) => row.completedAt)
  PROVE  UNCHANGED task \/ \E t \in TaskId : OnlyRow(t) /\ RowUpdate(s, t)
<1> DEFINE t == req[s].task
<1>1. CASE Exists(t)
  <2>1. task' = [task EXCEPT ![t] = row]
    BY <1>1 DEF UpdateById
  <2>2. OnlyRow(t) /\ task'[t] = row
    BY <2>1 DEF OnlyRow, IInv, TypeOK
  <2>3. RowUpdate(s, t)
    BY <1>1, <2>2 DEF RowUpdate
  <2> QED
    BY <2>2, <2>3
<1>2. CASE ~Exists(t)
  BY <1>2 DEF UpdateById
<1> QED
  BY <1>1, <1>2

LEMMA WriteEffect ==
  ASSUME IInv, NEW s \in Request,
         \/ CreateMarkQueued(s) \/ ReportWrite(s) \/ ReportDeadLetter(s) \/ CancelWrite(s)
         \/ RetryWrite(s) \/ DeleteWrite(s) \/ UpdateWrite(s)
  PROVE  UNCHANGED task \/ \E t \in TaskId : OnlyRow(t) /\ RowUpdate(s, t)
<1> DEFINE r == req[s]
           old == task[r.task]
<1>1. r.pc \in {"create.markQueued", "report.write", "report.schedule", "cancel.write",
                "retry.write", "delete.write", "update.write"}
  BY DEF CreateMarkQueued, ReportWrite, ReportDeadLetter, CancelWrite, RetryWrite, DeleteWrite,
         UpdateWrite
<1>2. r \in Slot /\ r.task \in TaskId /\ old \in Row /\ ~Idle(s) /\ SlotSound(s)
  BY <1>1 DEF IInv, TypeOK, SlotsSound, SlotSound, Idle
<1>3. req'[s].pc # r.pc
  BY <1>1 DEF CreateMarkQueued, ReportWrite, ReportDeadLetter, CancelWrite, RetryWrite,
              DeleteWrite, UpdateWrite, Finish, Remember, IdleSlot, IInv, TypeOK
<1> DEFINE Written(row) ==
             /\ row \in Row /\ UpdateById(r.task, row)
             /\ row.idempotencyKey = old.idempotencyKey
             /\ old.completedAt => row.completedAt
             /\ \/ row.status = old.status
                \/ Entitled(r.seen, row.status) /\ (IsTerminalStatus(row.status) => row.completedAt)
<1>4. CASE CreateMarkQueued(s)
  <2>1. Written([old EXCEPT !.status = "QUEUED"])
    BY <1>2, <1>4 DEF CreateMarkQueued, SlotSound, Row, RowStatus, TaskStatus, Entitled,
                      CanTransition, TASK_STATUS_TRANSITIONS, IsTerminalStatus
  <2> QED
    BY <1>2, <1>3, <2>1, UpdateEffect
<1>5. CASE ReportWrite(s)
  <2> DEFINE row == Transitioned(old, r)
  <2>1. CanTransition(r.seen, r.next) /\ r.next \in TaskStatus /\ UpdateById(r.task, row)
    BY <1>2, <1>5, StatusTypes DEF ReportWrite, SlotSound
  <2>2. row \in Row /\ row.status = r.next
    BY <1>2, <2>1, TransitionedType
  <2>3. /\ row.idempotencyKey = old.idempotencyKey
        /\ old.completedAt => row.completedAt
        /\ r.next \in {"COMPLETED", "FAILED"} => row.completedAt
    BY <1>2 DEF Transitioned, Row
  <2>4. r.next \notin {"CANCELLED", "DEAD_LETTERED"}
    BY <1>2, <1>5 DEF ReportWrite, SlotSound, Reportable
  <2>5. Written(row)
    BY <2>1, <2>2, <2>3, <2>4 DEF Entitled, IsTerminalStatus
  <2> QED
    BY <1>2, <1>3, <2>5, UpdateEffect
<1>6. CASE ReportDeadLetter(s)
  <2>1. Written(DeadLettered(old))
    BY <1>2, <1>6 DEF ReportDeadLetter, DeadLettered, SlotSound, Row, RowStatus, TaskStatus, Entitled
  <2> QED
    BY <1>2, <1>3, <2>1, UpdateEffect
<1>7. CASE CancelWrite(s)
  <2>1. Written(Cancelled(old))
    BY <1>2, <1>7 DEF CancelWrite, Cancelled, SlotSound, Row, RowStatus, TaskStatus, Entitled
  <2> QED
    BY <1>2, <1>3, <2>1, UpdateEffect
<1>8. CASE RetryWrite(s)
  <2>1. Written([old EXCEPT !.status = "QUEUED", !.retryCount = 0])
    BY <1>2, <1>8 DEF RetryWrite, SlotSound, Row, RowStatus, TaskStatus, Entitled, IsTerminalStatus
  <2> QED
    BY <1>2, <1>3, <2>1, UpdateEffect
<1>9. CASE DeleteWrite(s)
  <2>1. Written([old EXCEPT !.status = "DELETED"])
    BY <1>2, <1>9 DEF DeleteWrite, SlotSound, Row, RowStatus, TaskStatus, Entitled, IsTerminalStatus
  <2> QED
    BY <1>2, <1>3, <2>1, UpdateEffect
<1>10. CASE UpdateWrite(s)
  <2>1. Written([old EXCEPT !.priority = r.priority, !.maxRetries = r.limit])
    BY <1>2, <1>10 DEF UpdateWrite, Row, Slot
  <2> QED
    BY <1>2, <1>3, <2>1, UpdateEffect
<1> QED
  BY <1>4, <1>5, <1>6, <1>7, <1>8, <1>9, <1>10

\* Every step changes at most one row, by an insert or by a handler's update.
LEMMA StepEffect ==
  ASSUME IInv, [Next]_vars
  PROVE  \/ UNCHANGED task
         \/ \E t \in TaskId : OnlyRow(t) /\ RowInsert(t)
         \/ \E t \in TaskId, s \in Request : OnlyRow(t) /\ RowUpdate(s, t)
<1>1. ASSUME NEW s \in Request, Arrive(s)
      PROVE  UNCHANGED task \/ \E t \in TaskId : OnlyRow(t) /\ RowInsert(t)
  <2>1. CASE \E p \in Priority, m \in MaxRetries : CreateUnkeyed(s, p, m)
    BY <2>1, InsertEffect
  <2>2. CASE ~ \E p \in Priority, m \in MaxRetries : CreateUnkeyed(s, p, m)
    BY <1>1, <2>2 DEF Arrive, CreateLookup, ReportRead, CancelRead, RetryRead, DeleteRead, UpdateRead
  <2> QED
    BY <2>1, <2>2
<1>2. ASSUME NEW s \in Request, Continue(s)
      PROVE  \/ UNCHANGED task
             \/ \E t \in TaskId : OnlyRow(t) /\ RowInsert(t)
             \/ \E t \in TaskId : OnlyRow(t) /\ RowUpdate(s, t)
  <2>1. CASE CreateConflict(s) \/ CreatePublish(s) \/ ReportSchedule(s) \/ RetryPublish(s)
    BY <2>1 DEF CreateConflict, CreatePublish, ReportSchedule, RetryPublish
  <2> QED
    BY <1>2, <2>1, InsertEffect, WriteEffect DEF Continue
<1>3. CASE Flush \/ ApiCrash \/ ConnectionLost \/ \E s \in Request : DbError(s)
  BY <1>3 DEF Flush, ApiCrash, ConnectionLost, DbError
<1>4. CASE UNCHANGED vars
  BY <1>4 DEF vars
<1> QED
  BY <1>1, <1>2, <1>3, <1>4 DEF Next
-----------------------------------------------------------------------------
(* The safety theorems                                                      *)

\* Any change of a status that the table does not list is the late write of a
\* handler whose snapshot the row has left, for any number of concurrent requests.
THEOREM StaleWritesOnly == Spec => OnlyStaleWritesBreakTheTable
<1>1. IInv /\ [Next]_vars =>
        [\A t \in TaskId : StatusStep(t) => LegalStep(t) \/ StaleWriter(t)]_vars
  <2> SUFFICES ASSUME IInv, [Next]_vars, NEW t \in TaskId, StatusStep(t), ~StaleWriter(t)
               PROVE  LegalStep(t)
    OBVIOUS
  <2>1. CASE OnlyRow(t) /\ RowInsert(t)
    BY <2>1 DEF RowInsert, LegalStep
  <2>2. CASE \E s \in Request : OnlyRow(t) /\ RowUpdate(s, t)
    <3>1. PICK s \in Request : RowUpdate(s, t)
      BY <2>2
    <3>2. req[s].seen = task[t].status
      BY <3>1 DEF RowUpdate, StaleWriter
    <3> QED
      BY <3>1, <3>2 DEF RowUpdate, StatusStep, Entitled, LegalStep, CanTransition
  <2>3. (OnlyRow(t) /\ RowInsert(t)) \/ \E s \in Request : OnlyRow(t) /\ RowUpdate(s, t)
    BY StepEffect DEF StatusStep, OnlyRow
  <2> QED
    BY <2>1, <2>2, <2>3
<1> QED
  BY <1>1, InductiveInvariant, PTL DEF Spec, OnlyStaleWritesBreakTheTable

\* No late update brings a deleted task back.
THEOREM DeletedForGood == Spec => DeletedStaysDeleted
<1>1. IInv /\ [Next]_vars =>
        [\A t \in TaskId : task[t].status = "DELETED" => task'[t].status = "DELETED"]_vars
  <2> SUFFICES ASSUME IInv, [Next]_vars, NEW t \in TaskId, task[t].status = "DELETED"
               PROVE  task'[t].status = "DELETED"
    OBVIOUS
  <2>1. ~RowInsert(t) /\ \A s \in Request : ~RowUpdate(s, t)
    BY DEF RowInsert, RowUpdate, Exists, TaskStatus
  <2> QED
    BY <2>1, StepEffect DEF OnlyRow
<1> QED
  BY <1>1, InductiveInvariant, PTL DEF Spec, DeletedStaysDeleted

\* Every finished task has a completion date, whichever handlers raced on it.
THEOREM FinishedIsDated == Spec => []TerminalHasCompletedAt
<1>1. Init => TerminalHasCompletedAt
  BY DEF Init, TerminalHasCompletedAt, IsTerminalStatus
<1>2. IInv /\ TerminalHasCompletedAt /\ [Next]_vars => TerminalHasCompletedAt'
  <2> SUFFICES ASSUME IInv, TerminalHasCompletedAt, [Next]_vars, NEW t \in TaskId,
                      IsTerminalStatus(task'[t].status)
               PROVE  task'[t].completedAt
    BY DEF TerminalHasCompletedAt, IsTerminalStatus
  <2>1. ~RowInsert(t)
    BY DEF RowInsert, IsTerminalStatus
  <2>2. task'[t] = task[t] \/ \E s \in Request : RowUpdate(s, t)
    BY <2>1, StepEffect DEF OnlyRow
  <2>3. task'[t].status = task[t].status => task[t].completedAt
    BY DEF TerminalHasCompletedAt
  <2> QED
    BY <2>2, <2>3 DEF RowUpdate
<1> QED
  BY <1>1, <1>2, InductiveInvariant, PTL DEF Spec

\* The unique index gives each idempotency key at most one task.
THEOREM KeysAreUnique == Spec => []KeyNamesOneTask
<1>1. Init => KeyNamesOneTask
  BY DEF Init, KeyNamesOneTask
<1>2. IInv /\ KeyNamesOneTask /\ [Next]_vars => KeyNamesOneTask'
  <2> SUFFICES ASSUME IInv, KeyNamesOneTask, [Next]_vars, NEW t \in TaskId, NEW u \in TaskId,
                      Exists(t)', Exists(u)', t # u,
                      task'[t].idempotencyKey = task'[u].idempotencyKey
               PROVE  task'[t].idempotencyKey = NoKey
    BY DEF KeyNamesOneTask
  <2> DEFINE Kept(v) == Exists(v) /\ task'[v].idempotencyKey = task[v].idempotencyKey
  <2>1. CASE \E v \in TaskId : OnlyRow(v) /\ RowInsert(v)
    <3>1. PICK v \in TaskId : OnlyRow(v) /\ RowInsert(v)
      BY <2>1
    <3>2. \A w \in TaskId \ {v} : task'[w] = task[w]
      BY <3>1 DEF OnlyRow
    <3>3. \A w \in TaskId \ {v} : Exists(w) /\ task[w].idempotencyKey = task'[v].idempotencyKey
                                    => task'[v].idempotencyKey = NoKey
      BY <3>1 DEF RowInsert, UniqueIndexAllows, KeyTaken
    <3> QED
      BY <3>2, <3>3 DEF Exists, KeyNamesOneTask
  <2>2. CASE UNCHANGED task \/ \E v \in TaskId, s \in Request : OnlyRow(v) /\ RowUpdate(s, v)
    <3>1. Kept(t) /\ Kept(u)
      BY <2>2 DEF OnlyRow, RowUpdate, Exists
    <3> QED
      BY <3>1 DEF KeyNamesOneTask
  <2> QED
    BY <2>1, <2>2, StepEffect
<1> QED
  BY <1>1, <1>2, InductiveInvariant, PTL DEF Spec
-----------------------------------------------------------------------------
(* Requests served one at a time                                            *)
(*                                                                          *)
(* With a single request slot nothing comes between a handler's statements, *)
(* so what the slot remembers is still what the row holds.                  *)

Fresh(s) ==
  /\ req[s].pc \notin {"idle", "create.insert"} => req[s].seen = task[req[s].task].status
  /\ req[s].pc = "report.schedule" => /\ req[s].count = task[req[s].task].retryCount
                                      /\ req[s].limit = task[req[s].task].maxRetries

SerialInv == /\ \A s \in Request : Fresh(s)
             /\ DeadLetteredIsExhausted

LEMMA RememberFresh ==
  ASSUME IInv, NEW s \in Request, NEW t \in TaskId, NEW row, NEW pc, NEW n,
         Remember(s, pc, t, row, n), row.status = task'[t].status,
         pc = "report.schedule" =>
           row.retryCount = task'[t].retryCount /\ row.maxRetries = task'[t].maxRetries
  PROVE  Fresh(s)'
BY DEF Remember, Fresh, IInv, TypeOK

LEMMA FinishFresh ==
  ASSUME IInv, NEW s \in Request, Finish(s)
  PROVE  Fresh(s)'
BY DEF Finish, Fresh, IdleSlot, IInv, TypeOK

LEMMA ArriveFresh ==
  ASSUME IInv, NEW s \in Request, Fresh(s), Arrive(s)
  PROVE  Fresh(s)'
<1>1. CASE \E k \in Key, p \in Priority, m \in MaxRetries : CreateLookup(s, k, p, m)
  <2>1. PICK k \in Key, p \in Priority, m \in MaxRetries : CreateLookup(s, k, p, m)
    BY <1>1
  <2>2. UNCHANGED task /\ (UNCHANGED req \/ req'[s].pc = "create.insert")
    BY <2>1 DEF CreateLookup, IdleSlot, IInv, TypeOK
  <2> QED
    BY <2>2 DEF Fresh
<1>2. CASE \E p \in Priority, m \in MaxRetries : CreateUnkeyed(s, p, m)
  <2>1. PICK t \in TaskId, p \in Priority, m \in MaxRetries : InsertRow(s, t, NoKey, p, m)
    BY <1>2 DEF CreateUnkeyed
  <2> QED
    BY <2>1, RememberFresh DEF InsertRow, IInv, TypeOK
<1>3. CASE \E t \in TaskId : \/ \E n \in Reportable : ReportRead(s, t, n)
                             \/ CancelRead(s, t) \/ RetryRead(s, t) \/ DeleteRead(s, t)
  <2>1. PICK t \in TaskId, pc \in {"report.write", "cancel.write", "retry.write", "delete.write"},
             n \in RowStatus :
          Remember(s, pc, t, task[t], n) /\ UNCHANGED task
    BY <1>3, StatusTypes DEF ReportRead, CancelRead, RetryRead, DeleteRead, RowStatus, TaskStatus
  <2> QED
    BY <2>1, RememberFresh
<1>4. CASE \E t \in TaskId, p \in Priority, m \in MaxRetries : UpdateRead(s, t, p, m)
  <2>1. PICK t \in TaskId, p \in Priority, m \in MaxRetries : UpdateRead(s, t, p, m)
    BY <1>4
  <2>2. [task[t] EXCEPT !.priority = p, !.maxRetries = m].status = task[t].status
    BY DEF IInv, TypeOK, Row
  <2> QED
    BY <2>1, <2>2, RememberFresh DEF UpdateRead
<1> QED
  BY <1>1, <1>2, <1>3, <1>4 DEF Arrive

LEMMA ContinueFresh ==
  ASSUME IInv, NEW s \in Request, Fresh(s), Continue(s)
  PROVE  Fresh(s)'
<1>1. CASE CreateInsert(s)
  <2>1. PICK t \in TaskId : InsertRow(s, t, req[s].key, req[s].priority, req[s].limit)
    BY <1>1 DEF CreateInsert
  <2> QED
    BY <2>1, RememberFresh DEF InsertRow, IInv, TypeOK
<1>2. CASE CreatePublish(s)
  <2>1. UNCHANGED task /\ (Finish(s) \/ req' = [req EXCEPT ![s].pc = "create.markQueued"])
    BY <1>2 DEF CreatePublish
  <2>2. CASE req' = [req EXCEPT ![s].pc = "create.markQueued"]
    BY <1>2, <2>1, <2>2 DEF CreatePublish, Fresh, IInv, TypeOK, Slot
  <2> QED
    BY <2>1, <2>2, FinishFresh
<1>3. CASE ReportWrite(s)
  <2> DEFINE t == req[s].task
             row == Transitioned(task[t], req[s])
  <2>1. t \in TaskId /\ UpdateById(t, row)
    BY <1>3 DEF ReportWrite, IInv, SlotsSound, SlotSound
  <2>2. CASE Exists(t) /\ req[s].next = "RETRYING"
    <3>1. task'[t] = row /\ Remember(s, "report.schedule", t, row, "DEAD_LETTERED")
      BY <1>3, <2>1, <2>2 DEF ReportWrite, UpdateById, IInv, TypeOK
    <3> HIDE DEF row
    <3> QED
      BY <2>1, <3>1, RememberFresh
  <2>3. CASE ~(Exists(t) /\ req[s].next = "RETRYING")
    BY <1>3, <2>3, FinishFresh DEF ReportWrite
  <2> QED
    BY <2>2, <2>3
<1>4. CASE RetryWrite(s)
  <2> DEFINE t == req[s].task
             row == [task[t] EXCEPT !.status = "QUEUED", !.retryCount = 0]
  <2>1. t \in TaskId /\ UpdateById(t, row)
    BY <1>4 DEF RetryWrite, IInv, SlotsSound, SlotSound
  <2>2. CASE Exists(t)
    <3>1. task'[t] = row /\ Remember(s, "retry.publish", t, row, "QUEUED")
      BY <1>4, <2>1, <2>2 DEF RetryWrite, UpdateById, IInv, TypeOK
    <3> HIDE DEF row
    <3> QED
      BY <2>1, <3>1, RememberFresh
  <2>3. CASE ~Exists(t)
    BY <1>4, <2>3, FinishFresh DEF RetryWrite
  <2> QED
    BY <2>2, <2>3
<1>5. CASE \/ CreateConflict(s) \/ CreateMarkQueued(s) \/ ReportDeadLetter(s) \/ ReportSchedule(s)
           \/ CancelWrite(s) \/ RetryPublish(s) \/ DeleteWrite(s) \/ UpdateWrite(s)
  BY <1>5, FinishFresh DEF CreateConflict, CreateMarkQueued, ReportDeadLetter, ReportSchedule,
     CancelWrite, RetryPublish, DeleteWrite, UpdateWrite
<1> QED
  BY <1>1, <1>2, <1>3, <1>4, <1>5 DEF Continue

\* An update keeps DeadLetteredIsExhausted when the row it writes does.
LEMMA DeadLetterUpdate ==
  ASSUME IInv, DeadLetteredIsExhausted, NEW t \in TaskId, NEW row, UpdateById(t, row),
         row.status = "DEAD_LETTERED" => row.retryCount > row.maxRetries
  PROVE  DeadLetteredIsExhausted'
BY DEF UpdateById, DeadLetteredIsExhausted, IInv, TypeOK

LEMMA DeadLetterStep ==
  ASSUME IInv, NEW s \in Request, Fresh(s), DeadLetteredIsExhausted, Arrive(s) \/ Continue(s)
  PROVE  DeadLetteredIsExhausted'
<1> DEFINE t == req[s].task
           Write == \/ CreateMarkQueued(s) \/ ReportWrite(s) \/ ReportDeadLetter(s)
                    \/ CancelWrite(s) \/ RetryWrite(s) \/ DeleteWrite(s) \/ UpdateWrite(s)
<1>1. CASE UNCHANGED task
  BY <1>1 DEF DeadLetteredIsExhausted
<1>2. CASE \E v \in TaskId : OnlyRow(v) /\ RowInsert(v)
  BY <1>2 DEF OnlyRow, RowInsert, DeadLetteredIsExhausted
<1>3. CASE Write
  <2>1. t \in TaskId /\ req[s] \in Slot /\ task[t] \in Row /\ SlotSound(s)
    BY <1>3 DEF CreateMarkQueued, ReportWrite, ReportDeadLetter, CancelWrite, RetryWrite,
                DeleteWrite, UpdateWrite, IInv, TypeOK, SlotsSound, SlotSound
  <2>2. CASE ReportWrite(s)
    <3>1. req[s].next \in Reportable /\ req[s].next \in TaskStatus
      BY <2>1, <2>2, StatusTypes DEF ReportWrite, SlotSound
    <3>2. Transitioned(task[t], req[s]).status # "DEAD_LETTERED"
      BY <2>1, <3>1, TransitionedType DEF Reportable
    <3> QED
      BY <2>1, <2>2, <3>2, DeadLetterUpdate DEF ReportWrite
  <2>3. CASE ReportDeadLetter(s)
    <3>1. DeadLettered(task[t]).retryCount > DeadLettered(task[t]).maxRetries
      BY <2>1, <2>3 DEF ReportDeadLetter, Exhausted, Fresh, DeadLettered, Row
    <3> QED
      BY <2>1, <2>3, <3>1, DeadLetterUpdate DEF ReportDeadLetter
  <2>4. CASE UpdateWrite(s)
    <3> DEFINE row == [task[t] EXCEPT !.priority = req[s].priority, !.maxRetries = req[s].limit]
    <3>1. row.status # "DEAD_LETTERED"
      BY <2>1, <2>4 DEF UpdateWrite, SlotSound, Fresh, MUTABLE_STATUSES, Row
    <3> HIDE DEF row
    <3>2. UpdateById(t, row)
      BY <2>4 DEF UpdateWrite, row
    <3> QED
      BY <2>1, <3>1, <3>2, DeadLetterUpdate
  <2>5. CASE CreateMarkQueued(s) \/ CancelWrite(s) \/ RetryWrite(s) \/ DeleteWrite(s)
    <3> DEFINE queued == [task[t] EXCEPT !.status = "QUEUED"]
               retried == [task[t] EXCEPT !.status = "QUEUED", !.retryCount = 0]
               deleted == [task[t] EXCEPT !.status = "DELETED"]
    <3>1. \A row \in {queued, retried, deleted, Cancelled(task[t])} : row.status # "DEAD_LETTERED"
      BY <2>1 DEF Row, Cancelled
    <3>2. \E row \in {queued, retried, deleted, Cancelled(task[t])} : UpdateById(t, row)
      BY <2>5 DEF CreateMarkQueued, CancelWrite, RetryWrite, DeleteWrite
    <3> HIDE DEF queued, retried, deleted
    <3> QED
      BY <2>1, <3>1, <3>2, DeadLetterUpdate
  <2> QED
    BY <1>3, <2>2, <2>3, <2>4, <2>5
<1>4. CASE CreateInsert(s) \/ \E p \in Priority, m \in MaxRetries : CreateUnkeyed(s, p, m)
  BY <1>2, <1>4, InsertEffect
<1> QED
  BY <1>1, <1>3, <1>4 DEF Arrive, Continue, CreateLookup, ReportRead, CancelRead, RetryRead,
     DeleteRead, UpdateRead, CreateConflict, CreatePublish, ReportSchedule, RetryPublish

LEMMA SerialStep ==
  ASSUME NEW r, Request = {r}, IInv, SerialInv, [Next]_vars
  PROVE  SerialInv'
<1>1. CASE Arrive(r) \/ Continue(r)
  BY <1>1, ArriveFresh, ContinueFresh, DeadLetterStep DEF SerialInv
<1>2. CASE DbError(r)
  BY <1>2, FinishFresh DEF SerialInv, DbError, DeadLetteredIsExhausted
<1>3. CASE ApiCrash
  BY <1>3 DEF ApiCrash, SerialInv, Fresh, IdleSlot, DeadLetteredIsExhausted
<1>4. CASE Flush \/ ConnectionLost \/ UNCHANGED vars
  BY <1>4 DEF Flush, ConnectionLost, vars, SerialInv, Fresh, DeadLetteredIsExhausted
<1> QED
  BY <1>1, <1>2, <1>3, <1>4 DEF Next

LEMMA SerialInvariant == ASSUME NEW r, Request = {r} PROVE Spec => []SerialInv
<1>1. Init => SerialInv
  BY DEF Init, SerialInv, Fresh, IdleSlot, DeadLetteredIsExhausted
<1>2. IInv /\ SerialInv /\ [Next]_vars => SerialInv'
  BY SerialStep
<1> QED
  BY <1>1, <1>2, InductiveInvariant, PTL DEF Spec

\* Handlers run one by one keep the whole transition table: the races are all
\* that is wrong with it.
THEOREM SerialHandlersObeyTheTable ==
  ASSUME NEW r, Request = {r} PROVE Spec => TransitionTableObeyed
<1>1. IInv /\ SerialInv /\ [Next]_vars => [\A t \in TaskId : StatusStep(t) => LegalStep(t)]_vars
  <2> SUFFICES ASSUME IInv, SerialInv, [Next]_vars, NEW t \in TaskId, StatusStep(t)
               PROVE  LegalStep(t)
    OBVIOUS
  <2>1. CASE RowInsert(t)
    BY <2>1 DEF RowInsert, LegalStep
  <2>2. CASE RowUpdate(r, t)
    <3>1. req[r].pc \notin {"idle", "create.insert"}
      BY <2>2 DEF RowUpdate, Idle, IInv, SlotsSound, SlotSound
    <3>3. req[r].seen = task[t].status
      BY <2>2, <3>1 DEF RowUpdate, SerialInv, Fresh
    <3> QED
      BY <2>2, <3>3 DEF RowUpdate, StatusStep, Entitled, LegalStep, CanTransition
  <2>3. RowInsert(t) \/ RowUpdate(r, t)
    BY StepEffect DEF StatusStep, OnlyRow
  <2> QED
    BY <2>1, <2>2, <2>3
<1> QED
  BY <1>1, InductiveInvariant, SerialInvariant, PTL DEF Spec, TransitionTableObeyed

\* Handlers run one by one dead-letter a task only past its own retry limit.
THEOREM SerialDeadLettersAreExhausted ==
  ASSUME NEW r, Request = {r} PROVE Spec => []DeadLetteredIsExhausted
<1>1. SerialInv => DeadLetteredIsExhausted
  BY DEF SerialInv
<1> QED
  BY <1>1, SerialInvariant, PTL
=============================================================================
