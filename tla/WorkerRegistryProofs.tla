------------------------ MODULE WorkerRegistryProofs ------------------------
(***************************************************************************)
(* Theorems about WorkerRegistry, for any number of processes and any      *)
(* periods: which rows a sweep may mark OFFLINE, for how long a live       *)
(* worker can be shown OFFLINE, and how soon a dead one is.                *)
(***************************************************************************)
EXTENDS WorkerRegistry, TLAPS

-----------------------------------------------------------------------------
(* Types                                                                    *)

LEMMA OlderType == ASSUME NEW n \in 0..Oldest PROVE Older(n) \in 0..Oldest
BY RegistryAssumption DEF Older, Oldest

LEMMA RowTypes ==
  /\ [status |-> "ABSENT", age |-> 0] \in Row /\ [status |-> "ONLINE", age |-> 0] \in Row
  /\ \A r \in Row : /\ [r EXCEPT !.status = "OFFLINE"] \in Row
                    /\ [r EXCEPT !.age = Older(@)] \in Row
BY RegistryAssumption, OlderType DEF Row, WorkerStatus, Oldest

LEMMA RecordedType == ASSUME NEW r, NEW b \in Beat, NEW busy PROVE Recorded(r, b, busy) \in Row
BY RegistryAssumption DEF Recorded, Row, Beat, WorkerStatus, Oldest

LEMMA WatchType == ASSUME off \in [Process -> Nat], Watch PROVE off' \in [Process -> Nat]
BY DEF Watch

\* Every step but a tick counts nothing up.
OffSound == \A p \in Process : ~ShownWrong(p) => off[p] = 0

LEMMA InitType == RegistryInit => RegistryTypeOK /\ OffSound
BY RegistryAssumption, RowTypes DEF RegistryInit, RegistryTypeOK, OffSound, Sweep, NoSweep

LEMMA ProcessType ==
  ASSUME RegistryTypeOK, NEW p \in Process,
         StartProcess(p) \/ RegisterWorker(p) \/ Connected(p) \/ Gone(p) \/ SendHeartbeat(p)
  PROVE  RegistryTypeOK' /\ Watch
<1>1. NameOf[p] \in Name
  BY RegistryAssumption
<1>2. CASE StartProcess(p)
  BY <1>2, WatchType DEF StartProcess, RegistryTypeOK
<1>3. CASE RegisterWorker(p)
  BY <1>1, <1>3, WatchType, RowTypes DEF RegisterWorker, RegistryTypeOK
<1>4. CASE Connected(p)
  BY <1>4, WatchType, RegistryAssumption DEF Connected, RegistryTypeOK
<1>5. CASE Gone(p)
  BY <1>5, WatchType, RegistryAssumption DEF Gone, RegistryTypeOK
<1>6. CASE SendHeartbeat(p)
  <2>1. [from |-> p, pc |-> "sent", waited |-> 0, stamp |-> 0] \in Beat
    BY <1>1, RegistryAssumption DEF Beat
  <2> QED BY <1>6, <2>1, WatchType, RegistryAssumption DEF SendHeartbeat, RegistryTypeOK
<1> QED BY <1>2, <1>3, <1>4, <1>5, <1>6

LEMMA HeartbeatType ==
  ASSUME RegistryTypeOK, NEW b \in beats,
         HeartbeatRead(b) \/ HeartbeatWrite(b) \/ HeartbeatLost(b)
  PROVE  RegistryTypeOK' /\ Watch
<1>1. b \in Beat /\ NameOf[b.from] \in Name
  BY RegistryAssumption DEF RegistryTypeOK, Beat
<1>2. CASE HeartbeatRead(b)
  <2>1. [b EXCEPT !.pc = "writing"] \in Beat
    BY <1>1 DEF Beat
  <2> QED BY <1>2, <2>1, WatchType DEF HeartbeatRead, RegistryTypeOK
<1>3. CASE HeartbeatWrite(b)
  BY <1>1, <1>3, WatchType, RecordedType DEF HeartbeatWrite, RegistryTypeOK
<1>4. CASE HeartbeatLost(b)
  BY <1>4, WatchType, RegistryAssumption DEF HeartbeatLost, RegistryTypeOK
<1> QED BY <1>2, <1>3, <1>4

LEMMA SweepType ==
  ASSUME RegistryTypeOK, SweepRead \/ SweepWrite \/ SweepFails
  PROVE  RegistryTypeOK' /\ Watch
<1>1. NoSweep \in Sweep /\ [pc |-> "writing", stale |-> StaleRows, waited |-> 0] \in Sweep
  BY RegistryAssumption DEF NoSweep, Sweep, StaleRows
<1>2. CASE SweepRead
  BY <1>1, <1>2, WatchType, RegistryAssumption DEF SweepRead, RegistryTypeOK
<1>3. CASE SweepWrite
  BY <1>1, <1>3, WatchType, RowTypes DEF SweepWrite, RegistryTypeOK
<1>4. CASE SweepFails
  BY <1>1, <1>4, WatchType, RegistryAssumption DEF SweepFails, RegistryTypeOK
<1> QED BY <1>2, <1>3, <1>4

\* A heartbeat one tick later.
Aged(b) == [b EXCEPT !.waited = @ + 1, !.stamp = IF b.pc = "writing" THEN @ + 1 ELSE 0]

\* An update has not been under way for longer than the whole call.
StampsSound == \A b \in beats : b.stamp <= b.waited

LEMMA TickType ==
  ASSUME RegistryTypeOK, StampsSound, Tick PROVE RegistryTypeOK'
<1>1. row' \in [Name -> Row]
  BY RowTypes DEF Tick, RegistryTypeOK
<1>2. \A b \in beats : Aged(b) \in Beat
  <2> SUFFICES ASSUME NEW b \in beats PROVE Aged(b) \in Beat
    OBVIOUS
  <2>1. b \in Beat /\ b.waited < Latency /\ b.stamp <= b.waited
    BY DEF Tick, RegistryTypeOK, StampsSound
  <2>2. b.waited + 1 \in 0..Latency /\ (IF b.pc = "writing" THEN b.stamp + 1 ELSE 0) \in 0..Latency
    BY <2>1, RegistryAssumption DEF Beat
  <2> QED BY <2>1, <2>2 DEF Beat, Aged
<1>3. beats' \subseteq Beat
  BY <1>2 DEF Tick, Aged
<1>4. sweep' \in Sweep
  <2>1. sweep \in Sweep /\ (sweep.pc = "writing" => sweep.waited < Latency)
    BY DEF Tick, RegistryTypeOK
  <2>2. sweep.pc = "writing" => sweep.waited + 1 \in 0..Latency
    BY <2>1, RegistryAssumption DEF Sweep
  <2>3. sweep' = IF sweep.pc = "writing" THEN [sweep EXCEPT !.waited = @ + 1] ELSE sweep
    BY DEF Tick
  <2> QED BY <2>1, <2>2, <2>3 DEF Sweep
<1>5. timer' \in [Process -> 0..Interval]
  <2>1. timer' = [p \in Process |-> IF timer[p] > 0 THEN timer[p] - 1 ELSE 0]
    BY DEF Tick
  <2> QED BY <2>1, RegistryAssumption DEF RegistryTypeOK
<1>6. cron' \in 0..Period
  <2>1. cron > 0 /\ cron' = cron - 1 /\ cron \in 0..Period
    BY DEF Tick, RegistryTypeOK
  <2> QED BY <2>1, RegistryAssumption
<1>7. off' \in [Process -> Nat]
  <2>1. off' = [p \in Process |-> IF ShownWrong(p) THEN off[p] + 1 ELSE 0]
    BY DEF Tick
  <2> QED BY <2>1 DEF RegistryTypeOK
<1> QED BY <1>1, <1>3, <1>4, <1>5, <1>6, <1>7 DEF Tick, RegistryTypeOK
-----------------------------------------------------------------------------
(* Type correctness, and what a sweep under way may still do                *)

\* While a sweep is under way the next one is not due, and what it has read as
\* stale is stale still, or was refreshed since.
SweepSound ==
  sweep.pc = "writing" =>
    /\ sweep.waited + cron = Period
    /\ \A n \in sweep.stale : row[n].age > Timeout \/ row[n].age <= sweep.waited + Latency

IInv == RegistryTypeOK /\ StampsSound /\ OffSound /\ SweepSound

LEMMA WatchSound ==
  ASSUME RegistryTypeOK, OffSound, Watch
  PROVE  /\ OffSound'
         /\ \A p \in Process : /\ off'[p] <= off[p]
                               /\ ~ShownWrong(p) => off'[p] = 0
                               /\ ~ShownWrong(p)' => off'[p] = 0
<1>1. \A p \in Process : off'[p] = IF ShownWrong(p)' THEN off[p] ELSE 0
  BY DEF Watch
<1> QED BY <1>1 DEF OffSound, RegistryTypeOK

LEMMA OlderBounds ==
  ASSUME NEW n \in 0..Oldest
  PROVE  /\ Older(n) <= n + 1 /\ n <= Older(n)
         /\ n <= Timeout => Older(n) = n + 1
BY RegistryAssumption DEF Older, Oldest

LEMMA InitInv == RegistryInit => IInv
<1> SUFFICES ASSUME RegistryInit PROVE IInv
  OBVIOUS
<1>1. StampsSound /\ SweepSound
  BY DEF RegistryInit, StampsSound, SweepSound, NoSweep
<1> QED BY <1>1, InitType DEF IInv

\* What a process does refreshes rows or leaves them alone.
LEMMA ProcessInv ==
  ASSUME IInv, NEW p \in Process,
         StartProcess(p) \/ RegisterWorker(p) \/ Connected(p) \/ Gone(p) \/ SendHeartbeat(p)
  PROVE  IInv'
<1>1. RegistryTypeOK' /\ OffSound'
  BY ProcessType, WatchSound DEF IInv
<1>2. StampsSound'
  <2>1. CASE SendHeartbeat(p)
    <3>1. beats' = beats \cup {[from |-> p, pc |-> "sent", waited |-> 0, stamp |-> 0]}
      BY <2>1 DEF SendHeartbeat
    <3> QED BY <3>1 DEF IInv, StampsSound
  <2>2. CASE beats' = beats
    BY <2>2 DEF IInv, StampsSound
  <2> QED BY <2>1, <2>2 DEF StartProcess, RegisterWorker, Connected, Gone
<1>3. SweepSound'
  <2>1. UNCHANGED <<sweep, cron>>
    BY DEF StartProcess, RegisterWorker, Connected, Gone, SendHeartbeat
  <2>2. CASE RegisterWorker(p)
    <3>1. row' = [row EXCEPT ![NameOf[p]] = [status |-> "ONLINE", age |-> 0]]
      BY <2>2 DEF RegisterWorker
    <3>2. sweep.stale \subseteq Name /\ sweep.waited \in Nat /\ Latency \in Nat
      BY RegistryAssumption DEF IInv, RegistryTypeOK, Sweep
    <3> QED BY <2>1, <3>1, <3>2 DEF IInv, SweepSound, RegistryTypeOK
  <2>3. CASE row' = row
    BY <2>1, <2>3 DEF IInv, SweepSound
  <2> QED BY <2>2, <2>3 DEF StartProcess, Connected, Gone, SendHeartbeat
<1> QED BY <1>1, <1>2, <1>3 DEF IInv

LEMMA HeartbeatInv ==
  ASSUME IInv, NEW b \in beats,
         HeartbeatRead(b) \/ HeartbeatWrite(b) \/ HeartbeatLost(b)
  PROVE  IInv'
<1>1. RegistryTypeOK' /\ OffSound'
  BY HeartbeatType, WatchSound DEF IInv
<1>2. b \in Beat /\ b.stamp <= b.waited
  BY DEF IInv, RegistryTypeOK, StampsSound
<1>3. StampsSound'
  <2>1. CASE HeartbeatRead(b)
    <3>1. [b EXCEPT !.pc = "writing"].stamp <= [b EXCEPT !.pc = "writing"].waited
      BY <1>2 DEF Beat
    <3> QED BY <2>1, <3>1 DEF HeartbeatRead, IInv, StampsSound
  <2>2. CASE beats' = beats \ {b}
    BY <2>2 DEF IInv, StampsSound
  <2> QED BY <2>1, <2>2 DEF HeartbeatWrite, HeartbeatLost
<1>4. SweepSound'
  <2>1. UNCHANGED <<sweep, cron>>
    BY DEF HeartbeatRead, HeartbeatWrite, HeartbeatLost
  <2>2. CASE HeartbeatWrite(b)
    <3>1. PICK busy \in BOOLEAN : row' = [row EXCEPT ![NameOf[b.from]] = Recorded(@, b, busy)]
      BY <2>2 DEF HeartbeatWrite
    <3>2. \A r : Recorded(r, b, busy).age \in 0..Latency
      BY <1>2 DEF Recorded, Beat
    <3>3. sweep.stale \subseteq Name /\ sweep.waited \in Nat /\ Latency \in Nat
      BY RegistryAssumption DEF IInv, RegistryTypeOK, Sweep
    <3>4. \A n \in sweep.stale : row'[n].age = row[n].age \/ row'[n].age \in 0..Latency
      BY <3>1, <3>2, <3>3 DEF IInv, RegistryTypeOK
    <3> QED BY <2>1, <3>3, <3>4 DEF IInv, SweepSound
  <2>3. CASE row' = row
    BY <2>1, <2>3 DEF IInv, SweepSound
  <2> QED BY <2>2, <2>3 DEF HeartbeatRead, HeartbeatLost
<1> QED BY <1>1, <1>3, <1>4 DEF IInv

LEMMA SweepInv ==
  ASSUME IInv, SweepRead \/ SweepWrite \/ SweepFails
  PROVE  IInv'
<1>1. RegistryTypeOK' /\ OffSound'
  BY SweepType, WatchSound DEF IInv
<1>2. StampsSound'
  BY DEF SweepRead, SweepWrite, SweepFails, IInv, StampsSound
<1>3. SweepSound'
  <2>1. CASE SweepRead
    <3>1. Period \in Nat
      BY RegistryAssumption
    <3> QED BY <2>1, <3>1 DEF SweepRead, SweepSound, StaleRows, NoSweep
  <2>2. CASE sweep' = NoSweep
    BY <2>2 DEF SweepSound, NoSweep
  <2> QED BY <2>1, <2>2 DEF SweepWrite, SweepFails
<1> QED BY <1>1, <1>2, <1>3 DEF IInv

LEMMA TickInv ==
  ASSUME IInv, Tick PROVE IInv'
<1>1. RegistryTypeOK'
  BY TickType DEF IInv
<1>2. StampsSound'
  <2>1. \A b \in beats : Aged(b).stamp <= Aged(b).waited
    <3> SUFFICES ASSUME NEW b \in beats PROVE Aged(b).stamp <= Aged(b).waited
      OBVIOUS
    <3>1. b \in Beat /\ b.stamp <= b.waited
      BY DEF IInv, RegistryTypeOK, StampsSound
    <3> QED BY <3>1, RegistryAssumption DEF Beat, Aged
  <2> QED BY <2>1 DEF Tick, StampsSound, Aged
<1>3. OffSound'
  <2>1. off' = [p \in Process |-> IF ShownWrong(p) THEN off[p] + 1 ELSE 0]
    BY DEF Tick
  <2>2. proc' = proc /\ \A n \in Name : row'[n].status = row[n].status
    BY DEF Tick, IInv, RegistryTypeOK, Row
  <2>3. \A p \in Process : ShownWrong(p)' <=> ShownWrong(p)
    BY <2>2, RegistryAssumption DEF ShownWrong, AllGone, Shown
  <2> QED BY <2>1, <2>3 DEF OffSound
<1>4. SweepSound'
  <2> SUFFICES ASSUME sweep'.pc = "writing" PROVE SweepSound'
    BY DEF SweepSound
  <2>1. sweep \in Sweep /\ sweep.pc = "writing" /\ sweep' = [sweep EXCEPT !.waited = @ + 1]
    BY DEF Tick, IInv, RegistryTypeOK
  <2>2. sweep'.waited = sweep.waited + 1 /\ sweep'.stale = sweep.stale
    BY <2>1 DEF Sweep
  <2>3. cron > 0 /\ cron' = cron - 1 /\ cron \in 0..Period
    BY DEF Tick, IInv, RegistryTypeOK
  <2>4. sweep'.waited + cron' = Period
    BY <2>1, <2>2, <2>3, RegistryAssumption DEF IInv, SweepSound, Sweep
  <2>5. ASSUME NEW n \in sweep.stale
        PROVE  row'[n].age > Timeout \/ row'[n].age <= sweep'.waited + Latency
    <3>1. n \in Name /\ row[n] \in Row /\ row'[n] = [row[n] EXCEPT !.age = Older(@)]
      BY <2>1 DEF Tick, IInv, RegistryTypeOK, Sweep
    <3>2. row[n].age \in 0..Oldest /\ row'[n].age = Older(row[n].age)
      BY <3>1 DEF Row
    <3>3. row[n].age > Timeout \/ row[n].age <= sweep.waited + Latency
      BY <2>1 DEF IInv, SweepSound
    <3>4. row'[n].age <= row[n].age + 1 /\ row[n].age <= row'[n].age /\ row'[n].age \in 0..Oldest
      BY <3>2, OlderBounds, OlderType
    <3>5. sweep.waited \in Nat /\ Latency \in Nat /\ Timeout \in Nat
      BY <2>1, RegistryAssumption DEF Sweep
    <3> QED BY <2>2, <3>2, <3>3, <3>4, <3>5, RegistryAssumption DEF Oldest
  <2> QED BY <2>2, <2>4, <2>5 DEF SweepSound
<1> QED BY <1>1, <1>2, <1>3, <1>4 DEF IInv

LEMMA StutterInv == ASSUME IInv, UNCHANGED registryVars PROVE IInv'
BY DEF registryVars, IInv, RegistryTypeOK, StampsSound, OffSound, SweepSound, ShownWrong, AllGone, Shown

LEMMA StepInv == IInv /\ [RegistryNext]_registryVars => IInv'
BY ProcessInv, HeartbeatInv, SweepInv, TickInv, StutterInv DEF RegistryNext

\* The registry holds what its tables and calls may hold.
THEOREM RegistryTypeCorrectness == RegistrySpec => []RegistryTypeOK
<1>1. IInv => RegistryTypeOK
  BY DEF IInv
<1> QED BY <1>1, InitInv, StepInv, PTL DEF RegistrySpec
-----------------------------------------------------------------------------
(* Which rows a sweep marks                                                 *)

MarksStaleRows ==
  \A n \in Name :
    row[n].status # "OFFLINE" /\ row'[n].status = "OFFLINE"
      => row[n].age > Timeout \/ row[n].age <= sweep.waited + Latency

LEMMA StepMarks == IInv /\ [RegistryNext]_registryVars => MarksStaleRows
<1> SUFFICES ASSUME IInv, [RegistryNext]_registryVars, NEW n \in Name,
                    row[n].status # "OFFLINE", row'[n].status = "OFFLINE"
             PROVE  row[n].age > Timeout \/ row[n].age <= sweep.waited + Latency
  BY DEF MarksStaleRows
<1>1. ~(row' = row)
  OBVIOUS
<1>2. ASSUME NEW p \in Process, RegisterWorker(p) PROVE FALSE
  <2>1. row' = [row EXCEPT ![NameOf[p]] = [status |-> "ONLINE", age |-> 0]]
    BY <1>2 DEF RegisterWorker
  <2> QED BY <2>1 DEF IInv, RegistryTypeOK
<1>3. ASSUME NEW b \in beats, HeartbeatWrite(b) PROVE FALSE
  <2>1. PICK busy \in BOOLEAN : row' = [row EXCEPT ![NameOf[b.from]] = Recorded(@, b, busy)]
    BY <1>3 DEF HeartbeatWrite
  <2>2. \A r : Recorded(r, b, busy).status # "OFFLINE"
    BY DEF Recorded
  <2> QED BY <2>1, <2>2 DEF IInv, RegistryTypeOK
<1>4. CASE SweepWrite
  <2>1. sweep.pc = "writing" /\ row' = [m \in Name |->
          IF m \in sweep.stale THEN [row[m] EXCEPT !.status = "OFFLINE"] ELSE row[m]]
    BY <1>4 DEF SweepWrite
  <2>2. n \in sweep.stale
    BY <2>1
  <2> QED BY <2>1, <2>2 DEF IInv, SweepSound
<1>5. CASE Tick
  <2>1. row' = [m \in Name |-> [row[m] EXCEPT !.age = Older(@)]]
    BY <1>5 DEF Tick
  <2>2. row[n] \in Row
    BY DEF IInv, RegistryTypeOK
  <2> QED BY <2>1, <2>2 DEF Row
<1> QED BY <1>1, <1>2, <1>3, <1>4, <1>5
    DEF RegistryNext, registryVars, StartProcess, Connected, Gone, SendHeartbeat, HeartbeatRead,
        HeartbeatLost, SweepRead, SweepFails

\* A sweep marks OFFLINE only what has been silent for the whole timeout, or was
\* heard of while the sweep was under way.
THEOREM SweepsMarkStaleRows == RegistrySpec => SweepMarksStaleRows
<1>1. RegistrySpec => [][MarksStaleRows]_registryVars
  BY InitInv, StepInv, StepMarks, PTL DEF RegistrySpec
<1> QED BY <1>1 DEF SweepMarksStaleRows, MarksStaleRows
-----------------------------------------------------------------------------
(* Live workers                                                             *)

\* How long lost heartbeats may keep a live worker OFFLINE.
LossAllowance == (lost + 1) * Interval

\* A heartbeat of the name of p that has taken a whole interval, as long as any may:
\* it ends before the clock goes on, and the next one has been sent meanwhile.
LastMoment(p) ==
  \E b \in beats :
    /\ NameOf[b.from] = NameOf[p] /\ b.waited = Interval /\ timer[p] = Interval
    /\ off[p] <= LossAllowance + Interval
    /\ \/ off[p] <= LossAllowance
       \/ \E c \in beats : NameOf[c.from] = NameOf[p] /\ c.waited = 0

\* A live worker shown OFFLINE has a heartbeat due in time, or one under way
\* that was sent in time.
LiveSound(p) ==
  proc[p] = "up" /\ Shown(p) = "OFFLINE" =>
    \/ off[p] + timer[p] <= LossAllowance
    \/ \E b \in beats : /\ NameOf[b.from] = NameOf[p] /\ off[p] <= LossAllowance + b.waited
                        /\ b.waited + timer[p] = Interval
    \/ LastMoment(p)

LiveInv == IInv /\ \A p \in Process : LiveSound(p)

LEMMA Multiples ==
  ASSUME NEW n \in Nat, NEW d \in Nat
  PROVE  /\ (n + 1) * d \in Nat /\ d <= (n + 1) * d
         /\ ((n + 1) + 1) * d = (n + 1) * d + d
<1>1. n * d \in Nat /\ (n + 1) * d = n * d + d
  OBVIOUS
<1>2. ((n + 1) + 1) * d = (n + 1) * d + d
  OBVIOUS
<1> QED BY <1>1, <1>2

\* A worker that is marked OFFLINE right now, or starts to be up, counts from zero.
LEMMA LiveFromZero ==
  ASSUME RegistryTypeOK', NEW p \in Process, off'[p] = 0 PROVE LiveSound(p)'
<1>1. timer'[p] \in 0..Interval
  BY DEF RegistryTypeOK
<1>2. Interval \in Nat /\ lost' \in Nat
  BY RegistryAssumption DEF RegistryTypeOK
<1>3. LossAllowance' \in Nat /\ Interval <= LossAllowance'
  BY <1>2, Multiples DEF LossAllowance
<1>4. off'[p] + timer'[p] <= LossAllowance'
  BY <1>1, <1>2, <1>3
<1> QED BY <1>4 DEF LiveSound

\* A step that loses no heartbeat and leaves a process, its row and its timer alone.
LEMMA LiveKept ==
  ASSUME LiveInv, RegistryTypeOK', NEW p \in Process,
         proc'[p] = proc[p], Shown(p)' = Shown(p), timer'[p] = timer[p], off'[p] <= off[p],
         lost' = lost,
         \A b \in beats : NameOf[b.from] = NameOf[p] =>
           \E c \in beats' : NameOf[c.from] = NameOf[p] /\ c.waited = b.waited
  PROVE  LiveSound(p)'
<1> SUFFICES ASSUME proc[p] = "up", Shown(p) = "OFFLINE"
             PROVE  \/ off'[p] + timer'[p] <= LossAllowance'
                    \/ \E c \in beats' : /\ NameOf[c.from] = NameOf[p] /\ off'[p] <= LossAllowance' + c.waited
                                         /\ c.waited + timer'[p] = Interval
                    \/ LastMoment(p)'
  BY DEF LiveSound
<1>1. LossAllowance' = LossAllowance /\ LossAllowance \in Nat
  BY RegistryAssumption, Multiples DEF LossAllowance, LiveInv, IInv, RegistryTypeOK
<1>2. off[p] \in Nat /\ off'[p] \in Nat /\ timer[p] \in Nat
  BY RegistryAssumption DEF LiveInv, IInv, RegistryTypeOK
<1>3. CASE off[p] + timer[p] <= LossAllowance
  BY <1>1, <1>2, <1>3
<1>4. CASE \E b \in beats : /\ NameOf[b.from] = NameOf[p] /\ off[p] <= LossAllowance + b.waited
                            /\ b.waited + timer[p] = Interval
  <2>1. PICK b \in beats : /\ NameOf[b.from] = NameOf[p] /\ off[p] <= LossAllowance + b.waited
                           /\ b.waited + timer[p] = Interval
    BY <1>4
  <2>2. PICK c \in beats' : NameOf[c.from] = NameOf[p] /\ c.waited = b.waited
    BY <2>1
  <2>3. b.waited \in Nat
    BY RegistryAssumption DEF LiveInv, IInv, RegistryTypeOK, Beat
  <2>4. off'[p] <= LossAllowance' + c.waited
    BY <1>1, <1>2, <2>1, <2>2, <2>3
  <2> QED BY <2>1, <2>2, <2>4
<1>5. CASE LastMoment(p)
  <2>1. PICK b \in beats :
          /\ NameOf[b.from] = NameOf[p] /\ b.waited = Interval /\ timer[p] = Interval
          /\ off[p] <= LossAllowance + Interval
          /\ \/ off[p] <= LossAllowance
             \/ \E c \in beats : NameOf[c.from] = NameOf[p] /\ c.waited = 0
    BY <1>5 DEF LastMoment
  <2>2. PICK d \in beats' : NameOf[d.from] = NameOf[p] /\ d.waited = Interval
    BY <2>1
  <2>3. off'[p] <= LossAllowance' + Interval /\ (off[p] <= LossAllowance => off'[p] <= LossAllowance')
    BY <1>1, <1>2, <2>1, RegistryAssumption
  <2>4. (\E c \in beats : NameOf[c.from] = NameOf[p] /\ c.waited = 0)
          => \E c \in beats' : NameOf[c.from] = NameOf[p] /\ c.waited = 0
    OBVIOUS
  <2> QED BY <2>1, <2>2, <2>3, <2>4 DEF LastMoment
<1> QED BY <1>3, <1>4, <1>5 DEF LiveInv, LiveSound

\* The next heartbeat of a live worker is under way when the interval is over: one that
\* is under way still was sent a whole interval ago.
LEMMA LiveSend ==
  ASSUME LiveInv, RegistryTypeOK', Latency <= Interval, NEW p \in Process, SendHeartbeat(p),
         off'[p] <= off[p]
  PROVE  LiveSound(p)'
<1>1. /\ timer[p] = 0 /\ timer'[p] = Interval /\ UNCHANGED <<row, proc, lost>>
      /\ beats \subseteq beats'
  BY DEF SendHeartbeat, LiveInv, IInv, RegistryTypeOK
<1>2. PICK c \in beats' : NameOf[c.from] = NameOf[p] /\ c.waited = 0
  <2> DEFINE d == [from |-> p, pc |-> "sent", waited |-> 0, stamp |-> 0]
  <2>1. beats' = beats \cup {d}
    BY DEF SendHeartbeat
  <2>2. d \in beats' /\ NameOf[d.from] = NameOf[p] /\ d.waited = 0
    BY <2>1
  <2> QED BY <2>2
<1>3. /\ off[p] \in Nat /\ off'[p] \in Nat /\ lost \in Nat /\ Interval \in Nat \ {0}
      /\ Latency \in Nat
  BY RegistryAssumption DEF LiveInv, IInv, RegistryTypeOK
<1>4. LossAllowance' = LossAllowance /\ LossAllowance \in Nat
  BY <1>1, <1>3, Multiples DEF LossAllowance
<1>5. proc' = proc /\ Shown(p)' = Shown(p)
  BY <1>1 DEF Shown
<1>6. SUFFICES ASSUME proc[p] = "up", Shown(p) = "OFFLINE" PROVE LiveSound(p)'
  BY <1>5 DEF LiveSound
<1>7. CASE off[p] + timer[p] <= LossAllowance
  <2>1. off'[p] <= LossAllowance' + c.waited /\ c.waited + timer'[p] = Interval
    BY <1>1, <1>2, <1>3, <1>4, <1>7
  <2> QED BY <1>2, <2>1 DEF LiveSound
<1>8. CASE \E b \in beats : /\ NameOf[b.from] = NameOf[p] /\ off[p] <= LossAllowance + b.waited
                            /\ b.waited + timer[p] = Interval
  <2>1. PICK b \in beats : /\ NameOf[b.from] = NameOf[p] /\ off[p] <= LossAllowance + b.waited
                           /\ b.waited + timer[p] = Interval
    BY <1>8
  <2>2. b.waited \in Nat
    BY <1>3 DEF LiveInv, IInv, RegistryTypeOK, Beat
  <2>3. b.waited = Interval /\ off'[p] <= LossAllowance' + Interval
    BY <1>1, <1>3, <1>4, <2>1, <2>2
  <2>4. LastMoment(p)'
    BY <1>1, <1>2, <2>1, <2>3 DEF LastMoment
  <2> QED BY <2>4 DEF LiveSound
<1>9. CASE LastMoment(p)
  BY <1>1, <1>3, <1>9 DEF LastMoment
<1> QED BY <1>6, <1>7, <1>8, <1>9 DEF LiveInv, LiveSound

LEMMA LiveProcess ==
  ASSUME LiveInv, Latency <= Interval, NEW p \in Process, NEW q \in Process,
         StartProcess(q) \/ RegisterWorker(q) \/ Connected(q) \/ Gone(q) \/ SendHeartbeat(q)
  PROVE  LiveSound(p)'
<1>1. RegistryTypeOK' /\ off'[p] <= off[p] /\ (~ShownWrong(p) => off'[p] = 0)
  BY ProcessType, WatchSound DEF LiveInv, IInv
<1>2. NameOf[p] \in Name /\ NameOf[q] \in Name
  BY RegistryAssumption
<1>3. CASE ~(proc[p] = "up" /\ Shown(p) = "OFFLINE")
  <2>1. CASE ~ShownWrong(p)
    BY <1>1, <2>1, LiveFromZero
  <2>2. CASE AllGone(p)
    <3>1. proc'[p] # "up"
      BY <2>2 DEF AllGone, StartProcess, RegisterWorker, Connected, Gone, SendHeartbeat, LiveInv, IInv, RegistryTypeOK
    <3> QED BY <3>1 DEF LiveSound
  <2> QED BY <1>3, <2>1, <2>2 DEF ShownWrong
<1>4. CASE proc[p] = "up" /\ Shown(p) = "OFFLINE"
  <2>1. CASE q = p
    <3>1. CASE SendHeartbeat(p)
      BY <1>1, <3>1, LiveSend
    <3>2. CASE Gone(p)
      BY <3>2 DEF Gone, LiveSound, LiveInv, IInv, RegistryTypeOK
    <3> QED BY <1>4, <2>1, <3>1, <3>2 DEF StartProcess, RegisterWorker, Connected
  <2>2. CASE q # p
    <3>1. proc'[p] = proc[p] /\ timer'[p] = timer[p] /\ lost' = lost
      BY <2>2 DEF StartProcess, RegisterWorker, Connected, Gone, SendHeartbeat, LiveInv, IInv, RegistryTypeOK
    <3>2. \A b \in beats : b \in beats'
      BY DEF StartProcess, RegisterWorker, Connected, Gone, SendHeartbeat
    <3>3. CASE Shown(p)' = Shown(p)
      BY <1>1, <3>1, <3>2, <3>3, LiveKept
    <3>4. CASE RegisterWorker(q) /\ NameOf[p] = NameOf[q]
      <4>1. row' = [row EXCEPT ![NameOf[p]] = [status |-> "ONLINE", age |-> 0]]
        BY <3>4 DEF RegisterWorker
      <4>2. Shown(p)' # "OFFLINE"
        BY <1>2, <4>1 DEF Shown, LiveInv, IInv, RegistryTypeOK
      <4> QED BY <4>2 DEF LiveSound
    <3>5. CASE RegisterWorker(q) /\ NameOf[p] # NameOf[q]
      <4>1. row' = [row EXCEPT ![NameOf[q]] = [status |-> "ONLINE", age |-> 0]]
        BY <3>5 DEF RegisterWorker
      <4>2. Shown(p)' = Shown(p)
        BY <1>2, <3>5, <4>1 DEF Shown, LiveInv, IInv, RegistryTypeOK
      <4> QED BY <3>3, <4>2
    <3>6. CASE row' = row
      <4>1. Shown(p)' = Shown(p)
        BY <3>6 DEF Shown
      <4> QED BY <3>3, <4>1
    <3> QED BY <3>4, <3>5, <3>6 DEF StartProcess, RegisterWorker, Connected, Gone, SendHeartbeat
  <2> QED BY <2>1, <2>2
<1> QED BY <1>3, <1>4

\* Recorded, lost or only read: without it, the next heartbeat must be due.
LEMMA LiveLost ==
  ASSUME LiveInv, RegistryTypeOK', NEW p \in Process, NEW b \in beats, HeartbeatLost(b),
         off'[p] <= off[p], proc[p] = "up", Shown(p) = "OFFLINE"
  PROVE  LiveSound(p)'
<1>1. lost' = lost + 1 /\ timer' = timer /\ beats' = beats \ {b}
  BY DEF HeartbeatLost
<1>2. /\ off[p] \in Nat /\ off'[p] \in Nat /\ timer[p] \in Nat /\ lost \in Nat /\ Interval \in Nat
      /\ \A c \in beats : c.waited \in Nat
  BY RegistryAssumption DEF LiveInv, IInv, RegistryTypeOK, Beat
<1>3. LossAllowance \in Nat /\ LossAllowance' = LossAllowance + Interval
  BY <1>1, <1>2, Multiples DEF LossAllowance
<1>4. CASE off[p] + timer[p] <= LossAllowance
  <2>1. off'[p] + timer'[p] <= LossAllowance'
    BY <1>1, <1>2, <1>3, <1>4
  <2> QED BY <2>1 DEF LiveSound
<1>5. CASE \E c \in beats : /\ NameOf[c.from] = NameOf[p] /\ off[p] <= LossAllowance + c.waited
                            /\ c.waited + timer[p] = Interval
  <2>1. PICK c \in beats : off[p] <= LossAllowance + c.waited /\ c.waited + timer[p] = Interval
    BY <1>5
  <2>2. off'[p] + timer'[p] <= LossAllowance'
    BY <1>1, <1>2, <1>3, <2>1
  <2> QED BY <2>2 DEF LiveSound
<1>6. CASE LastMoment(p)
  <2>1. PICK d \in beats :
          /\ NameOf[d.from] = NameOf[p] /\ d.waited = Interval /\ timer[p] = Interval
          /\ off[p] <= LossAllowance + Interval
          /\ \/ off[p] <= LossAllowance
             \/ \E c \in beats : NameOf[c.from] = NameOf[p] /\ c.waited = 0
    BY <1>6 DEF LastMoment
  <2>2. off'[p] <= LossAllowance' /\ timer'[p] = Interval
    BY <1>1, <1>2, <1>3, <2>1
  <2>3. CASE b # d
    <3>1. d \in beats' /\ off'[p] <= LossAllowance' + Interval
      BY <1>1, <1>2, <1>3, <2>2, <2>3
    <3> QED BY <2>1, <2>2, <3>1 DEF LiveSound, LastMoment
  <2>4. CASE off[p] <= LossAllowance
    <3>1. off'[p] + timer'[p] <= LossAllowance'
      BY <1>1, <1>2, <1>3, <2>1, <2>4
    <3> QED BY <3>1 DEF LiveSound
  <2>5. ASSUME b = d, NEW c \in beats, NameOf[c.from] = NameOf[p], c.waited = 0 PROVE LiveSound(p)'
    <3>1. c \in beats'
      BY <1>1, <2>1, <2>5, RegistryAssumption
    <3>2. off'[p] <= LossAllowance' + c.waited /\ c.waited + timer'[p] = Interval
      BY <1>2, <1>3, <2>2, <2>5
    <3> QED BY <2>5, <3>1, <3>2 DEF LiveSound
  <2> QED BY <2>1, <2>3, <2>4, <2>5
<1> QED BY <1>4, <1>5, <1>6 DEF LiveInv, LiveSound

LEMMA LiveHeartbeat ==
  ASSUME LiveInv, NEW p \in Process, NEW b \in beats,
         HeartbeatRead(b) \/ HeartbeatWrite(b) \/ HeartbeatLost(b)
  PROVE  LiveSound(p)'
<1>1. RegistryTypeOK' /\ off'[p] <= off[p] /\ (~ShownWrong(p) => off'[p] = 0)
  BY HeartbeatType, WatchSound DEF LiveInv, IInv
<1>2. b \in Beat /\ NameOf[b.from] \in Name /\ NameOf[p] \in Name
  BY RegistryAssumption DEF LiveInv, IInv, RegistryTypeOK, Beat
<1>3. UNCHANGED <<proc, timer>>
  BY DEF HeartbeatRead, HeartbeatWrite, HeartbeatLost
<1>4. CASE ~ShownWrong(p)
  BY <1>1, <1>4, LiveFromZero
<1>5. CASE proc[p] # "up"
  BY <1>3, <1>5 DEF LiveSound
<1>6. CASE proc[p] = "up" /\ Shown(p) = "OFFLINE"
  <2>1. CASE HeartbeatRead(b)
    <3>1. row' = row /\ lost' = lost /\ beats' = (beats \ {b}) \cup {[b EXCEPT !.pc = "writing"]}
      BY <2>1 DEF HeartbeatRead
    <3>2. NameOf[[b EXCEPT !.pc = "writing"].from] = NameOf[b.from] /\ [b EXCEPT !.pc = "writing"].waited = b.waited
      BY <1>2 DEF Beat
    <3>3. \A c \in beats : \E d \in beats' : NameOf[d.from] = NameOf[c.from] /\ d.waited = c.waited
      BY <3>1, <3>2
    <3>4. Shown(p)' = Shown(p)
      BY <3>1 DEF Shown
    <3> QED BY <1>1, <1>3, <3>1, <3>3, <3>4, LiveKept
  <2>2. CASE HeartbeatWrite(b)
    <3>1. PICK busy \in BOOLEAN :
            /\ row' = [row EXCEPT ![NameOf[b.from]] = Recorded(@, b, busy)]
            /\ beats' = beats \ {b} /\ lost' = lost
      BY <2>2 DEF HeartbeatWrite
    <3>2. CASE NameOf[b.from] = NameOf[p]
      <4>1. \A r : Recorded(r, b, busy).status # "OFFLINE"
        BY DEF Recorded
      <4>2. Shown(p)' # "OFFLINE"
        BY <1>2, <3>1, <3>2, <4>1 DEF Shown, LiveInv, IInv, RegistryTypeOK
      <4> QED BY <4>2 DEF LiveSound
    <3>3. CASE NameOf[b.from] # NameOf[p]
      <4>1. Shown(p)' = Shown(p)
        BY <1>2, <3>1, <3>3 DEF Shown, LiveInv, IInv, RegistryTypeOK
      <4>2. \A c \in beats : NameOf[c.from] = NameOf[p] => c \in beats'
        BY <3>1, <3>3
      <4> QED BY <1>1, <1>3, <3>1, <4>1, <4>2, LiveKept
    <3> QED BY <3>2, <3>3
  <2>3. CASE HeartbeatLost(b)
    BY <1>1, <1>6, <2>3, LiveLost
  <2> QED BY <2>1, <2>2, <2>3
<1> QED BY <1>4, <1>5, <1>6 DEF ShownWrong, AllGone

LEMMA LiveSweep ==
  ASSUME LiveInv, NEW p \in Process, SweepRead \/ SweepWrite \/ SweepFails
  PROVE  LiveSound(p)'
<1>1. RegistryTypeOK' /\ off'[p] <= off[p] /\ (~ShownWrong(p) => off'[p] = 0)
  BY SweepType, WatchSound DEF LiveInv, IInv
<1>2. UNCHANGED <<proc, timer, beats, lost>>
  BY DEF SweepRead, SweepWrite, SweepFails
<1>3. CASE ~ShownWrong(p)
  BY <1>1, <1>3, LiveFromZero
<1>4. CASE proc[p] # "up"
  BY <1>2, <1>4 DEF LiveSound
<1>5. CASE Shown(p) = "OFFLINE"
  <2>1. Shown(p)' = Shown(p)
    <3>1. CASE SweepWrite
      <4>1. row' = [n \in Name |-> IF n \in sweep.stale THEN [row[n] EXCEPT !.status = "OFFLINE"] ELSE row[n]]
        BY <3>1 DEF SweepWrite
      <4>2. NameOf[p] \in Name /\ row[NameOf[p]] \in Row
        BY RegistryAssumption DEF LiveInv, IInv, RegistryTypeOK
      <4> QED BY <1>5, <4>1, <4>2 DEF Shown, Row
    <3>2. CASE row' = row
      BY <3>2 DEF Shown
    <3> QED BY <3>1, <3>2 DEF SweepRead, SweepFails
  <2> QED BY <1>1, <1>2, <2>1, LiveKept
<1> QED BY <1>3, <1>4, <1>5 DEF ShownWrong, AllGone

\* A tick brings the next heartbeat as much nearer as it makes the row older.
LEMMA LiveTick ==
  ASSUME LiveInv, RegistryTypeOK', Latency <= Interval, Tick, NEW p \in Process
  PROVE  LiveSound(p)'
<1>1. /\ proc' = proc /\ lost' = lost
      /\ proc[p] = "up" => timer[p] > 0
  BY DEF Tick
<1>2. timer'[p] = IF timer[p] > 0 THEN timer[p] - 1 ELSE 0
  BY DEF Tick
<1>3. off'[p] = IF ShownWrong(p) THEN off[p] + 1 ELSE 0
  BY DEF Tick
<1>4. Shown(p)' = Shown(p)
  <2>1. row' = [n \in Name |-> [row[n] EXCEPT !.age = Older(@)]]
    BY DEF Tick
  <2>2. NameOf[p] \in Name /\ row[NameOf[p]] \in Row
    BY RegistryAssumption DEF LiveInv, IInv, RegistryTypeOK
  <2> QED BY <2>1, <2>2 DEF Shown, Row
<1>5. SUFFICES ASSUME proc[p] = "up", Shown(p) = "OFFLINE" PROVE LiveSound(p)'
  BY <1>1, <1>4 DEF LiveSound
<1>6. /\ off[p] \in Nat /\ timer[p] \in Nat /\ lost \in Nat /\ Interval \in Nat
      /\ \A c \in beats : c \in Beat /\ c.waited \in Nat
  BY RegistryAssumption DEF LiveInv, IInv, RegistryTypeOK, Beat
<1>7. LossAllowance' = LossAllowance /\ LossAllowance \in Nat
  BY <1>1, <1>6, Multiples DEF LossAllowance
<1>8. off'[p] = off[p] + 1 /\ timer'[p] = timer[p] - 1 /\ timer[p] > 0
  BY <1>1, <1>2, <1>3, <1>5 DEF ShownWrong
<1>9. CASE off[p] + timer[p] <= LossAllowance
  <2>1. off'[p] + timer'[p] <= LossAllowance'
    BY <1>6, <1>7, <1>8, <1>9
  <2> QED BY <2>1 DEF LiveSound
<1>10. CASE \E b \in beats : /\ NameOf[b.from] = NameOf[p] /\ off[p] <= LossAllowance + b.waited
                             /\ b.waited + timer[p] = Interval
  <2>1. PICK b \in beats : /\ NameOf[b.from] = NameOf[p] /\ off[p] <= LossAllowance + b.waited
                           /\ b.waited + timer[p] = Interval
    BY <1>10
  <2>2. Aged(b) \in beats'
    BY DEF Tick, Aged
  <2>3. NameOf[Aged(b).from] = NameOf[p] /\ Aged(b).waited = b.waited + 1
    BY <1>6, <2>1 DEF Aged, Beat
  <2>4. off'[p] <= LossAllowance' + (b.waited + 1) /\ (b.waited + 1) + timer'[p] = Interval
    BY <1>6, <1>7, <1>8, <2>1
  <2> QED BY <2>2, <2>3, <2>4 DEF LiveSound
<1>11. ~LastMoment(p)
  <2>1. \A b \in beats : b.waited < Latency
    BY DEF Tick
  <2> QED BY <1>6, <2>1, RegistryAssumption DEF LastMoment
<1> QED BY <1>5, <1>9, <1>10, <1>11 DEF LiveInv, LiveSound

LEMMA LiveStutter == ASSUME LiveInv, UNCHANGED registryVars PROVE LiveInv'
<1>1. IInv'
  BY StutterInv DEF LiveInv
<1>2. \A p \in Process : LiveSound(p)'
  BY DEF registryVars, LiveInv, LiveSound, LastMoment, LossAllowance, Shown
<1> QED BY <1>1, <1>2 DEF LiveInv

LEMMA LiveStep ==
  ASSUME Latency <= Interval PROVE LiveInv /\ [RegistryNext]_registryVars => LiveInv'
<1> SUFFICES ASSUME LiveInv, RegistryNext PROVE LiveInv'
  BY LiveStutter
<1>1. IInv'
  BY StepInv DEF LiveInv
<1>2. \A p \in Process : LiveSound(p)'
  BY <1>1, LiveProcess, LiveHeartbeat, LiveSweep, LiveTick DEF RegistryNext, IInv
<1> QED BY <1>1, <1>2 DEF LiveInv

\* When a heartbeat takes no longer than an interval, a live worker is
\* shown OFFLINE for one interval and one latency at most, and one more interval
\* for every heartbeat that fails.
THEOREM LiveWorkersAreShown ==
  ASSUME Latency <= Interval PROVE RegistrySpec => []LiveWorkersReappear
<1>1. RegistryInit => LiveInv
  BY InitInv DEF RegistryInit, LiveInv, LiveSound
<1>2. LiveInv => LiveWorkersReappear
  <2> SUFFICES ASSUME LiveInv, NEW p \in Process, proc[p] = "up"
               PROVE  off[p] <= (lost + 1) * Interval + Latency
    BY DEF LiveWorkersReappear
  <2>1. /\ off[p] \in Nat /\ timer[p] \in Nat /\ lost \in Nat /\ Interval \in Nat /\ Latency \in Nat
        /\ \A c \in beats : c.waited \in 0..Latency
    BY RegistryAssumption DEF LiveInv, IInv, RegistryTypeOK, Beat
  <2>2. LossAllowance \in Nat
    BY <2>1, Multiples DEF LossAllowance
  <2>3. CASE Shown(p) # "OFFLINE"
    <3>1. off[p] = 0
      BY <2>3 DEF LiveInv, IInv, OffSound, ShownWrong, AllGone
    <3>2. 0 <= LossAllowance + Latency
      BY <2>1, <2>2
    <3> QED BY <3>1, <3>2 DEF LossAllowance
  <2>4. CASE Shown(p) = "OFFLINE"
    <3>1. \/ off[p] + timer[p] <= LossAllowance
          \/ \E b \in beats : off[p] <= LossAllowance + b.waited
      BY <2>4 DEF LiveInv, LiveSound, LastMoment
    <3>2. off[p] <= LossAllowance + Latency
      BY <2>1, <2>2, <3>1
    <3> QED BY <3>2 DEF LossAllowance
  <2> QED BY <2>3, <2>4
<1> QED BY <1>1, <1>2, LiveStep, PTL DEF RegistrySpec
-----------------------------------------------------------------------------
(* Workers that are gone                                                    *)

\* How long failed sweeps may keep a dead worker's row as it is, after the
\* timeout and the last heartbeat.
SkipAllowance == (skipped + 1) * Period

Silent == Timeout + Latency + SkipAllowance

Age(p) == row[NameOf[p]].age

Marking(p) == sweep.pc = "writing" /\ NameOf[p] \in sweep.stale

\* A dead worker's last heartbeats are at most as old as the time it has been
\* shown alive; its row grows as old as that, up to them; and past the timeout
\* a sweep has it in hand, or the next one finds it.
GoneSound(p) ==
  AllGone(p) /\ ShownWrong(p) =>
    /\ \A b \in beats : NameOf[b.from] = NameOf[p] => off[p] <= b.waited
    /\ Age(p) <= Timeout => off[p] <= Age(p) + Latency
    /\ Age(p) > Timeout /\ Marking(p) => off[p] <= Silent + sweep.waited
    /\ Age(p) > Timeout /\ ~Marking(p) => off[p] + cron <= Silent

GoneInv == IInv /\ \A p \in Process : GoneSound(p)

\* The numbers of the registry are numbers.
LEMMA Numbers ==
  ASSUME RegistryTypeOK
  PROVE  /\ Interval \in Nat /\ Timeout \in Nat /\ Period \in Nat /\ Latency \in Nat
         /\ Latency <= Timeout /\ SkipAllowance \in Nat /\ Period <= SkipAllowance
         /\ Silent \in Nat /\ Silent = Timeout + Latency + SkipAllowance
         /\ cron \in Nat /\ cron <= Period /\ sweep.waited \in Nat
         /\ \A p \in Process : off[p] \in Nat /\ Age(p) \in 0..Oldest
         /\ \A b \in beats : b.waited \in 0..Latency /\ b.stamp \in 0..Latency
<1>1. /\ Interval \in Nat /\ Timeout \in Nat /\ Period \in Nat /\ Latency \in Nat
      /\ Latency <= Timeout /\ skipped \in Nat
  BY RegistryAssumption DEF RegistryTypeOK
<1>2. SkipAllowance \in Nat /\ Period <= SkipAllowance
  BY <1>1, Multiples DEF SkipAllowance
<1>3. cron \in Nat /\ cron <= Period /\ sweep.waited \in Nat
  BY <1>1 DEF RegistryTypeOK, Sweep
<1>4. \A p \in Process : off[p] \in Nat /\ Age(p) \in 0..Oldest
  BY RegistryAssumption DEF RegistryTypeOK, Row, Age
<1>5. \A b \in beats : b.waited \in 0..Latency /\ b.stamp \in 0..Latency
  BY DEF RegistryTypeOK, Beat
<1> QED BY <1>1, <1>2, <1>3, <1>4, <1>5 DEF Silent

LEMMA NumbersNext ==
  ASSUME RegistryTypeOK'
  PROVE  /\ SkipAllowance' \in Nat /\ Period <= SkipAllowance'
         /\ Silent' \in Nat /\ Silent' = Timeout + Latency + SkipAllowance'
         /\ cron' \in Nat /\ cron' <= Period /\ sweep'.waited \in Nat
         /\ \A p \in Process : off'[p] \in Nat /\ Age(p)' \in 0..Oldest
         /\ \A b \in beats' : b.waited \in 0..Latency
<1>1. Period \in Nat /\ Timeout \in Nat /\ Latency \in Nat /\ skipped' \in Nat
  BY RegistryAssumption DEF RegistryTypeOK
<1>2. SkipAllowance' \in Nat /\ Period <= SkipAllowance'
  BY <1>1, Multiples DEF SkipAllowance
<1>3. cron' \in Nat /\ cron' <= Period /\ sweep'.waited \in Nat
  BY <1>1 DEF RegistryTypeOK, Sweep
<1>4. \A p \in Process : off'[p] \in Nat /\ Age(p)' \in 0..Oldest
  BY RegistryAssumption DEF RegistryTypeOK, Row, Age
<1>5. \A b \in beats' : b.waited \in 0..Latency
  BY DEF RegistryTypeOK, Beat
<1>6. Silent' = Timeout + Latency + SkipAllowance'
  BY DEF Silent
<1>7. \A n \in Nat : Timeout + Latency + n \in Nat
  BY <1>1
<1>8. Silent' \in Nat
  BY <1>2, <1>6, <1>7
<1> QED BY <1>2, <1>3, <1>4, <1>5, <1>6, <1>8

LEMMA GoneFromZero ==
  ASSUME RegistryTypeOK, RegistryTypeOK', NEW p \in Process, off'[p] = 0 PROVE GoneSound(p)'
<1>1. \A b \in beats' : off'[p] <= b.waited
  BY NumbersNext, Numbers
<1>2. off'[p] <= Age(p)' + Latency /\ off'[p] <= Silent' + sweep'.waited /\ off'[p] + cron' <= Silent'
  BY NumbersNext, Numbers, RegistryAssumption DEF Oldest
<1> QED BY <1>1, <1>2 DEF GoneSound

\* A step that leaves a dead worker's row alone, and the sweep.
LEMMA GoneKept ==
  ASSUME GoneInv, RegistryTypeOK', NEW p \in Process,
         proc' = proc \/ (AllGone(p) /\ AllGone(p)'), row'[NameOf[p]] = row[NameOf[p]], off'[p] <= off[p],
         UNCHANGED <<sweep, cron, skipped>>,
         \A c \in beats' : NameOf[c.from] = NameOf[p] =>
           \E b \in beats : NameOf[b.from] = NameOf[p] /\ b.waited = c.waited
  PROVE  GoneSound(p)'
<1>1. /\ Age(p)' = Age(p) /\ Marking(p)' = Marking(p) /\ Silent' = Silent
      /\ AllGone(p)' => AllGone(p) /\ (ShownWrong(p)' => ShownWrong(p))
  BY DEF Age, Marking, Silent, SkipAllowance, ShownWrong, AllGone, Shown
<1>2. SUFFICES ASSUME AllGone(p), ShownWrong(p) PROVE GoneSound(p)'
  BY <1>1 DEF GoneSound
<1>3. RegistryTypeOK /\ GoneSound(p)
  BY DEF GoneInv, IInv
<1>4. off[p] \in Nat /\ off'[p] \in Nat
  BY <1>3, Numbers, NumbersNext
<1>5. ASSUME NEW c \in beats', NameOf[c.from] = NameOf[p] PROVE off'[p] <= c.waited
  <2>1. PICK b \in beats : NameOf[b.from] = NameOf[p] /\ b.waited = c.waited
    BY <1>5
  <2>2. off[p] <= b.waited /\ b.waited \in Nat
    BY <1>2, <1>3, <2>1, Numbers DEF GoneSound
  <2> QED BY <1>4, <2>1, <2>2
<1>6. /\ Age(p) <= Timeout => off'[p] <= Age(p) + Latency
      /\ Age(p) > Timeout /\ Marking(p) => off'[p] <= Silent + sweep.waited
      /\ Age(p) > Timeout /\ ~Marking(p) => off'[p] + cron <= Silent
  BY <1>2, <1>3, <1>4, Numbers DEF GoneSound, Oldest
<1> QED BY <1>1, <1>5, <1>6 DEF GoneSound

LEMMA GoneProcess ==
  ASSUME GoneInv, NEW p \in Process, NEW q \in Process,
         StartProcess(q) \/ RegisterWorker(q) \/ Connected(q) \/ Gone(q) \/ SendHeartbeat(q)
  PROVE  GoneSound(p)'
<1>1. /\ RegistryTypeOK /\ RegistryTypeOK' /\ off'[p] <= off[p]
      /\ ~ShownWrong(p) \/ ~ShownWrong(p)' => off'[p] = 0
  BY ProcessType, WatchSound DEF GoneInv, IInv
<1>2. NameOf[p] \in Name /\ NameOf[q] \in Name
  BY RegistryAssumption
<1>3. CASE ~ShownWrong(p) \/ ~ShownWrong(p)'
  BY <1>1, <1>3, GoneFromZero
<1>4. CASE ~AllGone(p)'
  BY <1>4 DEF GoneSound
<1>5. CASE ~AllGone(p) /\ AllGone(p)' /\ ShownWrong(p)
  <2>1. Shown(p) = "OFFLINE"
    BY <1>5 DEF ShownWrong
  <2>2. Gone(q)
    BY <1>1, <1>5 DEF AllGone, StartProcess, RegisterWorker, Connected, SendHeartbeat, RegistryTypeOK
  <2>3. Shown(p)' = "OFFLINE"
    BY <2>1, <2>2 DEF Gone, Shown
  <2>4. ~ShownWrong(p)'
    BY <1>5, <2>3 DEF ShownWrong, AllGone
  <2> QED BY <1>3, <2>4
<1>6. CASE AllGone(p) /\ AllGone(p)'
  <2>1. NameOf[q] # NameOf[p]
    <3>1. ASSUME NameOf[q] = NameOf[p] PROVE FALSE
      <4>1. proc[q] \in {"unborn", "down"} /\ proc'[q] \in {"unborn", "down"}
        BY <1>6, <3>1 DEF AllGone
      <4> QED BY <1>1, <4>1
          DEF StartProcess, RegisterWorker, Connected, Gone, SendHeartbeat, RegistryTypeOK
    <3> QED BY <3>1
  <2>2. UNCHANGED <<sweep, cron, skipped>>
    BY DEF StartProcess, RegisterWorker, Connected, Gone, SendHeartbeat
  <2>3. row'[NameOf[p]] = row[NameOf[p]]
    <3>1. CASE RegisterWorker(q)
      <4>1. row' = [row EXCEPT ![NameOf[q]] = [status |-> "ONLINE", age |-> 0]]
        BY <3>1 DEF RegisterWorker
      <4> QED BY <1>1, <1>2, <2>1, <4>1 DEF RegistryTypeOK
    <3> QED BY <3>1 DEF StartProcess, Connected, Gone, SendHeartbeat
  <2>4. ASSUME NEW c \in beats', NameOf[c.from] = NameOf[p] PROVE c \in beats
    <3>1. CASE SendHeartbeat(q)
      <4>1. beats' = beats \cup {[from |-> q, pc |-> "sent", waited |-> 0, stamp |-> 0]}
        BY <3>1 DEF SendHeartbeat
      <4>2. NameOf[[from |-> q, pc |-> "sent", waited |-> 0, stamp |-> 0].from] = NameOf[q]
        OBVIOUS
      <4> QED BY <2>1, <2>4, <4>1, <4>2
    <3> QED BY <3>1 DEF StartProcess, RegisterWorker, Connected, Gone
  <2> QED BY <1>1, <1>6, <2>2, <2>3, <2>4, GoneKept
<1> QED BY <1>3, <1>4, <1>5, <1>6

\* A last heartbeat shows a dead worker alive once more, but is not old itself.
LEMMA GoneWrite ==
  ASSUME GoneInv, RegistryTypeOK', NEW p \in Process, NEW b \in beats, HeartbeatWrite(b),
         NameOf[b.from] = NameOf[p], off'[p] <= off[p], AllGone(p), ShownWrong(p)
  PROVE  GoneSound(p)'
<1>1. RegistryTypeOK /\ GoneSound(p) /\ b \in Beat /\ NameOf[p] \in Name
  BY RegistryAssumption DEF GoneInv, IInv, RegistryTypeOK
<1>2. PICK busy \in BOOLEAN :
        row' = [row EXCEPT ![NameOf[b.from]] = Recorded(@, b, busy)] /\ beats' = beats \ {b}
  BY DEF HeartbeatWrite
<1>3. Age(p)' = b.stamp
  <2>1. \A r : Recorded(r, b, busy).age = b.stamp
    BY DEF Recorded
  <2> QED BY <1>1, <1>2, <2>1 DEF Age, RegistryTypeOK
<1>4. \A c \in beats : NameOf[c.from] = NameOf[p] => off[p] <= c.waited
  BY <1>1 DEF GoneSound
<1>5. off[p] \in Nat /\ off'[p] \in Nat
  BY <1>1, Numbers, NumbersNext
<1>6. \A c \in beats : c.waited \in 0..Latency /\ c.stamp \in 0..Latency
  BY <1>1, Numbers
<1>7. Latency \in Nat /\ Timeout \in Nat /\ Latency <= Timeout
  BY <1>1, Numbers
<1>8. \A c \in beats' : NameOf[c.from] = NameOf[p] => off'[p] <= c.waited
  BY <1>2, <1>4, <1>5, <1>6, <1>7
<1>9. off[p] <= b.waited
  BY <1>4
<1>10. Age(p)' \in 0..Timeout /\ off'[p] <= Age(p)' + Latency
  BY <1>3, <1>5, <1>6, <1>7, <1>9
<1>11. ~(Age(p)' > Timeout)
  BY <1>7, <1>10
<1> QED BY <1>8, <1>10, <1>11 DEF GoneSound

LEMMA GoneHeartbeat ==
  ASSUME GoneInv, NEW p \in Process, NEW b \in beats,
         HeartbeatRead(b) \/ HeartbeatWrite(b) \/ HeartbeatLost(b)
  PROVE  GoneSound(p)'
<1>1. /\ RegistryTypeOK /\ RegistryTypeOK' /\ off'[p] <= off[p]
      /\ ~ShownWrong(p) => off'[p] = 0
  BY HeartbeatType, WatchSound DEF GoneInv, IInv
<1>2. b \in Beat /\ NameOf[b.from] \in Name /\ NameOf[p] \in Name
  BY <1>1, RegistryAssumption DEF RegistryTypeOK, Beat
<1>3. UNCHANGED <<proc, sweep, cron, skipped>>
  BY DEF HeartbeatRead, HeartbeatWrite, HeartbeatLost
<1>4. CASE ~ShownWrong(p)
  BY <1>1, <1>4, GoneFromZero
<1>5. CASE ~AllGone(p)
  BY <1>3, <1>5 DEF GoneSound, AllGone
<1>6. CASE AllGone(p) /\ ShownWrong(p)
  <2>1. CASE HeartbeatWrite(b) /\ NameOf[b.from] = NameOf[p]
    BY <1>1, <1>6, <2>1, GoneWrite
  <2>2. CASE ~(HeartbeatWrite(b) /\ NameOf[b.from] = NameOf[p])
    <3>1. row'[NameOf[p]] = row[NameOf[p]]
      <4>1. CASE HeartbeatWrite(b)
        <5>1. PICK busy \in BOOLEAN : row' = [row EXCEPT ![NameOf[b.from]] = Recorded(@, b, busy)]
          BY <4>1 DEF HeartbeatWrite
        <5> QED BY <1>1, <1>2, <2>2, <4>1, <5>1 DEF RegistryTypeOK
      <4> QED BY <4>1 DEF HeartbeatRead, HeartbeatLost
    <3>2. \A c \in beats' : NameOf[c.from] = NameOf[p] => \E d \in beats : NameOf[d.from] = NameOf[p] /\ d.waited = c.waited
      <4>1. CASE HeartbeatRead(b)
        <5>1. beats' = (beats \ {b}) \cup {[b EXCEPT !.pc = "writing"]}
          BY <4>1 DEF HeartbeatRead
        <5>2. NameOf[[b EXCEPT !.pc = "writing"].from] = NameOf[b.from] /\ [b EXCEPT !.pc = "writing"].waited = b.waited
          BY <1>2 DEF Beat
        <5> QED BY <5>1, <5>2
      <4>2. CASE beats' = beats \ {b}
        BY <4>2
      <4> QED BY <4>1, <4>2 DEF HeartbeatWrite, HeartbeatLost
    <3> QED BY <1>1, <1>3, <3>1, <3>2, GoneKept
  <2> QED BY <2>1, <2>2
<1> QED BY <1>4, <1>5, <1>6

\* A sweep that fails leaves the row to the next one, a period later.
LEMMA GoneSweep ==
  ASSUME GoneInv, NEW p \in Process, SweepRead \/ SweepWrite \/ SweepFails
  PROVE  GoneSound(p)'
<1>1. /\ RegistryTypeOK /\ RegistryTypeOK' /\ off'[p] <= off[p] /\ GoneSound(p)
      /\ ~ShownWrong(p) \/ ~ShownWrong(p)' => off'[p] = 0
  BY SweepType, WatchSound DEF GoneInv, IInv
<1>2. UNCHANGED <<proc, beats>> /\ NameOf[p] \in Name
  BY RegistryAssumption DEF SweepRead, SweepWrite, SweepFails
<1>3. CASE ~ShownWrong(p) \/ ~ShownWrong(p)'
  BY <1>1, <1>3, GoneFromZero
<1>4. CASE ~AllGone(p)
  BY <1>2, <1>4 DEF GoneSound, AllGone
<1>5. CASE AllGone(p) /\ ShownWrong(p) /\ ShownWrong(p)'
  <2>1. off[p] \in Nat /\ off'[p] \in Nat /\ Silent \in Nat /\ cron \in Nat /\ Period \in Nat
    BY <1>1, Numbers, NumbersNext
  <2>2. \A b \in beats : b.waited \in Nat
    BY <1>1, Numbers
  <2>3. \A b \in beats' : NameOf[b.from] = NameOf[p] => off'[p] <= b.waited
    BY <1>1, <1>2, <1>5, <2>1, <2>2 DEF GoneSound
  <2>4. CASE SweepRead
    <3>1. /\ cron = 0 /\ sweep.pc = "idle" /\ UNCHANGED <<row, skipped>> /\ cron' = Period
          /\ sweep' = IF StaleRows = {} THEN NoSweep
                      ELSE [pc |-> "writing", stale |-> StaleRows, waited |-> 0]
      BY <2>4 DEF SweepRead
    <3>2. Age(p)' = Age(p) /\ Silent' = Silent
      BY <3>1 DEF Age, Silent, SkipAllowance
    <3>3. Age(p) <= Timeout => off'[p] <= Age(p) + Latency
      BY <1>1, <1>5, <2>1, Numbers DEF GoneSound, Oldest
    <3>4. Age(p) > Timeout => off'[p] <= Silent /\ NameOf[p] \in StaleRows
      <4>1. Age(p) > Timeout => off[p] + cron <= Silent
        BY <1>1, <1>5, <3>1 DEF GoneSound, Marking
      <4>2. Age(p) > Timeout => NameOf[p] \in StaleRows
        BY <1>2, <1>5 DEF StaleRows, ShownWrong, AllGone, Shown, Age
      <4> QED BY <1>1, <2>1, <3>1, <4>1, <4>2
    <3>5. NameOf[p] \in StaleRows => Marking(p)' /\ sweep'.waited = 0
      BY <3>1 DEF Marking
    <3>6. Age(p) > Timeout => Marking(p)' /\ off'[p] <= Silent + sweep'.waited
      BY <2>1, <3>4, <3>5
    <3> QED BY <2>3, <3>2, <3>3, <3>6 DEF GoneSound
  <2>5. CASE SweepWrite
    <3>1. /\ row' = [n \in Name |-> IF n \in sweep.stale THEN [row[n] EXCEPT !.status = "OFFLINE"] ELSE row[n]]
          /\ sweep.pc = "writing" /\ sweep' = NoSweep /\ UNCHANGED <<cron, skipped>>
      BY <2>5 DEF SweepWrite
    <3>2. NameOf[p] \notin sweep.stale
      <4>1. ASSUME NameOf[p] \in sweep.stale PROVE Shown(p)' = "OFFLINE"
        BY <1>1, <1>2, <3>1, <4>1 DEF Shown, RegistryTypeOK, Row
      <4> QED BY <1>2, <1>5, <4>1 DEF ShownWrong, AllGone
    <3>3. ~Marking(p) /\ ~Marking(p)' /\ Age(p)' = Age(p) /\ Silent' = Silent
      BY <1>2, <3>1, <3>2 DEF Marking, NoSweep, Age, Silent, SkipAllowance
    <3>4. /\ Age(p) <= Timeout => off'[p] <= Age(p) + Latency
          /\ Age(p) > Timeout => off'[p] + cron <= Silent
      BY <1>1, <1>5, <2>1, <3>3, Numbers DEF GoneSound, Oldest
    <3> QED BY <2>3, <3>1, <3>3, <3>4 DEF GoneSound
  <2>6. CASE SweepFails
    <3>1. /\ sweep.pc = "writing" /\ sweep' = NoSweep /\ skipped' = skipped + 1 /\ UNCHANGED <<row, cron>>
      BY <2>6 DEF SweepFails
    <3>2. ~Marking(p)' /\ Age(p)' = Age(p)
      BY <3>1 DEF Marking, NoSweep, Age
    <3>3. Silent' = Silent + Period
      <4>1. skipped \in Nat /\ Timeout \in Nat /\ Latency \in Nat /\ Period \in Nat
        BY <1>1, RegistryAssumption DEF RegistryTypeOK
      <4>2. SkipAllowance \in Nat /\ SkipAllowance' = SkipAllowance + Period
        BY <3>1, <4>1, Multiples DEF SkipAllowance
      <4> QED BY <4>1, <4>2 DEF Silent
    <3>4. sweep.waited + cron = Period /\ sweep.waited \in Nat
      BY <1>1, <3>1, Numbers DEF GoneInv, IInv, SweepSound
    <3>5. Age(p) <= Timeout => off'[p] <= Age(p) + Latency
      BY <1>1, <1>5, <2>1, Numbers DEF GoneSound, Oldest
    <3>6. Age(p) > Timeout => off[p] <= Silent + sweep.waited \/ off[p] + cron <= Silent
      BY <1>1, <1>5 DEF GoneSound
    <3>7. Age(p) > Timeout => off'[p] + cron <= Silent + Period
      BY <1>1, <2>1, <3>4, <3>6
    <3> QED BY <2>3, <3>1, <3>2, <3>3, <3>5, <3>7 DEF GoneSound
  <2> QED BY <2>4, <2>5, <2>6
<1> QED BY <1>3, <1>4, <1>5

\* A tick makes the row and the last heartbeats older, and the next sweep nearer.
LEMMA GoneTick ==
  ASSUME GoneInv, RegistryTypeOK', Tick, NEW p \in Process PROVE GoneSound(p)'
<1>1. RegistryTypeOK /\ GoneSound(p) /\ NameOf[p] \in Name
  BY RegistryAssumption DEF GoneInv, IInv
<1>2. proc' = proc /\ skipped' = skipped /\ cron' = cron - 1 /\ cron > 0
  BY DEF Tick
<1>3. off'[p] = IF ShownWrong(p) THEN off[p] + 1 ELSE 0
  BY DEF Tick
<1>4. Shown(p)' = Shown(p) /\ Age(p)' = Older(Age(p))
  <2>1. row' = [n \in Name |-> [row[n] EXCEPT !.age = Older(@)]]
    BY DEF Tick
  <2> QED BY <1>1, <2>1 DEF Shown, Age, RegistryTypeOK, Row
<1>5. CASE ~AllGone(p) \/ ~ShownWrong(p)
  BY <1>1, <1>2, <1>3, <1>4, <1>5, GoneFromZero DEF GoneSound, ShownWrong, AllGone
<1>6. CASE AllGone(p) /\ ShownWrong(p)
  <2>1. off'[p] = off[p] + 1 /\ off[p] \in Nat
    BY <1>1, <1>3, <1>6, Numbers
  <2>2. \A b \in beats' : NameOf[b.from] = NameOf[p] => off'[p] <= b.waited
    <3> SUFFICES ASSUME NEW b \in beats, NameOf[Aged(b).from] = NameOf[p] PROVE off'[p] <= Aged(b).waited
      BY DEF Tick, Aged
    <3>1. b \in Beat /\ b.waited \in Nat
      BY <1>1, Numbers DEF RegistryTypeOK
    <3>2. NameOf[Aged(b).from] = NameOf[b.from] /\ Aged(b).waited = b.waited + 1
      BY <3>1 DEF Aged, Beat
    <3>3. off[p] <= b.waited
      BY <1>1, <1>6, <3>2 DEF GoneSound
    <3> QED BY <2>1, <3>1, <3>2, <3>3
  <2>3. Silent' = Silent
    BY <1>2 DEF Silent, SkipAllowance
  <2>4. Marking(p)' = Marking(p) /\ (Marking(p) => sweep'.waited = sweep.waited + 1)
    <3>1. sweep \in Sweep /\ sweep' = IF sweep.pc = "writing" THEN [sweep EXCEPT !.waited = @ + 1] ELSE sweep
      BY <1>1 DEF Tick, RegistryTypeOK
    <3> QED BY <3>1 DEF Marking, Sweep
  <2>5. /\ Age(p) \in 0..Oldest /\ Timeout \in Nat /\ Latency \in Nat /\ Period \in Nat
        /\ SkipAllowance \in Nat /\ Period <= SkipAllowance /\ Silent \in Nat
        /\ Silent = Timeout + Latency + SkipAllowance
        /\ cron \in Nat /\ cron <= Period /\ sweep.waited \in Nat
    BY <1>1, Numbers
  <2>6. CASE Age(p) <= Timeout
    <3>1. Age(p)' = Age(p) + 1 /\ off[p] <= Age(p) + Latency
      BY <1>1, <1>4, <1>6, <2>5, <2>6, OlderBounds DEF GoneSound
    <3>2. off'[p] <= Age(p)' + Latency
      BY <2>1, <2>5, <3>1
    <3>3. off'[p] <= Timeout + Latency + 1
      BY <2>1, <2>5, <2>6, <3>1
    <3>4. off'[p] <= Silent + (sweep.waited + 1) /\ off'[p] + (cron - 1) <= Silent
      BY <1>2, <2>1, <2>5, <3>3
    <3> QED BY <1>2, <2>2, <2>3, <2>4, <3>2, <3>4 DEF GoneSound
  <2>7. CASE Age(p) > Timeout
    <3>1. Age(p)' > Timeout
      <4>1. Older(Age(p)) \in Nat /\ Age(p) <= Older(Age(p))
        BY <2>5, OlderBounds, OlderType, RegistryAssumption DEF Oldest
      <4> QED BY <1>4, <2>5, <2>7, <4>1
    <3>2. ~(Age(p)' <= Timeout)
      <4>1. Age(p)' \in Nat
        BY NumbersNext, RegistryAssumption DEF Oldest
      <4> QED BY <2>5, <3>1, <4>1
    <3>3. /\ Marking(p) => off[p] <= Silent + sweep.waited
          /\ ~Marking(p) => off[p] + cron <= Silent
      BY <1>1, <1>6, <2>7 DEF GoneSound
    <3>4. /\ Marking(p) => off'[p] <= Silent + (sweep.waited + 1)
          /\ ~Marking(p) => off'[p] + (cron - 1) <= Silent
      BY <1>2, <2>1, <2>5, <3>3
    <3> QED BY <1>2, <2>2, <2>3, <2>4, <3>2, <3>4 DEF GoneSound
  <2> QED BY <2>5, <2>6, <2>7 DEF Oldest
<1> QED BY <1>5, <1>6

LEMMA GoneStutter == ASSUME GoneInv, UNCHANGED registryVars PROVE GoneInv'
<1>1. IInv'
  BY StutterInv DEF GoneInv
<1>2. \A p \in Process : GoneSound(p)'
  BY DEF registryVars, GoneInv, GoneSound, SkipAllowance, Silent, Age, Marking, ShownWrong, AllGone, Shown
<1> QED BY <1>1, <1>2 DEF GoneInv

LEMMA GoneStep == GoneInv /\ [RegistryNext]_registryVars => GoneInv'
<1> SUFFICES ASSUME GoneInv, RegistryNext PROVE GoneInv'
  BY GoneStutter
<1>1. IInv'
  BY StepInv DEF GoneInv
<1>2. \A p \in Process : GoneSound(p)'
  BY <1>1, GoneProcess, GoneHeartbeat, GoneSweep, GoneTick DEF RegistryNext, IInv
<1> QED BY <1>1, <1>2 DEF GoneInv

\* When every process of a name is gone, its row is shown OFFLINE after the timeout,
\* one period of the sweep, and one period more for every sweep that fails, however
\* late the last heartbeats are recorded and however many processes share the name.
THEOREM GoneWorkersAreMarked == RegistrySpec => []GoneWorkersAreFound
<1>1. RegistryInit => GoneInv
  <2>1. RegistryInit => \A p \in Process : GoneSound(p)
    BY RegistryAssumption DEF RegistryInit, GoneSound, ShownWrong, Shown
  <2> QED BY <2>1, InitInv DEF GoneInv
<1>2. GoneInv => GoneWorkersAreFound
  <2> SUFFICES ASSUME GoneInv, NEW p \in Process, AllGone(p)
               PROVE  off[p] <= Timeout + (skipped + 1) * Period + 2 * Latency
    BY DEF GoneWorkersAreFound
  <2>1. RegistryTypeOK /\ GoneSound(p)
    BY DEF GoneInv, IInv
  <2>2. /\ off[p] \in Nat /\ Age(p) \in 0..Oldest /\ Timeout \in Nat /\ Latency \in Nat
        /\ SkipAllowance \in Nat /\ Silent = Timeout + Latency + SkipAllowance /\ cron \in Nat
    BY <2>1, Numbers
  <2>3. off[p] <= Timeout + SkipAllowance + 2 * Latency
    <3>1. CASE ~ShownWrong(p)
      <4>1. off[p] = 0
        BY <3>1 DEF GoneInv, IInv, OffSound
      <4> QED BY <2>2, <4>1
    <3>2. CASE ShownWrong(p) /\ Age(p) <= Timeout
      <4>1. off[p] <= Age(p) + Latency
        BY <2>1, <3>2 DEF GoneSound
      <4> QED BY <2>2, <3>2, <4>1 DEF Oldest
    <3>3. CASE ShownWrong(p) /\ Age(p) > Timeout /\ Marking(p)
      <4>1. off[p] <= Silent + sweep.waited
        BY <2>1, <3>3 DEF GoneSound
      <4>2. sweep.waited \in 0..Latency
        BY <2>1 DEF RegistryTypeOK, Sweep
      <4> QED BY <2>2, <4>1, <4>2
    <3>4. CASE ShownWrong(p) /\ Age(p) > Timeout /\ ~Marking(p)
      <4>1. off[p] + cron <= Silent
        BY <2>1, <3>4 DEF GoneSound
      <4> QED BY <2>2, <4>1
    <3> QED BY <2>2, <3>1, <3>2, <3>3, <3>4 DEF Oldest
  <2> QED BY <2>3 DEF SkipAllowance
<1> QED BY <1>1, <1>2, GoneStep, PTL DEF RegistrySpec
=============================================================================
