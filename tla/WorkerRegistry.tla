--------------------------- MODULE WorkerRegistry ---------------------------
(***************************************************************************)
(* How the API knows which workers are alive (apps/api/src/workers):       *)
(* processes register under their name and send heartbeats, and a cron     *)
(* sweep marks OFFLINE the rows whose last heartbeat is too old.  The      *)
(* sweep reads the stale rows first and updates them by id afterwards.     *)
(*                                                                         *)
(* Time goes by in ticks.  Rows hold ages instead of dates, so that the    *)
(* state stays finite.  A tick waits for what is due: a heartbeat, a       *)
(* sweep, a call that has taken Latency ticks.                             *)
(***************************************************************************)
EXTENDS Naturals

CONSTANTS
  Process, Name, NameOf,       \* worker processes and their WORKER_NAME
  Interval, Timeout, Period,   \* of heartbeats, until OFFLINE, of the sweep
  Latency,                     \* longest a heartbeat or a sweep takes
  Losses                       \* heartbeats and sweeps that may fail

ASSUME RegistryAssumption ==
  /\ NameOf \in [Process -> Name]
  /\ Interval \in Nat \ {0} /\ Timeout \in Nat /\ Period \in Nat \ {0}
  /\ Latency \in 0..Timeout /\ Losses \in Nat

VARIABLES
  row,     \* the workers table, by name
  proc,    \* what each process is doing
  timer,   \* ticks until a process sends its next heartbeat
  beats,   \* heartbeats on their way or being recorded
  cron,    \* ticks until the next sweep
  sweep,   \* the sweep under way
  lost,    \* heartbeats, and sweeps, that have failed
  skipped,
  off      \* for how many ticks a row has told the wrong thing about a process

registryVars == <<row, proc, timer, beats, cron, sweep, lost, skipped, off>>

\* Past Oldest all ages are alike.
Oldest == Timeout + 1
Older(n) == IF n < Oldest THEN n + 1 ELSE n

WorkerStatus == {"ABSENT", "ONLINE", "IDLE", "BUSY", "OFFLINE"}
Row == [status: WorkerStatus, age: 0..Oldest]

\* Whose it is; "sent" until the handler has found the row; then its new Date() is `stamp`
\* ticks old and the update is under way.
Beat == [from: Process, pc: {"sent", "writing"}, waited: 0..Latency, stamp: 0..Latency]

Sweep == [pc: {"idle", "writing"}, stale: SUBSET Name, waited: 0..Latency]
NoSweep == [pc |-> "idle", stale |-> {}, waited |-> 0]

RegistryInit ==
  /\ row = [n \in Name |-> [status |-> "ABSENT", age |-> 0]]
  /\ proc = [p \in Process |-> "unborn"] /\ timer = [p \in Process |-> 0]
  /\ beats = {} /\ cron = Period /\ sweep = NoSweep
  /\ lost = 0 /\ skipped = 0 /\ off = [p \in Process |-> 0]

Shown(p) == row[NameOf[p]].status

\* No process of the name of p runs.
AllGone(p) == \A q \in Process : NameOf[q] = NameOf[p] => proc[q] \in {"unborn", "down"}

\* A worker that sends heartbeats is shown OFFLINE, or one that is gone is not.
ShownWrong(p) ==
  \/ proc[p] = "up" /\ Shown(p) = "OFFLINE"
  \/ AllGone(p) /\ Shown(p) \notin {"ABSENT", "OFFLINE"}

Watch == off' = [p \in Process |-> IF ShownWrong(p)' THEN off[p] ELSE 0]
-----------------------------------------------------------------------------
(* Worker processes                                                         *)

StartProcess(p) ==
  /\ proc[p] \in {"unborn", "down"} /\ proc' = [proc EXCEPT ![p] = "registering"]
  /\ UNCHANGED <<row, timer, beats, cron, sweep, lost, skipped>> /\ Watch

\* The upsert; a process whose answer is lost tries again.
RegisterWorker(p) ==
  /\ proc[p] = "registering"
  /\ row' = [row EXCEPT ![NameOf[p]] = [status |-> "ONLINE", age |-> 0]]
  /\ \E next \in {"registering", "connecting"} : proc' = [proc EXCEPT ![p] = next]
  /\ UNCHANGED <<timer, beats, cron, sweep, lost, skipped>> /\ Watch

\* The broker is reached, the consumers run, heartbeats start at once.
Connected(p) ==
  /\ proc[p] = "connecting" /\ proc' = [proc EXCEPT ![p] = "up"]
  /\ timer' = [timer EXCEPT ![p] = 0]
  /\ UNCHANGED <<row, beats, cron, sweep, lost, skipped>> /\ Watch

\* Crash, signal or failed startup: nobody tells the API.
Gone(p) ==
  /\ proc[p] \notin {"unborn", "down"} /\ proc' = [proc EXCEPT ![p] = "down"]
  /\ timer' = [timer EXCEPT ![p] = 0]
  /\ UNCHANGED <<row, beats, cron, sweep, lost, skipped>> /\ Watch

\* Two heartbeats of a process that are alike in everything count as one.
SendHeartbeat(p) ==
  /\ proc[p] = "up" /\ timer[p] = 0 /\ timer' = [timer EXCEPT ![p] = Interval]
  /\ beats' = beats \cup {[from |-> p, pc |-> "sent", waited |-> 0, stamp |-> 0]}
  /\ UNCHANGED <<row, proc, cron, sweep, lost, skipped>> /\ Watch
-----------------------------------------------------------------------------
(* The API                                                                  *)

\* A heartbeat finds its row: only a registered process sends any, and no row
\* is ever deleted.
HeartbeatRead(b) ==
  /\ b.pc = "sent" /\ beats' = (beats \ {b}) \cup {[b EXCEPT !.pc = "writing"]}
  /\ UNCHANGED <<row, proc, timer, cron, sweep, lost, skipped>> /\ Watch

\* Mutants: a worker that was marked OFFLINE has to register again; a worker
\* with nothing to do drains.
Recorded_KeepsOffline(r, b, busy) ==
  [status |-> IF r.status = "OFFLINE" THEN "OFFLINE" ELSE IF busy THEN "BUSY" ELSE "IDLE", age |-> b.stamp]
Recorded_Draining(r, b, busy) == [status |-> IF busy THEN "BUSY" ELSE "DRAINING", age |-> b.stamp]

Recorded(r, b, busy) == [status |-> IF busy THEN "BUSY" ELSE "IDLE", age |-> b.stamp]

\* Whether tasks were active when it was sent shows when it is recorded.
HeartbeatWrite(b) ==
  /\ b.pc = "writing" /\ beats' = beats \ {b}
  /\ \E busy \in BOOLEAN : row' = [row EXCEPT ![NameOf[b.from]] = Recorded(@, b, busy)]
  /\ UNCHANGED <<proc, timer, cron, sweep, lost, skipped>> /\ Watch

HeartbeatLost(b) ==
  /\ lost < Losses /\ lost' = lost + 1 /\ beats' = beats \ {b}
  /\ UNCHANGED <<row, proc, timer, cron, sweep, skipped>> /\ Watch

\* mutants: the cutoff is one interval; the comparison is reversed
StaleRows_OneInterval == {n \in Name : row[n].status \notin {"ABSENT", "OFFLINE"} /\ row[n].age > Interval}
StaleRows_Fresh == {n \in Name : row[n].status \notin {"ABSENT", "OFFLINE"} /\ row[n].age < Timeout}
StaleRows == {n \in Name : row[n].status \notin {"ABSENT", "OFFLINE"} /\ row[n].age > Timeout}

SweepRead ==
  /\ cron = 0 /\ cron' = Period /\ sweep.pc = "idle"
  /\ sweep' = IF StaleRows = {} THEN NoSweep
              ELSE [pc |-> "writing", stale |-> StaleRows, waited |-> 0]
  /\ UNCHANGED <<row, proc, timer, beats, lost, skipped>> /\ Watch

\* The update goes by id, whatever the rows hold by now.
SweepWrite ==
  /\ sweep.pc = "writing" /\ sweep' = NoSweep
  /\ row' = [n \in Name |-> IF n \in sweep.stale THEN [row[n] EXCEPT !.status = "OFFLINE"] ELSE row[n]]
  /\ UNCHANGED <<proc, timer, beats, cron, lost, skipped>> /\ Watch

SweepFails ==
  /\ sweep.pc = "writing" /\ sweep' = NoSweep
  /\ skipped < Losses /\ skipped' = skipped + 1
  /\ UNCHANGED <<row, proc, timer, beats, cron, lost>> /\ Watch
-----------------------------------------------------------------------------
\* One tick, when nothing that is due is left to do.
Tick ==
  /\ cron > 0 /\ \A p \in Process : proc[p] = "up" => timer[p] > 0
  /\ \A b \in beats : b.waited < Latency
  /\ sweep.pc = "writing" => sweep.waited < Latency
  /\ row' = [n \in Name |-> [row[n] EXCEPT !.age = Older(@)]]
  /\ timer' = [p \in Process |-> IF timer[p] > 0 THEN timer[p] - 1 ELSE 0]
  /\ beats' = {[b EXCEPT !.waited = @ + 1, !.stamp = IF b.pc = "writing" THEN @ + 1 ELSE 0] : b \in beats}
  /\ cron' = cron - 1
  /\ sweep' = IF sweep.pc = "writing" THEN [sweep EXCEPT !.waited = @ + 1] ELSE sweep
  /\ off' = [p \in Process |-> IF ShownWrong(p) THEN off[p] + 1 ELSE 0]
  /\ UNCHANGED <<proc, lost, skipped>>

RegistryNext ==
  \/ \E p \in Process :
       StartProcess(p) \/ RegisterWorker(p) \/ Connected(p) \/ Gone(p) \/ SendHeartbeat(p)
  \/ \E b \in beats : HeartbeatRead(b) \/ HeartbeatWrite(b) \/ HeartbeatLost(b)
  \/ SweepRead \/ SweepWrite \/ SweepFails
  \/ Tick

RegistrySpec == RegistryInit /\ [][RegistryNext]_registryVars

RegistryTypeOK ==
  /\ row \in [Name -> Row]
  /\ proc \in [Process -> {"unborn", "registering", "connecting", "up", "down"}]
  /\ timer \in [Process -> 0..Interval] /\ beats \subseteq Beat
  /\ cron \in 0..Period /\ sweep \in Sweep
  /\ lost \in 0..Losses /\ skipped \in 0..Losses /\ off \in [Process -> Nat]
-----------------------------------------------------------------------------
(* Properties                                                               *)

\* What a sweep marks OFFLINE has not been heard of for the whole timeout, or was
\* heard of while the sweep was under way and is overwritten: no other row is.
SweepMarksStaleRows ==
  [][\A n \in Name :
       row[n].status # "OFFLINE" /\ row'[n].status = "OFFLINE"
         => row[n].age > Timeout \/ row[n].age <= sweep.waited + Latency]_registryVars

\* A worker that sends heartbeats is shown OFFLINE only until its next one is
\* recorded, even when a sweep that read the row of its predecessor overwrites
\* its own registration or heartbeat.
LiveWorkersReappear ==
  \A p \in Process : proc[p] = "up" => off[p] <= (lost + 1) * Interval + Latency

\* A row is shown OFFLINE in time once every process that registered under its name is
\* gone, though last heartbeats may be recorded after their deaths and after the sweep.
\* It says nothing of a process that dies while another of its name lives: they share
\* the row, and the heartbeats of the other keep it alive.
GoneWorkersAreFound ==
  \A p \in Process :
    AllGone(p) => off[p] <= Timeout + (skipped + 1) * Period + 2 * Latency
=============================================================================
