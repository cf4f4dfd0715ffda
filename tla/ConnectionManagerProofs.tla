---------------------- MODULE ConnectionManagerProofs ----------------------
(***************************************************************************)
(* Theorems about ConnectionManager, for any number of calls, attempts and *)
(* faults.                                                                 *)
(***************************************************************************)
EXTENDS ConnectionManager, FiniteSetTheorems, TLAPS

\* The process waits only while it is calling, for a call that is under way, and
\* it pauses only if it may try again.
WaitsForItsCall ==
  /\ awaited # None => process = "calling" /\ Pending(awaited)
  /\ process \in {"starting", "pausing"} => tries < Attempts
  /\ process = "starting" => tries = 0

\* The step that loses c leaves the process running or ends it.
LosesConnection(c) ==
  /\ ~EndsProcess(c) /\ CallerHears(c) /\ Scheduled(Reconnects(c))
  /\ call' = [call EXCEPT ![c] = "over"] /\ link' = [link EXCEPT ![c] = "closed"]
  /\ handlers' = [handlers EXCEPT ![c] = 0] /\ faults' = faults + 1
  /\ UNCHANGED <<tries, connection, channel, consumer>> /\ Watch

FailsToDial(c) ==
  /\ ~GivesUp(c) /\ CallerHears(c) /\ Scheduled(1)
  /\ call' = [call EXCEPT ![c] = "over"] /\ faults' = faults + 1
  /\ UNCHANGED <<tries, link, handlers, connection, channel, consumer>> /\ Watch

IInv == ManagerTypeOK /\ WaitsForItsCall /\ NeverForsaken

\* A process that has exited is as well formed as any.
LEMMA ExitKeepsIInv == IInv /\ Exit => IInv'
  BY ConnectionAssumption
  DEF IInv, ManagerTypeOK, WaitsForItsCall, NeverForsaken, Running, isShuttingDown, Exit, Process, Pending

\* Losing c leaves c as a call that is over on a closed connection.
LEMMA DropLoses ==
  ASSUME NEW c \in Call, Drop(c)
  PROVE Open(c) /\ faults < Faults /\ (Exit \/ LosesConnection(c))
  BY DEF Drop, LosesConnection

LEMMA DialFailsOrExits ==
  ASSUME NEW c \in Call, DialFails(c)
  PROVE call[c] = "dialing" /\ faults < Faults /\ (Exit \/ FailsToDial(c))
  BY DEF DialFails, FailsToDial

\* Every step keeps the state well formed and the process in step with its calls.
LEMMA TypesKept == IInv /\ [ManagerNext]_managerVars => ManagerTypeOK' /\ WaitsForItsCall'
<1> SUFFICES ASSUME IInv, [ManagerNext]_managerVars PROVE ManagerTypeOK' /\ WaitsForItsCall'
  OBVIOUS
<1> USE ConnectionAssumption DEF IInv, ManagerTypeOK, WaitsForItsCall, Watch, Process, isShuttingDown,
  Pending
<1>1. ASSUME NEW c \in Call, ProcessConnects(c) PROVE ManagerTypeOK' /\ WaitsForItsCall'
  BY <1>1 DEF ProcessConnects, Begin
<1>2. ASSUME NEW c \in Call, TimerFires(c) PROVE ManagerTypeOK' /\ WaitsForItsCall'
  BY <1>2 DEF TimerFires, Begin
<1>3. ASSUME NEW c \in Call, Dialed(c) PROVE ManagerTypeOK' /\ WaitsForItsCall'
  BY <1>3 DEF Dialed
<1>4. ASSUME NEW c \in Call, ChannelOpened(c) PROVE ManagerTypeOK' /\ WaitsForItsCall'
  <2>1. handlers' \in [Call -> Nat]
    <3>1. CASE Open(connection)
      <4>1. connection \in Call
        BY <3>1 DEF Open
      <4> QED BY <1>4, <3>1, <4>1 DEF ChannelOpened
    <3>2. CASE ~Open(connection)
      BY <1>4, <3>2 DEF ChannelOpened
    <3> QED BY <3>1, <3>2
  <2>2. ManagerTypeOK'
    BY <1>4, <2>1 DEF ChannelOpened
  <2>3. WaitsForItsCall'
    BY <1>4 DEF ChannelOpened
  <2> QED BY <2>2, <2>3
<1>5. ASSUME NEW c \in Call, Declared(c) PROVE ManagerTypeOK' /\ WaitsForItsCall'
  <2>1. ManagerTypeOK'
    BY <1>5 DEF Declared
  <2>2. WaitsForItsCall'
    BY <1>5 DEF Declared
  <2> QED BY <2>1, <2>2
<1>6. ASSUME NEW c \in Call, DialFails(c) PROVE ManagerTypeOK' /\ WaitsForItsCall'
  <2>1. CASE Exit
    BY <2>1, ExitKeepsIInv
  <2>2. CASE FailsToDial(c)
    BY <2>2, <1>6, DialFailsOrExits DEF FailsToDial, GivesUp, CallerHears, Scheduled
  <2> QED BY <1>6, <2>1, <2>2, DialFailsOrExits
<1>7. ASSUME NEW c \in Call, Drop(c) PROVE ManagerTypeOK' /\ WaitsForItsCall'
  <2>1. CASE Exit
    BY <2>1, ExitKeepsIInv
  <2>2. CASE LosesConnection(c)
    <3>1. Reconnects(c) \in Nat
      BY DEF Reconnects
    <3>2. timers' \in Nat
      BY <3>1, <2>2 DEF LosesConnection, Scheduled
    <3>3. awaited = c => Pending(c)
      BY DEF Pending
    <3>4. ManagerTypeOK'
      <4>1. process' \in Process /\ tries' \in 0..Attempts /\ awaited' \in Call \cup {None}
        BY <2>2 DEF LosesConnection, CallerHears
      <4>2. /\ call' \in [Call -> {"dialing", "opening", "declaring", "over"}]
            /\ link' \in [Call -> {"open", "closed"}] /\ handlers' \in [Call -> Nat]
        BY <2>2 DEF LosesConnection
      <4>3. /\ {connection, channel, consumer}' \subseteq Call \cup {None}
            /\ crossed' \in BOOLEAN
        BY <2>2 DEF LosesConnection
      <4>4. faults' \in 0..Faults
        <5>1. faults < Faults /\ faults' = faults + 1
          BY <2>2, <1>7, DropLoses DEF LosesConnection
        <5> QED BY <5>1
      <4> QED BY <3>2, <4>1, <4>2, <4>3, <4>4
    <3>5. tries = Attempts => awaited # c
      BY <2>2, <3>3 DEF LosesConnection, EndsProcess, GivesUp
    <3>6. WaitsForItsCall'
      BY <2>2, <3>5, <1>7, DropLoses DEF LosesConnection, CallerHears
    <3> QED BY <3>4, <3>6
  <2> QED BY <1>7, <2>1, <2>2, DropLoses
<1>8. CASE Subscribed
  BY <1>8 DEF Subscribed
<1>9. CASE CloseChannel
  BY <1>9 DEF CloseChannel
<1>10. CASE CloseConnection
  BY <1>10 DEF CloseConnection
<1>11. CASE ProcessExits
  BY <1>11, ExitKeepsIInv DEF ProcessExits
<1>12. CASE UNCHANGED managerVars
  BY <1>12 DEF managerVars
<1> QED
  BY <1>1, <1>2, <1>3, <1>4, <1>5, <1>6, <1>7, <1>8, <1>9, <1>10, <1>11, <1>12 DEF ManagerNext, Progress

\* No step forsakes the manager.
LEMMA NeverForsakenKept == IInv /\ [ManagerNext]_managerVars => NeverForsaken'
<1> SUFFICES ASSUME IInv, [ManagerNext]_managerVars, Running' PROVE NeverForsaken'
  BY DEF NeverForsaken
<1> USE ConnectionAssumption DEF IInv, ManagerTypeOK, WaitsForItsCall, NeverForsaken, Running, isShuttingDown
<1>1. ASSUME NEW c \in Call, Begin(c) PROVE call'[c] = "dialing"
  BY <1>1 DEF Begin
<1>2. ASSUME NEW c \in Call, ProcessConnects(c) \/ TimerFires(c) PROVE NeverForsaken'
  BY <1>1, <1>2 DEF ProcessConnects, TimerFires
<1>3. ASSUME NEW c \in Call, Dialed(c) PROVE NeverForsaken'
  BY <1>3 DEF Dialed, Open
<1>4. ASSUME NEW c \in Call, ChannelOpened(c) PROVE NeverForsaken'
  <2>1. Running
    BY <1>4 DEF ChannelOpened
  <2>2. CASE Open(connection)
    <3>1. connection \in Call
      BY <2>2 DEF Open
    <3>2. handlers'[connection] = handlers[connection] + 1 /\ handlers[connection] \in Nat
      BY <1>4, <2>2, <3>1 DEF ChannelOpened
    <3> QED BY <1>4, <2>2, <3>2 DEF ChannelOpened, Open
  <2>3. CASE ~Open(connection)
    <3>1. timers > 0 \/ \E d \in Call : call[d] = "dialing"
      BY <2>1, <2>3
    <3>2. \A d \in Call : call[d] = "dialing" => call'[d] = "dialing"
      BY <1>4 DEF ChannelOpened
    <3> QED BY <1>4, <3>1, <3>2 DEF ChannelOpened
  <2> QED BY <2>2, <2>3
<1>5. ASSUME NEW c \in Call, Declared(c) PROVE NeverForsaken'
  <2>1. Running
    BY <1>5 DEF Declared
  <2>2. \A d \in Call : call[d] \in {"dialing", "opening"} => call'[d] = call[d]
    BY <1>5 DEF Declared
  <2> QED BY <1>5, <2>1, <2>2 DEF Declared, Open
<1>6. ASSUME NEW c \in Call, DialFails(c) PROVE NeverForsaken'
  <2>1. FailsToDial(c)
    BY <1>6, DialFailsOrExits DEF Exit
  <2>2. ~isShuttingDown
    BY <2>1 DEF FailsToDial, CallerHears
  <2> QED BY <2>1, <2>2 DEF FailsToDial, Scheduled
<1>7. ASSUME NEW c \in Call, Drop(c) PROVE NeverForsaken'
  <2>1. Open(c) /\ LosesConnection(c)
    BY <1>7, DropLoses DEF Exit
  <2>2. Running
    BY <2>1 DEF LosesConnection, CallerHears, Pending
  <2>3. timers' = timers + Reconnects(c) /\ Reconnects(c) \in Nat
    BY <2>1, <2>2 DEF LosesConnection, Scheduled, Reconnects
  <2>4. CASE timers > 0 \/ Reconnects(c) > 0
    BY <2>3, <2>4
  <2>5. CASE timers = 0 /\ Reconnects(c) = 0
    <3>1. handlers[c] = 0 /\ ~Pending(c)
      BY <2>5 DEF Reconnects
    <3>2. call' = call
      BY <2>1, <3>1 DEF LosesConnection, Pending
    <3> QED BY <2>1, <2>2, <2>5, <3>1, <3>2 DEF LosesConnection, Open, Pending
  <2> QED BY <2>3, <2>4, <2>5
<1>8. CASE Subscribed
  BY <1>8 DEF Subscribed, Open
<1>9. CASE CloseChannel \/ CloseConnection \/ ProcessExits
  BY <1>9 DEF CloseChannel, CloseConnection, ProcessExits, Exit
<1>10. CASE UNCHANGED managerVars
  BY <1>10 DEF managerVars, Open
<1> QED
  BY <1>2, <1>3, <1>4, <1>5, <1>6, <1>7, <1>8, <1>9, <1>10 DEF ManagerNext, Progress

THEOREM ManagerInvariant == ManagerSpec => []IInv
<1>1. ManagerInit => IInv
  <2> SUFFICES ASSUME ManagerInit PROVE IInv
    OBVIOUS
  <2>1. ManagerTypeOK
    <3>1. process \in Process /\ crossed \in BOOLEAN
      BY DEF ManagerInit, Process
    <3>2. tries \in 0..Attempts /\ faults \in 0..Faults /\ timers \in Nat
      BY ConnectionAssumption DEF ManagerInit
    <3>3. {awaited, connection, channel, consumer} \subseteq Call \cup {None}
      BY DEF ManagerInit
    <3>4. /\ call \in [Call -> {"dialing", "opening", "declaring", "over"}]
          /\ link \in [Call -> {"open", "closed"}] /\ handlers \in [Call -> Nat]
      BY DEF ManagerInit
    <3> QED BY <3>1, <3>2, <3>3, <3>4 DEF ManagerTypeOK
  <2>2. WaitsForItsCall /\ NeverForsaken
    BY ConnectionAssumption DEF ManagerInit, WaitsForItsCall, NeverForsaken, Running
  <2> QED BY <2>1, <2>2 DEF IInv
<1>2. IInv /\ [ManagerNext]_managerVars => IInv'
  BY TypesKept, NeverForsakenKept DEF IInv
<1> QED BY <1>1, <1>2, PTL DEF ManagerSpec

\* Calls, connections and the process are well formed, and connect is called at
\* most Attempts times from main.ts.
THEOREM ManagerTypeCorrectness == ManagerSpec => []ManagerTypeOK
BY ManagerInvariant, PTL DEF IInv

\* The manager is never left without a connection or a call that will bring one,
\* however many reconnects overlap.
THEOREM ManagerIsNeverForsaken == ManagerSpec => []NeverForsaken
BY ManagerInvariant, PTL DEF IInv
-----------------------------------------------------------------------------
(* The channel is current while reconnects do not cross                     *)

Living == {c \in Call : Pending(c) \/ Open(c)}

\* There is at most one of: a reconnect that is due, a call under way or its open
\* connection, and a caller that will try again.
OneStrand ==
  /\ timers \in {0, 1}
  /\ \A c, d \in Living : c = d
  /\ timers = 1 \/ process = "pausing" => Living = {}
  /\ ~(timers = 1 /\ process = "pausing")

\* The one call under way assigns the fields, and its connection will be missed.
CallSound(c) ==
  /\ call[c] = "dialing" => c \notin {channel, consumer}
  /\ call[c] \in {"opening", "declaring"} => Open(c) /\ connection = c
  /\ call[c] = "declaring" => channel = c
  /\ Open(c) /\ call[c] \in {"declaring", "over"} => handlers[c] > 0

FieldsCurrent ==
  /\ channel # None /\ ~Open(channel) => timers > 0 \/ \E c \in Call : Pending(c)
  /\ Open(consumer) => channel = consumer

Uncrossed == ~crossed /\ ~isShuttingDown
CurrentInv == Uncrossed => OneStrand /\ FieldsCurrent /\ \A c \in Call : CallSound(c)

LEMMA AtMostOne ==
  ASSUME NEW S, IsFiniteSet(S), NEW n \in Nat, NEW b \in BOOLEAN,
         ~(n + Cardinality(S) + (IF b THEN 1 ELSE 0) > 1)
  PROVE  /\ n \in {0, 1} /\ (\A c, d \in S : c = d)
         /\ (n = 1 \/ b => S = {}) /\ ~(n = 1 /\ b)
<1>1. Cardinality(S) \in Nat
  BY FS_CardinalityType
<1>2. n + Cardinality(S) <= 1 /\ (b => n + Cardinality(S) = 0)
  BY <1>1
<1>3. Cardinality(S) \in {0, 1}
  BY <1>1, <1>2
<1>4. CASE Cardinality(S) = 0
  BY <1>2, <1>4, FS_EmptySet
<1>5. CASE Cardinality(S) = 1
  <2>1. \E x : S = {x}
    BY <1>5, FS_Singleton
  <2> QED BY <1>1, <1>2, <1>5, <2>1
<1> QED BY <1>3, <1>4, <1>5

\* A step brings at most one call to life.
LEMMA LivingStep ==
  ASSUME ManagerTypeOK, [ManagerNext]_managerVars
  PROVE  \E c : Living' \subseteq Living \cup {c}
<1> USE DEF ManagerTypeOK, Living, Pending, Open
<1>1. ASSUME NEW c \in Call, ProcessConnects(c) \/ TimerFires(c) PROVE Living' \subseteq Living \cup {c}
  BY <1>1 DEF ProcessConnects, TimerFires, Begin
<1>2. ASSUME NEW c \in Call, Dialed(c) PROVE Living' \subseteq Living
  BY <1>2 DEF Dialed
<1>3. ASSUME NEW c \in Call, ChannelOpened(c) PROVE Living' \subseteq Living
  BY <1>3 DEF ChannelOpened
<1>4. ASSUME NEW c \in Call, Declared(c) PROVE Living' \subseteq Living
  BY <1>4 DEF Declared
<1>5. CASE Exit
  BY <1>5 DEF Exit
<1>6. ASSUME NEW c \in Call, FailsToDial(c) PROVE Living' \subseteq Living
  BY <1>6 DEF FailsToDial
<1>7. ASSUME NEW c \in Call, LosesConnection(c) PROVE Living' \subseteq Living
  BY <1>7 DEF LosesConnection
<1>8. CASE Subscribed \/ CloseChannel \/ CloseConnection \/ UNCHANGED managerVars
  BY <1>8 DEF Subscribed, CloseChannel, CloseConnection, managerVars
<1> HIDE DEF ManagerTypeOK, Living, Pending, Open
<1> QED
  BY <1>1, <1>2, <1>3, <1>4, <1>5, <1>6, <1>7, <1>8, DropLoses, DialFailsOrExits
  DEF ManagerNext, Progress, ProcessExits

LEMMA LivingFinite ==
  ASSUME ManagerTypeOK, IsFiniteSet(Living), [ManagerNext]_managerVars
  PROVE  IsFiniteSet(Living')
<1>1. PICK c : Living' \subseteq Living \cup {c}
  BY LivingStep
<1>2. IsFiniteSet(Living \cup {c})
  BY FS_AddElement
<1> QED BY <1>1, <1>2, FS_Subset

\* Every step but an exit keeps watch over the reconnects.
LEMMA StepWatches ==
  ASSUME IInv, ManagerNext, Uncrossed'
  PROVE  Watch /\ Uncrossed
<1> USE DEF Uncrossed, Watch, isShuttingDown, IInv, WaitsForItsCall
<1>1. ~Exit
  BY DEF Exit
<1>2. ASSUME NEW c \in Call, ProcessConnects(c) \/ TimerFires(c) \/ Dialed(c) PROVE Watch /\ Uncrossed
  BY <1>2 DEF ProcessConnects, TimerFires, Dialed, ManagerTypeOK
<1>3. ASSUME NEW c \in Call, ChannelOpened(c) \/ Declared(c) PROVE Watch /\ Uncrossed
  BY <1>3, ConnectionAssumption DEF ChannelOpened, Declared, ManagerTypeOK
<1>4. ASSUME NEW c \in Call, FailsToDial(c) \/ LosesConnection(c) PROVE Watch /\ Uncrossed
  BY <1>4, ConnectionAssumption DEF FailsToDial, LosesConnection, CallerHears, ManagerTypeOK
<1>5. CASE Subscribed \/ CloseChannel \/ CloseConnection
  BY <1>5 DEF Subscribed, CloseChannel, CloseConnection, ManagerTypeOK
<1> QED
  BY <1>1, <1>2, <1>3, <1>4, <1>5, DropLoses, DialFailsOrExits DEF ManagerNext, Progress, ProcessExits

LEMMA OneStrandKept ==
  ASSUME IInv, ManagerTypeOK', IsFiniteSet(Living), ManagerNext, Uncrossed'
  PROVE  OneStrand'
<1>1. IsFiniteSet(Living')
  BY LivingFinite DEF IInv
<1>2. ~(timers' + Cardinality(Living') + (IF process' = "pausing" THEN 1 ELSE 0) > 1)
  BY StepWatches DEF Watch, Uncrossed, Strands, Living
<1> DEFINE b == process' = "pausing"
<1>3. timers' \in Nat /\ b \in BOOLEAN
  BY DEF ManagerTypeOK
<1>4. ~(timers' + Cardinality(Living') + (IF b THEN 1 ELSE 0) > 1)
  BY <1>2
<1> HIDE DEF b
<1>5. /\ timers' \in {0, 1} /\ (\A c, d \in Living' : c = d)
      /\ (timers' = 1 \/ b => Living' = {}) /\ ~(timers' = 1 /\ b)
  BY <1>1, <1>3, <1>4, AtMostOne
<1> QED BY <1>5 DEF OneStrand, b

LEMMA CurrentKept ==
  ASSUME IInv, IInv', IsFiniteSet(Living), CurrentInv, ManagerNext, Uncrossed'
  PROVE  FieldsCurrent' /\ \A d \in Call : CallSound(d)'
<1> DEFINE Goal == FieldsCurrent' /\ \A d \in Call : CallSound(d)'
<1>1. Uncrossed /\ OneStrand'
  BY StepWatches, OneStrandKept DEF IInv
<1>2. OneStrand /\ FieldsCurrent /\ \A d \in Call : CallSound(d)
  BY <1>1 DEF CurrentInv
<1>3. ManagerTypeOK /\ ManagerTypeOK' /\ None \notin Call
  BY ConnectionAssumption DEF IInv
<1>4. ASSUME NEW c \in Call, Pending(c) \/ Open(c), NEW d \in Call, d # c
      PROVE  call[d] = "over" /\ link[d] = "closed"
  <2>1. c \in Living /\ (d \in Living => d = c)
    BY <1>2, <1>4 DEF OneStrand, Living
  <2>2. ~Pending(d) /\ ~Open(d)
    BY <2>1, <1>4 DEF Living
  <2> QED BY <2>2, <1>3 DEF Pending, Open, ManagerTypeOK
<1>a. timers = 1 \/ process = "pausing" => \A c \in Call : ~Pending(c) /\ ~Open(c)
  BY <1>2 DEF OneStrand, Living
<1>5. timers \in Nat
  BY <1>3 DEF ManagerTypeOK
<1> USE <1>3, <1>4, <1>a DEF ManagerTypeOK, FieldsCurrent, CallSound, Pending, Open
<1>6. ASSUME NEW c \in Call, ProcessConnects(c) \/ TimerFires(c) PROVE Goal
  <2>1. Unused(c) /\ call' = [call EXCEPT ![c] = "dialing"]
        /\ UNCHANGED <<link, handlers, connection, channel, consumer>>
    BY <1>6 DEF ProcessConnects, TimerFires, Begin
  <2>2. FieldsCurrent'
    BY <1>2, <2>1
  <2>3. \A d \in Call : CallSound(d)'
    BY <1>2, <2>1 DEF Unused
  <2> QED BY <2>2, <2>3
<1>7. ASSUME NEW c \in Call, Dialed(c) PROVE Goal
  <2>1. /\ call[c] = "dialing" /\ call' = [call EXCEPT ![c] = "opening"]
        /\ link' = [link EXCEPT ![c] = "open"] /\ connection' = c
        /\ UNCHANGED <<handlers, channel, consumer>>
    BY <1>7 DEF Dialed
  <2>2. FieldsCurrent'
    BY <1>2, <2>1
  <2>3. ASSUME NEW d \in Call PROVE CallSound(d)'
    <3>1. CASE d = c
      BY <1>2, <2>1, <3>1
    <3>2. CASE d # c
      <4>1. call[d] = "over" /\ link[d] = "closed"
        BY <2>1, <3>2, <1>4
      <4>2. call'[d] = call[d] /\ link'[d] = link[d]
        BY <2>1, <3>2
      <4> QED BY <4>1, <4>2
    <3> QED BY <3>1, <3>2
  <2> QED BY <2>2, <2>3
<1>8. ASSUME NEW c \in Call, ChannelOpened(c) PROVE Goal
  <2>1. /\ call[c] = "opening" /\ call' = [call EXCEPT ![c] = "declaring"] /\ channel' = c
        /\ UNCHANGED <<link, connection, consumer>>
    BY <1>8 DEF ChannelOpened
  <2>2. Open(c) /\ connection = c
    BY <1>2, <2>1
  <2>3. handlers' = [handlers EXCEPT ![c] = @ + 1]
    BY <1>8, <2>2 DEF ChannelOpened
  <2>4. FieldsCurrent'
    BY <1>2, <2>1, <2>2
  <2>5. ASSUME NEW d \in Call PROVE CallSound(d)'
    <3>1. CASE d = c
      <4>1. handlers[c] \in Nat /\ handlers'[c] = handlers[c] + 1
        BY <2>3
      <4> QED BY <2>1, <2>2, <3>1, <4>1
    <3>2. CASE d # c
      <4>1. call[d] = "over" /\ link[d] = "closed"
        BY <2>2, <3>2, <1>4
      <4>2. call'[d] = call[d] /\ link'[d] = link[d]
        BY <2>1, <3>2
      <4> QED BY <4>1, <4>2
    <3> QED BY <3>1, <3>2
  <2> QED BY <2>4, <2>5
<1>9. ASSUME NEW c \in Call, Declared(c) PROVE Goal
  <2>1. /\ call[c] = "declaring" /\ call' = [call EXCEPT ![c] = "over"]
        /\ consumer' \in {consumer, channel} /\ UNCHANGED <<link, handlers, connection, channel>>
    BY <1>9 DEF Declared
  <2>2. Open(c) /\ connection = c /\ channel = c
    BY <1>2, <2>1
  <2>3. FieldsCurrent'
    BY <1>2, <2>1, <2>2
  <2>4. \A d \in Call : CallSound(d)'
    BY <1>2, <2>1, <2>2
  <2> QED BY <2>3, <2>4
<1>10. ASSUME NEW c \in Call, DialFails(c) PROVE Goal
  <2>1. call[c] = "dialing" /\ FailsToDial(c)
    BY <1>10, DialFailsOrExits DEF Exit, Uncrossed, isShuttingDown
  <2>2. /\ timers' > 0 /\ call' = [call EXCEPT ![c] = "over"]
        /\ UNCHANGED <<link, handlers, connection, channel, consumer>>
    BY <1>1, <1>5, <2>1 DEF FailsToDial, Scheduled, Uncrossed
  <2>3. ~Open(c)
    BY <1>2, <2>1, <2>2, <1>1 DEF OneStrand, Living
  <2>4. FieldsCurrent'
    BY <1>2, <2>1, <2>2
  <2>5. \A d \in Call : CallSound(d)'
    BY <1>2, <2>1, <2>2, <2>3
  <2> QED BY <2>4, <2>5
<1>11. ASSUME NEW c \in Call, Drop(c) PROVE Goal
  <2>1. Open(c) /\ LosesConnection(c)
    BY <1>11, DropLoses DEF Exit, Uncrossed, isShuttingDown
  <2>2. /\ timers' = timers + Reconnects(c) /\ call' = [call EXCEPT ![c] = "over"]
        /\ link' = [link EXCEPT ![c] = "closed"] /\ handlers' = [handlers EXCEPT ![c] = 0]
        /\ UNCHANGED <<connection, channel, consumer>>
    BY <1>1, <2>1 DEF LosesConnection, Scheduled, Uncrossed
  <2>3. handlers[c] \in Nat /\ (Pending(c) \/ handlers[c] > 0)
    BY <1>2, <2>1
  <2>4. timers' > 0
    BY <1>5, <2>2, <2>3 DEF Reconnects
  <2>5. FieldsCurrent'
    BY <1>2, <2>1, <2>2, <2>4
  <2>6. \A d \in Call : CallSound(d)'
    BY <1>2, <2>1, <2>2
  <2> QED BY <2>5, <2>6
<1>12. CASE Subscribed
  BY <1>2, <1>12 DEF Subscribed
<1>13. ~CloseChannel /\ ~CloseConnection /\ ~ProcessExits
  BY <1>1 DEF CloseChannel, CloseConnection, ProcessExits, Exit, Uncrossed, isShuttingDown
<1> QED
  BY <1>6, <1>7, <1>8, <1>9, <1>10, <1>11, <1>12, <1>13 DEF ManagerNext, Progress

\* In any number of calls, the channel the worker acknowledges on is the one it
\* consumes from, and a lost one is replaced, as long as no two reconnects are
\* under way at once: this is what overlapping calls of connect() put at risk.
THEOREM ChannelStaysCurrent == ManagerSpec => []ChannelIsCurrent
<1>1. ManagerInit => IsFiniteSet(Living) /\ CurrentInv
  <2> SUFFICES ASSUME ManagerInit PROVE IsFiniteSet(Living) /\ CurrentInv
    OBVIOUS
  <2>1. Living = {} /\ timers = 0 /\ process = "starting" /\ channel = None /\ consumer = None
    BY DEF ManagerInit, Living, Pending, Open
  <2>2. \A c \in Call : CallSound(c)
    BY DEF ManagerInit, CallSound, Open
  <2> QED BY <2>1, <2>2, FS_EmptySet DEF CurrentInv, OneStrand, FieldsCurrent, Open
<1>2. IInv /\ IInv' /\ IsFiniteSet(Living) /\ CurrentInv /\ [ManagerNext]_managerVars
      => IsFiniteSet(Living)' /\ CurrentInv'
  <2> SUFFICES ASSUME IInv, IInv', IsFiniteSet(Living), CurrentInv, [ManagerNext]_managerVars
               PROVE  IsFiniteSet(Living)' /\ CurrentInv'
    OBVIOUS
  <2>1. IsFiniteSet(Living)'
    BY LivingFinite DEF IInv
  <2>2. CASE ManagerNext
    BY <2>1, <2>2, OneStrandKept, CurrentKept DEF CurrentInv, IInv
  <2>3. CASE UNCHANGED managerVars
    BY <2>3 DEF managerVars, CurrentInv, Uncrossed, isShuttingDown, OneStrand, Living, Pending, Open,
      FieldsCurrent, CallSound
  <2> QED BY <2>1, <2>2, <2>3
<1>3. CurrentInv => ChannelIsCurrent
  BY DEF CurrentInv, ChannelIsCurrent, FieldsCurrent, Uncrossed, Running
<1> QED BY <1>1, <1>2, <1>3, ManagerInvariant, PTL DEF ManagerSpec
=============================================================================
