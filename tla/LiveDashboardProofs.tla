------------------------- MODULE LiveDashboardProofs -------------------------
(***************************************************************************)
(* Theorems about LiveDashboard, for any queries, metrics, pages, versions  *)
(* and faults: the state is well formed, and a page loses no version again  *)
(* that it shows or has coming.                                             *)
(***************************************************************************)
EXTENDS LiveDashboard, SequenceTheorems, TLAPS

\* What the tab and the API hold for each other exists on a ready socket only.
Connection == sock = "ready" \/ (rooms = {} /\ wire = <<>> /\ up = {})
-----------------------------------------------------------------------------
(* Entries of the cache                                                     *)

Sound(e) == e \in Entry /\ (e.fetch = "answered" <=> e.answer # 0)

\* Whatever happens to an entry, it stays well formed.
LEMMA EntrySteps ==
  ASSUME NEW e, Sound(e)
  PROVE  /\ Sound(Fetching(e)) /\ Sound(Invalidated(e)) /\ Sound([e EXCEPT !.stale = TRUE])
         /\ \A old \in BOOLEAN : Sound(Mounted(e, old))
         /\ Sound(Taken(e))
         /\ \A v \in Version : Sound([e EXCEPT !.fetch = "answered", !.answer = v])
         /\ Sound([e EXCEPT !.fetch = "idle", !.answer = 0, !.failed = TRUE])
<1>1. ASSUME NEW x \in Entry PROVE Sound(Fetching(x))
  <2>1. Fetching(x) \in Entry
    <3>1. 0 \in 0..MaxVersion
      BY LiveAssumption
    <3> QED BY <3>1 DEF Entry, Fetching
  <2>2. Fetching(x).fetch = "out" /\ Fetching(x).answer = 0
    BY DEF Entry, Fetching
  <2> QED BY <2>1, <2>2 DEF Sound
<1>2. Sound([e EXCEPT !.stale = TRUE])
  <2> DEFINE x == [e EXCEPT !.stale = TRUE]
  <2>1. x \in Entry
    BY DEF Sound, Entry
  <2>2. x.fetch = e.fetch /\ x.answer = e.answer
    BY DEF Sound, Entry
  <2> HIDE DEF x
  <2>3. Sound(x)
    BY <2>1, <2>2 DEF Sound
  <2> QED BY <2>3 DEF x
<1>3. Sound(Invalidated(e)) /\ \A old \in BOOLEAN : Sound(Mounted(e, old))
  BY <1>1, <1>2 DEF Invalidated, Mounted, Sound
<1>4. Sound(Taken(e))
  <2>1. e.answer \in 0..MaxVersion
    BY DEF Sound, Entry
  <2>2. Taken(e) \in Entry
    BY <2>1, LiveAssumption DEF Entry, Taken
  <2>3. Taken(e).fetch = "idle" /\ Taken(e).answer = 0
    BY DEF Taken
  <2> QED BY <2>2, <2>3 DEF Sound
<1>5. Sound([e EXCEPT !.fetch = "idle", !.answer = 0, !.failed = TRUE])
  <2> DEFINE x == [e EXCEPT !.fetch = "idle", !.answer = 0, !.failed = TRUE]
  <2>1. x \in Entry
    <3>1. 0 \in 0..MaxVersion
      BY LiveAssumption
    <3> QED BY <3>1 DEF Sound, Entry
  <2>2. x.fetch = "idle" /\ x.answer = 0
    BY DEF Sound, Entry
  <2> HIDE DEF x
  <2>3. Sound(x)
    BY <2>1, <2>2 DEF Sound
  <2> QED BY <2>3 DEF x
<1>6. ASSUME NEW v \in Version PROVE Sound([e EXCEPT !.fetch = "answered", !.answer = v])
  <2> DEFINE x == [e EXCEPT !.fetch = "answered", !.answer = v]
  <2>1. v \in 0..MaxVersion /\ v # 0
    BY LiveAssumption DEF Version
  <2>2. x \in Entry
    BY <2>1 DEF Sound, Entry
  <2>3. x.fetch = "answered" /\ x.answer = v
    BY DEF Sound, Entry
  <2> HIDE DEF x
  <2>4. Sound(x)
    BY <2>1, <2>2, <2>3 DEF Sound
  <2> QED BY <2>4 DEF x
<1> QED BY <1>1, <1>2, <1>3, <1>4, <1>5, <1>6 DEF Sound

Cached(c) == c \in [Query -> Entry] /\ \A q \in Query : Sound(c[q])

LEMMA OneEntry ==
  ASSUME Cached(cache), NEW q \in Query, NEW e, Sound(e), cache' = [cache EXCEPT ![q] = e]
  PROVE  Cached(cache')
BY DEF Cached, Sound

LEMMA InvalidateSound == ASSUME Cached(cache), NEW q PROVE Cached(Invalidate(q))
<1>1. CASE q \in Query
  <2>1. Sound(Invalidated(cache[q])) /\ Sound([cache[q] EXCEPT !.stale = TRUE])
    BY <1>1, EntrySteps DEF Cached
  <2> QED BY <1>1, <2>1 DEF Cached, Sound, Invalidate
<1>2. CASE q \notin Query
  BY <1>2 DEF Invalidate
<1> QED BY <1>1, <1>2
-----------------------------------------------------------------------------
(* The state is well formed                                                 *)

LEMMA TypeParts == LiveTypeOK <=>
  /\ Cached(cache)
  /\ world \in [Topic -> Version] /\ due \subseteq Announced \cap Query
  /\ samples \in [Metric -> SUBSET Version] /\ sock \in Socket
  /\ rooms \subseteq Announced /\ up \subseteq Announced /\ wire \in Seq(Message)
  /\ latest \in [Metric -> 0..MaxVersion]
  /\ page \in Page \cup {"login"} /\ mutation \in {"none", "served", "lost"}
  /\ faults \in 0..Budget
BY DEF LiveTypeOK, Cached, Sound

\* The parts of the type that steps change together.
ApiTypes ==
  /\ world \in [Topic -> Version] /\ due \subseteq Announced \cap Query
  /\ samples \in [Metric -> SUBSET Version]
SocketTypes ==
  /\ sock \in Socket /\ rooms \subseteq Announced /\ up \subseteq Announced
  /\ wire \in Seq(Message) /\ Connection
TabTypes ==
  /\ Cached(cache) /\ latest \in [Metric -> 0..MaxVersion]
  /\ page \in Page \cup {"login"} /\ mutation \in {"none", "served", "lost"}
Parts == ApiTypes /\ SocketTypes /\ TabTypes /\ faults \in 0..Budget

LEMMA Idle ==
  /\ ApiTypes /\ UNCHANGED apiVars => ApiTypes'
  /\ SocketTypes /\ UNCHANGED socketVars => SocketTypes'
  /\ TabTypes /\ UNCHANGED tabVars => TabTypes'
BY DEF ApiTypes, SocketTypes, TabTypes, apiVars, socketVars, tabVars, Connection

LEMMA SocketGoes ==
  ASSUME NEW phase \in Socket, Disconnected(phase) PROVE SocketTypes'
BY DEF Disconnected, SocketTypes, Connection

LEMMA CommitTypes ==
  ASSUME ApiTypes, NEW q, Committed(q) \/ CommittedInSilence(q), UNCHANGED samples
  PROVE  ApiTypes'
<1>1. q \in Topic /\ world[q] < MaxVersion
  BY DEF Committed, CommittedInSilence, MayChange
<1>2. q \in Announced => q \in Query
  BY <1>1, LiveAssumption DEF Topic, Announced, Broadcasted
<1>3. world[q] + 1 \in Version
  BY <1>1, LiveAssumption DEF ApiTypes, Version
<1>4. /\ world' = [world EXCEPT ![q] = @ + 1]
      /\ due' = due \cup ({q} \cap Announced) \/ due' = due
  BY DEF Committed, CommittedInSilence
<1> QED BY <1>2, <1>3, <1>4 DEF ApiTypes

LEMMA MessageTypes ==
  /\ [kind |-> "connected", value |-> 0] \in Message
  /\ \A q \in Announced : [kind |-> q, value |-> 0] \in Message
  /\ \A q \in Metric, v \in Version : [kind |-> q, value |-> v] \in Message
BY LiveAssumption DEF Message, Version

\* The steps of the query cache.
LEMMA CacheStepTypes ==
  ASSUME Parts, NEW q \in Query, Poll(q) \/ Serve(q) \/ TakeAnswer(q) \/ FetchFails(q)
  PROVE  Parts'
<1>1. Sound(cache[q]) /\ world[q] \in Version
  BY DEF Parts, TabTypes, ApiTypes, Cached, Topic
<1>2. /\ UNCHANGED <<apiVars, socketVars, latest, page, mutation>>
      /\ faults' \in 0..Budget
  BY LiveAssumption DEF Poll, Serve, TakeAnswer, FetchFails, Parts
<1>3. \E e : Sound(e) /\ cache' = [cache EXCEPT ![q] = e]
  <2> USE <1>1, EntrySteps
  <2>1. CASE Poll(q)
    BY <2>1 DEF Poll
  <2>2. CASE Serve(q)
    BY <2>2 DEF Serve
  <2>3. CASE TakeAnswer(q)
    BY <2>3 DEF TakeAnswer
  <2>4. CASE FetchFails(q)
    BY <2>4 DEF FetchFails
  <2> QED BY <2>1, <2>2, <2>3, <2>4
<1>4. TabTypes'
  BY <1>2, <1>3, OneEntry DEF Parts, TabTypes
<1> QED BY <1>2, <1>4, Idle DEF Parts

\* The steps of the API.
LEMMA ApiStepTypes ==
  ASSUME Parts,
         \/ \E q \in Topic : Change(q) \/ Announce(q)
         \/ \E q \in Metric : Sample(q) \/ Broadcast(q)
  PROVE  Parts'
<1>1. ASSUME NEW q \in Topic, Change(q) PROVE Parts'
  BY <1>1, CommitTypes, Idle DEF Change, Parts
<1>2. ASSUME NEW q \in Topic, Announce(q) PROVE Parts'
  <2>1. ApiTypes' /\ UNCHANGED tabVars /\ faults' = faults
    BY <1>2 DEF Announce, Parts, ApiTypes
  <2>2. SocketTypes'
    <3>1. CASE q \in rooms
      <4>1. wire' = Append(wire, [kind |-> q, value |-> 0]) /\ UNCHANGED <<sock, rooms, up>>
        BY <1>2, <3>1 DEF Announce
      <4>2. q \in Announced /\ sock = "ready"
        BY <3>1 DEF Parts, SocketTypes, Connection
      <4> QED BY <4>1, <4>2, MessageTypes, AppendProperties DEF Parts, SocketTypes, Connection
    <3>2. CASE q \notin rooms
      BY <1>2, <3>2 DEF Announce, Parts, SocketTypes, Connection
    <3> QED BY <3>1, <3>2
  <2> QED BY <2>1, <2>2, Idle DEF Parts
<1>3. ASSUME NEW q \in Metric, Sample(q) PROVE Parts'
  <2>1. world[q] \in Version
    BY DEF Parts, ApiTypes, Topic
  <2>2. ApiTypes'
    BY <1>3, <2>1 DEF Sample, Parts, ApiTypes
  <2> QED BY <1>3, <2>2, Idle DEF Sample, Parts
<1>4. ASSUME NEW q \in Metric, Broadcast(q) PROVE Parts'
  <2>1. PICK v \in samples[q] :
          /\ samples' = [samples EXCEPT ![q] = @ \ {v}]
          /\ wire' = IF sock = "ready" THEN Append(wire, [kind |-> q, value |-> v]) ELSE wire
    BY <1>4 DEF Broadcast
  <2>2. v \in Version
    BY DEF Parts, ApiTypes
  <2>3. ApiTypes'
    BY <1>4, <2>1 DEF Broadcast, Parts, ApiTypes
  <2>4. wire' \in Seq(Message)
    BY <2>1, <2>2, MessageTypes, AppendProperties DEF Parts, SocketTypes
  <2>5. SocketTypes'
    BY <1>4, <2>1, <2>4 DEF Broadcast, Parts, SocketTypes, Connection
  <2> QED BY <1>4, <2>3, <2>5, Idle DEF Broadcast, Parts
<1> QED BY <1>1, <1>2, <1>3, <1>4

\* The steps of the socket.
LEMMA SocketStepTypes ==
  ASSUME Parts,
         \/ OpenSocket \/ Connects \/ Authenticate \/ ConnectionLost \/ ApiRestarts
         \/ \E q \in Topic : Subscribe(q)
  PROVE  Parts'
<1>1. CASE OpenSocket \/ Connects
  <2>1. SocketTypes' /\ UNCHANGED <<apiVars, tabVars, faults>>
    BY <1>1 DEF OpenSocket, Connects, Parts, SocketTypes, Socket, Connection
  <2> QED BY <2>1, Idle DEF Parts
<1>2. CASE Authenticate
  <2>1. SocketTypes'
    <3>1. CASE Disconnected("closed")
      BY <3>1, SocketGoes DEF Socket
    <3>2. CASE ~Disconnected("closed")
      <4>1. /\ sock' = "ready" /\ UNCHANGED <<rooms, up>>
            /\ wire' = Append(wire, [kind |-> "connected", value |-> 0])
        BY <1>2, <3>2 DEF Authenticate
      <4> QED BY <4>1, MessageTypes, AppendProperties DEF Parts, SocketTypes, Socket, Connection
    <3> QED BY <3>1, <3>2
  <2> QED BY <1>2, <2>1, Idle DEF Authenticate, Parts
<1>3. CASE ConnectionLost
  <2>1. SocketTypes'
    BY <1>3, SocketGoes DEF ConnectionLost, Socket
  <2> QED BY <1>3, <2>1, Idle, LiveAssumption DEF ConnectionLost, Parts
<1>4. CASE ApiRestarts
  <2>1. SocketTypes'
    BY <1>4, SocketGoes, Idle DEF ApiRestarts, Socket, Parts
  <2>2. ApiTypes'
    BY <1>4 DEF ApiRestarts, Parts, ApiTypes
  <2> QED BY <1>4, <2>1, <2>2, Idle, LiveAssumption DEF ApiRestarts, Parts
<1>5. ASSUME NEW q \in Topic, Subscribe(q) PROVE Parts'
  <2>1. SocketTypes' /\ UNCHANGED <<apiVars, tabVars, faults>>
    BY <1>5 DEF Subscribe, Parts, SocketTypes, Connection
  <2> QED BY <2>1, Idle DEF Parts
<1> QED BY <1>1, <1>2, <1>3, <1>4, <1>5

LEMMA OnMessageTypes == ASSUME Parts, OnMessage PROVE Parts'
<1> DEFINE m == Head(wire)
<1>1. m \in Message /\ Tail(wire) \in Seq(Message) /\ sock = "ready"
  BY HeadTailProperties DEF OnMessage, Parts, SocketTypes, Connection
<1>2. m.kind \in Announced \cup Broadcasted \cup {"connected"} /\ m.value \in 0..MaxVersion
  BY <1>1 DEF Message
<1>3. /\ wire' = Tail(wire) /\ UNCHANGED <<apiVars, sock, rooms, page, mutation, faults>>
      /\ \/ up' = Announced \cap Query /\ UNCHANGED <<cache, latest>>
         \/ cache' = Invalidate(m.kind) /\ UNCHANGED <<up, latest>>
         \/ latest' = [latest EXCEPT ![m.kind] = m.value] /\ UNCHANGED <<up, cache>>
  BY <1>2 DEF OnMessage, SetMetrics
<1>4. SocketTypes'
  BY <1>1, <1>3 DEF Parts, SocketTypes, Connection
<1>5. TabTypes'
  BY <1>2, <1>3, InvalidateSound DEF Parts, TabTypes
<1> QED BY <1>3, <1>4, <1>5, Idle DEF Parts

\* The steps of the user.
LEMMA UserStepTypes ==
  ASSUME Parts,
         \/ \E p \in Page : Navigate(p)
         \/ SignOut \/ SessionLost \/ MutationServed \/ MutationThrows \/ MutationFails \/ MutationAnswered
  PROVE  Parts'
<1>1. ASSUME NEW p \in Page, Navigate(p) PROVE Parts'
  <2>1. Cached(cache')
    <3>1. PICK old : cache' = [q \in Query |->
            IF q \in ShownOn(p) \ ShownOn(page) THEN Mounted(cache[q], q \in old) ELSE cache[q]]
      BY <1>1 DEF Navigate, Turn
    <3>2. ASSUME NEW q \in Query PROVE Sound(cache'[q])
      <4>1. Sound(cache[q]) /\ (q \in old) \in BOOLEAN
        BY DEF Parts, TabTypes, Cached
      <4> QED BY <3>1, <4>1, EntrySteps
    <3> QED BY <3>1, <3>2 DEF Cached, Sound
  <2>2. TabTypes'
    BY <1>1, <2>1 DEF Navigate, Turn, Parts, TabTypes
  <2> QED BY <1>1, <2>2, Idle DEF Navigate, Parts
<1>2. CASE SignOut
  <2>1. SocketTypes'
    BY <1>2, SocketGoes DEF SignOut, Socket
  <2> QED BY <1>2, <2>1, Idle DEF SignOut, Parts, TabTypes
<1>3. CASE SessionLost \/ MutationFails
  BY <1>3, Idle, LiveAssumption DEF SessionLost, MutationFails, Parts, TabTypes
<1>4. CASE MutationServed \/ MutationThrows
  BY <1>4, CommitTypes, Idle DEF MutationServed, MutationThrows, Parts, TabTypes
<1>5. CASE MutationAnswered
  BY <1>5, InvalidateSound, Idle DEF MutationAnswered, OnSuccess, Parts, TabTypes
<1> QED BY <1>1, <1>2, <1>3, <1>4, <1>5

LEMMA PartsStep == Parts /\ [LiveNext]_liveVars => Parts'
<1> SUFFICES ASSUME Parts, [LiveNext]_liveVars PROVE Parts'
  OBVIOUS
<1>1. CASE UNCHANGED liveVars
  BY <1>1, Idle DEF liveVars, Parts
<1>2. CASE \E q \in Query : Poll(q) \/ Serve(q) \/ TakeAnswer(q) \/ FetchFails(q)
  BY <1>2, CacheStepTypes
<1>3. CASE \/ \E q \in Topic : Change(q) \/ Announce(q)
           \/ \E q \in Metric : Sample(q) \/ Broadcast(q)
  BY <1>3, ApiStepTypes
<1>4. CASE \/ OpenSocket \/ Connects \/ Authenticate \/ ConnectionLost \/ ApiRestarts
           \/ \E q \in Topic : Subscribe(q)
  BY <1>4, SocketStepTypes
<1>5. CASE OnMessage
  BY <1>5, OnMessageTypes
<1>6. CASE \/ \E p \in Page : Navigate(p)
           \/ SignOut \/ SessionLost \/ MutationServed \/ MutationThrows \/ MutationFails \/ MutationAnswered
  BY <1>6, UserStepTypes
<1> QED BY <1>1, <1>2, <1>3, <1>4, <1>5, <1>6 DEF LiveNext

LEMMA LiveInvariant == LiveSpec => []Parts
<1>1. LiveInit => Parts
  <2> SUFFICES ASSUME LiveInit PROVE Parts
    OBVIOUS
  <2>1. ApiTypes /\ faults \in 0..Budget
    BY LiveAssumption DEF LiveInit, ApiTypes, Version
  <2>2. SocketTypes
    BY DEF LiveInit, SocketTypes, Connection, Socket
  <2>3. Sound(NoEntry)
    BY LiveAssumption DEF Sound, NoEntry, Entry
  <2>4. TabTypes
    BY <2>3, LiveAssumption DEF LiveInit, TabTypes, Cached, Sound
  <2> QED BY <2>1, <2>2, <2>4 DEF Parts
<1> QED BY <1>1, PartsStep, PTL DEF LiveSpec

\* API, socket and tab are well formed, and a fetch holds an answer exactly when
\* the API has given one.
THEOREM LiveTypeCorrectness == LiveSpec => []LiveTypeOK
<1>1. Parts => LiveTypeOK
  BY TypeParts DEF Parts, ApiTypes, SocketTypes, TabTypes
<1> QED BY <1>1, LiveInvariant, PTL
-----------------------------------------------------------------------------
(* Answers do not go back                                                   *)

\* What a step may do to an entry when the API holds version w: keep data and
\* fetch, have no answer, be given one, or take it.
Moves(e, f, w) ==
  \/ f.data = e.data /\ f.fetch = e.fetch /\ f.answer = e.answer
  \/ f.data = e.data /\ f.fetch # "answered"
  \/ f.data = e.data /\ f.fetch = "answered" /\ f.answer = w
  \/ e.fetch = "answered" /\ f.data = e.answer /\ f.fetch = "idle"

\* An answer is as new as the data it replaces and no newer than the API's.
Ordered ==
  \A q \in Query :
    /\ cache[q].data <= world[q]
    /\ cache[q].fetch = "answered" =>
         cache[q].data <= cache[q].answer /\ cache[q].answer <= world[q]

LEMMA EntryMoves ==
  ASSUME NEW e, Sound(e), NEW w
  PROVE  /\ Moves(e, e, w) /\ Moves(e, Fetching(e), w) /\ Moves(e, Invalidated(e), w)
         /\ Moves(e, [e EXCEPT !.stale = TRUE], w)
         /\ \A old : Moves(e, Mounted(e, old), w)
         /\ e.fetch = "answered" => Moves(e, Taken(e), w)
         /\ Moves(e, [e EXCEPT !.fetch = "answered", !.answer = w], w)
         /\ Moves(e, [e EXCEPT !.fetch = "idle", !.answer = 0, !.failed = TRUE], w)
<1>1. ASSUME NEW x \in Entry, x.data = e.data PROVE Moves(e, Fetching(x), w)
  BY <1>1 DEF Entry, Fetching, Moves
<1>2. [e EXCEPT !.stale = TRUE] \in Entry /\ [e EXCEPT !.stale = TRUE].data = e.data
  BY DEF Sound, Entry
<1>3. Moves(e, [e EXCEPT !.stale = TRUE], w)
  BY DEF Sound, Entry, Moves
<1>4. Moves(e, e, w) /\ (e.fetch = "answered" => Moves(e, Taken(e), w))
  BY DEF Moves, Taken
<1>5. /\ Moves(e, [e EXCEPT !.fetch = "answered", !.answer = w], w)
      /\ Moves(e, [e EXCEPT !.fetch = "idle", !.answer = 0, !.failed = TRUE], w)
  BY DEF Sound, Entry, Moves
<1> QED BY <1>1, <1>2, <1>3, <1>4, <1>5 DEF Sound, Invalidated, Mounted

LEMMA OneMoves ==
  ASSUME Parts, NEW q \in Query, NEW e, Moves(cache[q], e, world[q]), cache' = [cache EXCEPT ![q] = e]
  PROVE  \A r \in Query : Moves(cache[r], cache'[r], world[r])
BY EntryMoves DEF Parts, TabTypes, Cached

LEMMA InvalidateMoves ==
  ASSUME Parts, NEW q, cache' = Invalidate(q)
  PROVE  \A r \in Query : Moves(cache[r], cache'[r], world[r])
<1> SUFFICES ASSUME NEW r \in Query PROVE Moves(cache[r], cache'[r], world[r])
  OBVIOUS
<1>1. Sound(cache[r]) /\ cache \in [Query -> Entry]
  BY DEF Parts, TabTypes, Cached
<1> QED BY <1>1, EntryMoves DEF Invalidate

\* No step takes the API back, and every step moves each entry in one of these ways.
LEMMA StepMoves ==
  ASSUME Parts, [LiveNext]_liveVars, NEW q \in Query
  PROVE  Moves(cache[q], cache'[q], world[q]) /\ world'[q] >= world[q]
<1>1. Sound(cache[q]) /\ world[q] \in Nat /\ world \in [Topic -> Version] /\ q \in Topic
  BY LiveAssumption DEF Parts, TabTypes, Cached, ApiTypes, Topic, Version
<1>2. Moves(cache[q], cache[q], world[q]) /\ world[q] >= world[q]
  <2>1. Moves(cache[q], cache[q], world[q])
    BY <1>1, EntryMoves
  <2> QED BY <1>1, <2>1
<1>3. ASSUME NEW r \in Query, Poll(r) \/ Serve(r) \/ TakeAnswer(r) \/ FetchFails(r)
      PROVE Moves(cache[q], cache'[q], world[q]) /\ world' = world
  <2>1. Sound(cache[r])
    BY DEF Parts, TabTypes, Cached
  <2>2. world' = world
    BY <1>3 DEF Poll, Serve, TakeAnswer, FetchFails, apiVars
  <2>3. \E e : Moves(cache[r], e, world[r]) /\ cache' = [cache EXCEPT ![r] = e]
    <3> USE <2>1, EntryMoves
    <3>1. CASE Poll(r)
      BY <3>1 DEF Poll
    <3>2. CASE Serve(r)
      BY <3>2 DEF Serve
    <3>3. CASE TakeAnswer(r)
      BY <3>3 DEF TakeAnswer
    <3>4. CASE FetchFails(r)
      BY <3>4 DEF FetchFails
    <3> QED BY <1>3, <3>1, <3>2, <3>3, <3>4
  <2> QED BY <2>2, <2>3, OneMoves
<1>4. ASSUME NEW r, Committed(r) \/ CommittedInSilence(r) PROVE world'[q] >= world[q]
  BY <1>1, <1>4 DEF Committed, CommittedInSilence
<1>5. CASE OnMessage
  <2>1. world' = world /\ (cache' = cache \/ cache' = Invalidate(Head(wire).kind))
    <3>1. Head(wire) \in Message
      BY <1>5, HeadTailProperties DEF OnMessage, Parts, SocketTypes
    <3>2. Head(wire).kind \in Announced \cup Broadcasted \cup {"connected"}
      BY <3>1 DEF Message
    <3> QED BY <1>5, <3>2 DEF OnMessage, apiVars
  <2> QED BY <1>2, <2>1, InvalidateMoves
<1>6. ASSUME NEW p \in Page, Navigate(p) PROVE Moves(cache[q], cache'[q], world[q]) /\ world' = world
  <2>1. \E old : cache'[q] = Mounted(cache[q], old) \/ cache'[q] = cache[q]
    BY <1>6 DEF Navigate, Turn
  <2> QED BY <1>1, <1>6, <2>1, EntryMoves DEF Navigate, apiVars
<1>7. CASE MutationAnswered
  BY <1>2, <1>7, InvalidateMoves DEF MutationAnswered, OnSuccess, apiVars
<1>8. CASE \/ UNCHANGED liveVars
           \/ \E r \in Topic : Announce(r) \/ Subscribe(r)
           \/ \E r \in Metric : Sample(r) \/ Broadcast(r)
           \/ OpenSocket \/ Connects \/ Authenticate \/ ConnectionLost \/ ApiRestarts
           \/ SignOut \/ SessionLost \/ MutationFails
  <2>1. UNCHANGED <<cache, world>>
    BY <1>8 DEF liveVars, apiVars, tabVars, Announce, Subscribe, Sample, Broadcast, OpenSocket, Connects,
                Authenticate, ConnectionLost, ApiRestarts, SignOut, SessionLost, MutationFails
  <2> QED BY <1>2, <2>1
<1>9. CASE (\E r \in Topic : Change(r)) \/ MutationServed \/ MutationThrows
  BY <1>2, <1>4, <1>9 DEF Change, MutationServed, MutationThrows, tabVars
<1> QED BY <1>2, <1>3, <1>5, <1>6, <1>7, <1>8, <1>9 DEF LiveNext

LEMMA OrderedInvariant == LiveSpec => [](Parts /\ Ordered)
<1>1. LiveInit => Ordered
  <2> SUFFICES ASSUME LiveInit, NEW q \in Query
               PROVE  cache[q].data <= world[q] /\ cache[q].fetch # "answered"
    BY DEF Ordered
  <2> QED BY DEF LiveInit, NoEntry, Topic
<1>2. Parts /\ Ordered /\ [LiveNext]_liveVars => Ordered'
  <2> SUFFICES ASSUME Parts, Ordered, [LiveNext]_liveVars, Parts', NEW q \in Query
               PROVE  /\ cache'[q].data <= world'[q]
                      /\ cache'[q].fetch = "answered" =>
                           cache'[q].data <= cache'[q].answer /\ cache'[q].answer <= world'[q]
    BY PartsStep DEF Ordered
  <2>1. /\ cache[q].data \in Nat /\ cache[q].answer \in Nat /\ world[q] \in Nat
        /\ world'[q] \in Nat
    BY LiveAssumption DEF Parts, TabTypes, Cached, Sound, Entry, ApiTypes, Topic, Version
  <2>2. Moves(cache[q], cache'[q], world[q]) /\ world'[q] >= world[q]
    BY StepMoves
  <2>3. /\ cache[q].data <= world[q]
        /\ cache[q].fetch = "answered" =>
             cache[q].data <= cache[q].answer /\ cache[q].answer <= world[q]
    BY DEF Ordered
  <2> QED BY <2>1, <2>2, <2>3 DEF Moves
<1> QED BY <1>1, <1>2, LiveInvariant, PTL DEF LiveSpec
-----------------------------------------------------------------------------
(* Updates are not forgotten                                                *)

OnWire(q) == \E i \in DOMAIN wire : wire[i].kind = q

LEMMA WireFacts ==
  ASSUME wire \in Seq(Message), NEW q
  PROVE  /\ \A m \in Message : wire' = Append(wire, m) =>
              (m.kind = q => OnWire(q)') /\ (OnWire(q) => OnWire(q)')
         /\ wire # <<>> /\ wire' = Tail(wire) => (OnWire(q) => OnWire(q)' \/ Head(wire).kind = q)
<1>1. ASSUME NEW m \in Message, wire' = Append(wire, m)
      PROVE  (m.kind = q => OnWire(q)') /\ (OnWire(q) => OnWire(q)')
  <2>1. /\ DOMAIN wire' = 1..(Len(wire) + 1) /\ DOMAIN wire = 1..Len(wire) /\ Len(wire) \in Nat
        /\ wire'[Len(wire) + 1] = m /\ \A i \in 1..Len(wire) : wire'[i] = wire[i]
    BY <1>1, AppendProperties, LenProperties
  <2>2. Len(wire) + 1 \in DOMAIN wire' /\ DOMAIN wire \subseteq DOMAIN wire'
    BY <2>1
  <2> QED BY <2>1, <2>2 DEF OnWire
<1>2. ASSUME wire # <<>>, wire' = Tail(wire), NEW i \in DOMAIN wire, wire[i].kind = q
      PROVE  OnWire(q)' \/ Head(wire).kind = q
  <2>1. /\ DOMAIN wire = 1..Len(wire) /\ Len(wire) \in Nat \ {0} /\ Head(wire) = wire[1]
        /\ DOMAIN wire' = 1..(Len(wire) - 1) /\ \A j \in 1..(Len(wire) - 1) : wire'[j] = wire[j + 1]
    BY <1>2, HeadTailProperties, LenProperties, EmptySeq
  <2>2. CASE i = 1
    BY <1>2, <2>1, <2>2
  <2>3. CASE i # 1
    <3>1. i - 1 \in DOMAIN wire' /\ wire'[i - 1] = wire[i]
      BY <2>1, <2>3
    <3> QED BY <1>2, <3>1 DEF OnWire
  <2> QED BY <2>2, <2>3
<1> QED BY <1>1, <1>2 DEF OnWire

Excused(q) == q \notin rooms' \/ (cache'[q].failed /\ cache'[q].fetch = "idle")

\* What a step has to leave alone for a query to be informed after it.
LEMMA Undisturbed ==
  ASSUME NEW q, NEW v, Informed(q, v), UNCHANGED <<cache[q], world[q]>>,
         (q \in due /\ q \in rooms) \/ OnWire(q) => q \in due' \/ OnWire(q)' \/ q \notin rooms'
  PROVE  Informed(q, v)' \/ Excused(q)
BY DEF Informed, Coming, OnWire, Excused

LEMMA Refetched ==
  ASSUME NEW q \in Query, Parts, Observed(q), cache[q].data # 0, NEW r, cache' = Invalidate(r),
         world' = world, NEW v, v <= world[q]
  PROVE  (q = r => Informed(q, v)') /\ (q # r => UNCHANGED <<cache[q], world[q]>>)
<1>1. cache \in [Query -> Entry] /\ Sound(cache[q])
  BY DEF Parts, TabTypes, Cached
<1>2. CASE q = r
  <2>1. cache'[q] = Invalidated(cache[q])
    BY <1>1, <1>2 DEF Invalidate
  <2>2. cache'[q].fetch = "out"
    BY <1>1, <2>1 DEF Invalidated, Fetching, Sound, Entry
  <2> QED BY <1>2, <2>2 DEF Informed, Coming
<1>3. CASE q # r
  BY <1>1, <1>3 DEF Invalidate
<1> QED BY <1>2, <1>3
LEMMA CacheStepInforms ==
  ASSUME Parts, Ordered, NEW q \in Query, NEW v \in Version, Informed(q, v),
         NEW r \in Query, Poll(r) \/ Serve(r) \/ TakeAnswer(r) \/ FetchFails(r)
  PROVE  Informed(q, v)' \/ Excused(q)
<1>1. /\ UNCHANGED <<world, due, rooms, wire>>
      /\ cache \in [Query -> Entry] /\ world \in [Topic -> Version] /\ q \in Topic
  BY DEF Poll, Serve, TakeAnswer, FetchFails, apiVars, socketVars, Parts, TabTypes, Cached, ApiTypes, Topic
<1>2. CASE r # q
  <2>1. cache'[q] = cache[q]
    BY <1>1, <1>2 DEF Poll, Serve, TakeAnswer, FetchFails
  <2> QED BY <1>1, <2>1, Undisturbed DEF OnWire
<1>3. CASE r = q /\ (Poll(q) \/ Serve(q))
  <2>1. cache'[q].fetch = "out" \/ (cache'[q].fetch = "answered" /\ cache'[q].answer = world'[q])
    BY <1>1, <1>3 DEF Poll, Serve, Fetching, Entry
  <2>2. v <= world'[q] /\ (cache'[q].fetch = "answered" => cache'[q].answer >= v \/ cache'[q].fetch = "out")
    BY <1>1, <2>1, LiveAssumption DEF Informed, Version
  <2> QED BY <2>1, <2>2 DEF Informed, Coming
<1>4. CASE r = q /\ TakeAnswer(q)
  <2>1. cache'[q].data = cache[q].answer /\ cache[q].fetch = "answered"
    BY <1>1, <1>4 DEF TakeAnswer, Taken
  <2>2. CASE (q \in due /\ q \in rooms) \/ OnWire(q)
    BY <1>1, <2>2 DEF Informed, Coming, OnWire
  <2>3. CASE ~(q \in due /\ q \in rooms) /\ ~OnWire(q)
    <3>1. cache[q].data >= v \/ cache[q].answer >= v
      BY <2>1, <2>3 DEF Informed, Coming, OnWire
    <3>2. cache[q].data <= cache[q].answer
      BY <2>1 DEF Ordered
    <3>3. cache[q].data \in Nat /\ v \in Nat /\ cache[q].answer \in Nat
      BY <1>1, LiveAssumption DEF Entry, Version
    <3>4. cache'[q].data >= v
      BY <2>1, <3>1, <3>2, <3>3
    <3> QED BY <1>1, <3>4 DEF Informed
  <2> QED BY <2>2, <2>3
<1>5. CASE r = q /\ FetchFails(q)
  BY <1>1, <1>5 DEF FetchFails, Excused, Entry
<1> QED BY <1>2, <1>3, <1>4, <1>5

LEMMA CommitInforms ==
  ASSUME Parts, NEW q \in Query \cap Announced, NEW v \in Version, Informed(q, v), NEW r,
         Committed(r) \/ CommittedInSilence(r), UNCHANGED <<rooms, wire, cache>>
  PROVE  Informed(q, v)' \/ Excused(q)
<1>1. due \subseteq due' /\ world' = [world EXCEPT ![r] = @ + 1]
  BY DEF Committed, CommittedInSilence
<1>2. v <= world'[q]
  <2>1. world[q] \in Nat /\ v \in Nat /\ v <= world[q] /\ q \in DOMAIN world
    BY LiveAssumption DEF Parts, ApiTypes, Topic, Version, Informed
  <2> QED BY <1>1, <2>1
<1>3. cache[q].data >= v \/ Coming(q, v)'
  BY <1>1 DEF Informed, Coming
<1> QED BY <1>2, <1>3 DEF Informed

LEMMA ApiStepInforms ==
  ASSUME Parts, NEW q \in Query \cap Announced, NEW v \in Version, Informed(q, v),
         \/ \E r \in Topic : Change(r) \/ Announce(r)
         \/ \E r \in Metric : Sample(r) \/ Broadcast(r)
  PROVE  Informed(q, v)' \/ Excused(q)
<1>1. ASSUME NEW r \in Topic, Change(r) PROVE Informed(q, v)' \/ Excused(q)
  BY <1>1, CommitInforms DEF Change, socketVars, tabVars
<1>2. ASSUME NEW r \in Topic, Announce(r) PROVE Informed(q, v)' \/ Excused(q)
  <2>1. UNCHANGED <<world, cache, rooms>> /\ due' = due \ {r}
    BY <1>2 DEF Announce, tabVars
  <2>2. CASE r \in rooms
    <3>1. [kind |-> r, value |-> 0] \in Message /\ wire \in Seq(Message)
      BY <2>2, MessageTypes DEF Parts, SocketTypes
    <3>2. wire' = Append(wire, [kind |-> r, value |-> 0])
      BY <1>2, <2>2 DEF Announce
    <3>3. (r = q => OnWire(q)') /\ (OnWire(q) => OnWire(q)')
      BY <3>1, <3>2, WireFacts
    <3> QED BY <2>1, <3>3, Undisturbed
  <2>3. CASE r \notin rooms
    BY <1>2, <2>1, <2>3, Undisturbed DEF Announce, OnWire
  <2> QED BY <2>2, <2>3
<1>3. ASSUME NEW r \in Metric, Sample(r) PROVE Informed(q, v)' \/ Excused(q)
  BY <1>3, Undisturbed DEF Sample, socketVars, tabVars, OnWire
<1>4. ASSUME NEW r \in Metric, Broadcast(r) PROVE Informed(q, v)' \/ Excused(q)
  <2>1. UNCHANGED <<world, due, cache, rooms>>
    BY <1>4 DEF Broadcast, tabVars
  <2>2. \E m \in Message : wire' = Append(wire, m) \/ wire' = wire
    BY <1>4, MessageTypes DEF Broadcast, Parts, ApiTypes
  <2>3. OnWire(q) => OnWire(q)'
    BY <2>2, WireFacts DEF OnWire, Parts, SocketTypes
  <2> QED BY <2>1, <2>3, Undisturbed
<1> QED BY <1>1, <1>2, <1>3, <1>4

LEMMA SocketStepInforms ==
  ASSUME Parts, NEW q \in Query \cap Announced, NEW v \in Version, Informed(q, v),
         \/ OpenSocket \/ Connects \/ Authenticate \/ ConnectionLost \/ ApiRestarts
         \/ \E r \in Topic : Subscribe(r)
  PROVE  Informed(q, v)' \/ Excused(q)
<1>1. CASE rooms' = {}
  BY <1>1 DEF Excused
<1>2. CASE rooms' # {}
  <2>1. UNCHANGED <<world, due, cache>> /\ (OnWire(q) => OnWire(q)')
    <3>1. CASE OpenSocket \/ Connects \/ \E r \in Topic : Subscribe(r)
      BY <3>1 DEF OpenSocket, Connects, Subscribe, apiVars, tabVars, OnWire
    <3>2. CASE Authenticate
      <4>1. wire' = Append(wire, [kind |-> "connected", value |-> 0])
        BY <1>2, <3>2 DEF Authenticate, Disconnected
      <4>2. wire \in Seq(Message)
        BY DEF Parts, SocketTypes
      <4> QED BY <3>2, <4>1, <4>2, WireFacts, MessageTypes DEF Authenticate, apiVars, tabVars
    <3>3. CASE ConnectionLost
      BY <1>2, <3>3 DEF ConnectionLost, Disconnected
    <3>4. CASE ApiRestarts
      BY <1>2, <3>4 DEF ApiRestarts, Disconnected, socketVars, Parts, SocketTypes, Connection
    <3> QED BY <3>1, <3>2, <3>3, <3>4
  <2> QED BY <2>1, Undisturbed
<1> QED BY <1>1, <1>2

LEMMA OnMessageInforms ==
  ASSUME Parts, NEW q \in Query \cap Announced, NEW v \in Version, Informed(q, v), cache[q].data # 0, Observed(q), OnMessage
  PROVE  Informed(q, v)' \/ Excused(q)
<1> DEFINE m == Head(wire)
<1>1. wire \in Seq(Message) /\ m \in Message
  BY HeadTailProperties DEF OnMessage, Parts, SocketTypes
<1>2. m.kind \in Announced \cup Broadcasted \cup {"connected"}
  BY <1>1 DEF Message
<1>3. UNCHANGED <<world, due, rooms>> /\ wire # <<>> /\ wire' = Tail(wire)
  BY DEF OnMessage, apiVars
<1>4. CASE m.kind = q
  <2>1. m.kind # "connected" /\ m.kind \in Announced /\ m.kind \notin Broadcasted
    BY <1>4 DEF Announced, Broadcasted
  <2>2. cache' = Invalidate(m.kind)
    BY <2>1 DEF OnMessage
  <2>3. v <= world[q]
    BY DEF Informed
  <2> QED BY <1>3, <1>4, <2>2, <2>3, Refetched
<1>5. CASE m.kind # q
  <2>1. UNCHANGED cache \/ cache' = Invalidate(m.kind)
    BY <1>2 DEF OnMessage
  <2>2. UNCHANGED <<cache[q], world[q]>>
    <3>1. v <= world[q]
      BY DEF Informed
    <3> QED BY <1>3, <1>5, <2>1, <3>1, Refetched
  <2>3. OnWire(q) => OnWire(q)'
    BY <1>1, <1>3, <1>5, WireFacts
  <2> QED BY <1>3, <2>2, <2>3, Undisturbed
<1> QED BY <1>4, <1>5

LEMMA UserStepInforms ==
  ASSUME Parts, NEW q \in Query \cap Announced, NEW v \in Version, Informed(q, v), cache[q].data # 0,
         Observed(q), Observed(q)',
         \/ \E p \in Page : Navigate(p)
         \/ SignOut \/ SessionLost \/ MutationServed \/ MutationThrows \/ MutationFails \/ MutationAnswered
  PROVE  Informed(q, v)' \/ Excused(q)
<1>1. ASSUME NEW p \in Page, Navigate(p) PROVE Informed(q, v)' \/ Excused(q)
  <2>1. UNCHANGED <<world, due, rooms, wire>> /\ page' = p
    BY <1>1 DEF Navigate, Turn, apiVars, socketVars
  <2>2. q \in ShownOn(p) /\ q \in ShownOn(page)
    BY <2>1 DEF Observed
  <2>3. cache'[q] = cache[q]
    BY <1>1, <2>2 DEF Navigate, Turn
  <2> QED BY <2>1, <2>3, Undisturbed DEF OnWire
<1>2. CASE SignOut \/ SessionLost
  BY <1>2 DEF SignOut, SessionLost, Observed, ShownOn
<1>3. CASE MutationServed \/ MutationThrows
  BY <1>3, CommitInforms DEF MutationServed, MutationThrows, socketVars
<1>4. CASE MutationFails
  BY <1>4, Undisturbed DEF MutationFails, apiVars, socketVars, OnWire
<1>5. CASE MutationAnswered
  <2>1. UNCHANGED <<world, due, rooms, wire>> /\ cache' = Invalidate("tasks")
    BY <1>5 DEF MutationAnswered, OnSuccess, apiVars, socketVars
  <2>2. v <= world[q]
    BY DEF Informed
  <2> QED BY <2>1, <2>2, Refetched, Undisturbed DEF OnWire
<1> QED BY <1>1, <1>2, <1>3, <1>4, <1>5

\* A version that a page in the room shows or has coming is not lost to it again by
\* any step: for any number of changes, announced or not, messages, pages and faults.
THEOREM UpdatesStayComing == LiveSpec => UpdatesAreNotForgotten
<1> DEFINE Kept(q, v) == Informed(q, v) /\ cache[q].data # 0 /\ Observed(q) /\ Observed(q)'
                        => \/ Informed(q, v)' \/ q \notin rooms'
                           \/ cache'[q].failed /\ cache'[q].fetch = "idle"
<1>1. Parts /\ Ordered /\ [LiveNext]_liveVars
        => [\A q \in Query \cap Announced, v \in Version : Kept(q, v)]_liveVars
  <2> SUFFICES ASSUME Parts, Ordered, LiveNext, NEW q \in Query \cap Announced,
                      NEW v \in Version, Informed(q, v), cache[q].data # 0, Observed(q), Observed(q)'
               PROVE  Informed(q, v)' \/ Excused(q)
    BY DEF Excused
  <2>1. CASE \E r \in Query : Poll(r) \/ Serve(r) \/ TakeAnswer(r) \/ FetchFails(r)
    BY <2>1, CacheStepInforms
  <2>2. CASE \/ \E r \in Topic : Change(r) \/ Announce(r)
             \/ \E r \in Metric : Sample(r) \/ Broadcast(r)
    BY <2>2, ApiStepInforms
  <2>3. CASE \/ OpenSocket \/ Connects \/ Authenticate \/ ConnectionLost \/ ApiRestarts
             \/ \E r \in Topic : Subscribe(r)
    BY <2>3, SocketStepInforms
  <2>4. CASE OnMessage
    BY <2>4, OnMessageInforms
  <2>5. CASE \/ \E p \in Page : Navigate(p)
             \/ SignOut \/ SessionLost \/ MutationServed \/ MutationThrows \/ MutationFails \/ MutationAnswered
    BY <2>5, UserStepInforms
  <2> QED BY <2>1, <2>2, <2>3, <2>4, <2>5 DEF LiveNext
<1> QED BY <1>1, OrderedInvariant, PTL DEF LiveSpec, UpdatesAreNotForgotten
=============================================================================
