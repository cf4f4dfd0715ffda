---------------------------- MODULE LiveDashboard ----------------------------
(***************************************************************************)
(* One browser tab of the dashboard against the API: the query cache with   *)
(* its polling, the socket whose events make the cache fetch again, and the  *)
(* metrics the API broadcasts.                                              *)
(*                                                                         *)
(* What a query returns is a version number, 0 for nothing yet: the program *)
(* never looks into the data to keep it current.  Signing in and out is      *)
(* WebSession's matter and happens here as it may; a request that meets an   *)
(* expired token is refreshed there and counts as under way here.           *)
(***************************************************************************)
EXTENDS Naturals, Sequences, FiniteSets, SequencesExt

CONSTANTS
  Query,       \* the queries whose cache is followed
  Metric,      \* the broadcast metrics that are followed
  Visited,     \* the pages the user goes to
  MaxVersion,  \* bound: versions of what a query returns
  MaxChanges,  \* bound: changes in all
  Budget       \* bound: failed requests, lost connections and sessions, restarts

Announced == {"tasks", "workers"}     \* kept current by events
Broadcasted == {"system", "queues"}   \* sent to every socket at an interval

ASSUME LiveAssumption ==
  /\ Query \subseteq Announced \cup Broadcasted \cup {"active"} /\ Metric \subseteq Broadcasted
  /\ MaxVersion \in Nat \ {0} /\ MaxChanges \in Nat /\ Budget \in Nat

VARIABLES
  world,     \* the version the API would answer a query with
  due,       \* events of committed changes that are yet to be published
  samples,   \* per metric: the versions read and not yet emitted
  sock,      \* the phase the socket is in
  rooms,     \* the rooms the API has put it in, besides the metrics room
  wire, up,  \* what is on its way to the tab, and the subscriptions to the API
  cache,     \* the query cache
  latest,    \* the socket store: metrics received last
  page,
  mutation,  \* the command a button or the dialog has sent
  faults

apiVars == <<world, due, samples>>
socketVars == <<sock, rooms, wire, up>>
tabVars == <<cache, latest, page, mutation>>
liveVars == <<apiVars, socketVars, tabVars, faults>>

Topic == Query \cup Metric
Version == 1..MaxVersion

\* fetch: under way, and whether its answer is on the way back.
Entry == [data : 0..MaxVersion, fetch : {"idle", "out", "answered"}, answer : 0..MaxVersion,
          stale : BOOLEAN, failed : BOOLEAN]
NoEntry == [data |-> 0, fetch |-> "idle", answer |-> 0, stale |-> FALSE, failed |-> FALSE]

\* None; opening, and again after a loss; open but not yet authenticated;
\* ready; closed by the API, which socket.io does not reopen.
Socket == {"none", "opening", "open", "ready", "closed"}
-----------------------------------------------------------------------------
(* Pages                                                                    *)

HeaderQueries == {"queues"}
OverviewQueries == {"system", "active", "tasks"}
TasksQueries == {"tasks"}
WorkersQueries == {"workers"}
MonitoringQueries == {"queues", "system"}
AnalyticsQueries == {"system"}

Shows == [dashboard |-> OverviewQueries, tasks |-> TasksQueries, workers |-> WorkersQueries,
          monitoring |-> MonitoringQueries, analytics |-> AnalyticsQueries]
Page == DOMAIN Shows \cap Visited
ShownOn(p) == IF p = "login" THEN {} ELSE (Shows[p] \cup HeaderQueries) \cap Query
Observed(q) == q \in ShownOn(page)

LiveInit ==
  /\ world = [q \in Topic |-> 1] /\ due = {} /\ samples = [q \in Metric |-> {}]
  /\ sock = "none" /\ rooms = {} /\ wire = <<>> /\ up = {}
  /\ cache = [q \in Query |-> NoEntry] /\ latest = [q \in Metric |-> 0]
  /\ page = "login" /\ mutation = "none" /\ faults = 0
-----------------------------------------------------------------------------
(* The query cache                                                          *)

\* Mutant: the answer of the request that is given up is kept.
Fetching_KeepsAnswer(e) == [e EXCEPT !.fetch = "out"]

Fetching(e) == [e EXCEPT !.fetch = "out", !.answer = 0]

\* Mutant: a fetch under way is joined, even if it was answered before the event.
Invalidated_Joins(e) == IF e.fetch = "idle" THEN Fetching(e) ELSE [e EXCEPT !.stale = TRUE]

\* A query on screen is fetched again and the fetch under way is given up; while
\* the very first one is under way, it is joined.
Invalidated(e) ==
  IF e.fetch # "idle" /\ e.data = 0 THEN [e EXCEPT !.stale = TRUE] ELSE Fetching([e EXCEPT !.stale = TRUE])

Invalidate(q) ==
  IF q \notin Query THEN cache
  ELSE [cache EXCEPT ![q] = IF Observed(q) THEN Invalidated(@) ELSE [@ EXCEPT !.stale = TRUE]]

\* Mutant: what was loaded once is kept.
Taken_First(e) == [e EXCEPT !.data = IF @ = 0 THEN e.answer ELSE @,
                            !.fetch = "idle", !.answer = 0, !.stale = FALSE, !.failed = FALSE]

Taken(e) == [data |-> e.answer, fetch |-> "idle", answer |-> 0, stale |-> FALSE, failed |-> FALSE]

\* A page shows what the cache has, and fetches what is missing, invalidated or
\* older than staleTime.
Mounted(e, old) ==
  IF e.fetch = "idle" /\ (e.data = 0 \/ e.stale \/ old) THEN Fetching(e) ELSE e

\* refetchInterval: nothing happens while a fetch is under way.
Poll(q) ==
  /\ Observed(q) /\ cache[q].fetch = "idle"
  /\ cache' = [cache EXCEPT ![q] = Fetching(@)]
  /\ UNCHANGED <<apiVars, socketVars, latest, page, mutation, faults>>

\* The API runs the query.
Serve(q) ==
  /\ cache[q].fetch = "out"
  /\ cache' = [cache EXCEPT ![q].fetch = "answered", ![q].answer = world[q]]
  /\ UNCHANGED <<apiVars, socketVars, latest, page, mutation, faults>>

TakeAnswer(q) ==
  /\ cache[q].fetch = "answered"
  /\ cache' = [cache EXCEPT ![q] = Taken(@)]
  /\ UNCHANGED <<apiVars, socketVars, latest, page, mutation, faults>>

\* The request and its one repetition fail; what was shown stays.
FetchFails(q) ==
  /\ cache[q].fetch # "idle" /\ faults < Budget
  /\ cache' = [cache EXCEPT ![q].fetch = "idle", ![q].answer = 0, ![q].failed = TRUE]
  /\ faults' = faults + 1
  /\ UNCHANGED <<apiVars, socketVars, latest, page, mutation>>
-----------------------------------------------------------------------------
(* The API                                                                  *)

\* Every topic starts at version 1.
Changes == FoldFunction(+, 0, world) - Cardinality(Topic)
MayChange(q) == q \in Topic /\ world[q] < MaxVersion /\ Changes < MaxChanges

\* A change is committed; its event is still to be published.
Committed(q) ==
  /\ MayChange(q)
  /\ world' = [world EXCEPT ![q] = @ + 1]
  /\ due' = due \cup ({q} \cap Announced)

\* A change whose handler throws after it has committed publishes no event: a retry
\* that cannot be published, a heartbeat whose metrics row is not stored, an update
\* whose answer is lost.
CommittedInSilence(q) ==
  /\ MayChange(q)
  /\ world' = [world EXCEPT ![q] = @ + 1] /\ UNCHANGED due

Change(q) ==
  /\ Committed(q) \/ CommittedInSilence(q)
  /\ UNCHANGED <<samples, socketVars, tabVars, faults>>

\* The event handlers call the gateway, which emits to the event's room.
Announce(q) ==
  /\ q \in due /\ due' = due \ {q}
  /\ wire' = IF q \in rooms THEN Append(wire, [kind |-> q, value |-> 0]) ELSE wire
  /\ UNCHANGED <<world, samples, sock, rooms, up, tabVars, faults>>

\* The broadcaster reads at each tick, whether or not the last one has emitted:
\* two are followed at a time.
Sample(q) ==
  /\ Cardinality(samples[q]) < 2
  /\ samples' = [samples EXCEPT ![q] = @ \cup {world[q]}]
  /\ UNCHANGED <<world, due, socketVars, tabVars, faults>>

\* Bound: one broadcast of a kind on the wire.
Broadcast(q) ==
  /\ \A i \in DOMAIN wire : wire[i].kind # q
  /\ \E v \in samples[q] :
       /\ samples' = [samples EXCEPT ![q] = @ \ {v}]
       /\ wire' = IF sock = "ready" THEN Append(wire, [kind |-> q, value |-> v]) ELSE wire
  /\ UNCHANGED <<world, due, sock, rooms, up, tabVars, faults>>
-----------------------------------------------------------------------------
(* The socket                                                               *)

Disconnected(phase) ==
  /\ sock' = phase /\ rooms' = {} /\ wire' = <<>> /\ up' = {}

\* The effect of the header: one socket per tab.
OpenSocket ==
  /\ page # "login" /\ sock = "none" /\ sock' = "opening"
  /\ UNCHANGED <<apiVars, rooms, wire, up, tabVars, faults>>

\* The header says "live" from here on.
Connects ==
  /\ sock = "opening" /\ sock' = "open"
  /\ UNCHANGED <<apiVars, rooms, wire, up, tabVars, faults>>

\* handleConnection.  Nondeterministic: the socket keeps the token it was made with
\* when the tab's is renewed, so it may have expired whenever the socket connects.
Authenticate ==
  /\ sock = "open"
  /\ \/ sock' = "ready" /\ wire' = Append(wire, [kind |-> "connected", value |-> 0])
        /\ UNCHANGED <<rooms, up>>
     \/ Disconnected("closed")
  /\ UNCHANGED <<apiVars, tabVars, faults>>

\* handleSubscribe
Subscribe(room) ==
  /\ room \in up /\ up' = up \ {room} /\ rooms' = rooms \cup {room}
  /\ UNCHANGED <<apiVars, sock, wire, tabVars, faults>>

\* Mutant: the store keeps the first snapshot.
SetMetrics_First(old, new) == IF old = 0 THEN new ELSE old

SetMetrics(old, new) == new

\* The listeners of useSocket.
OnMessage ==
  /\ wire # <<>> /\ wire' = Tail(wire)
  /\ LET m == Head(wire) IN
     CASE m.kind = "connected" -> up' = Announced \cap Query /\ UNCHANGED <<cache, latest>>
       [] m.kind \in Announced -> cache' = Invalidate(m.kind) /\ UNCHANGED <<up, latest>>
       [] m.kind \in Broadcasted ->
            /\ latest' = [latest EXCEPT ![m.kind] = SetMetrics(@, m.value)]
            /\ UNCHANGED <<up, cache>>
  /\ UNCHANGED <<apiVars, sock, rooms, page, mutation, faults>>

\* socket.io opens a lost connection again; the rooms and what was sent are gone.
ConnectionLost ==
  /\ sock \in {"open", "ready"} /\ faults < Budget
  /\ Disconnected("opening") /\ faults' = faults + 1
  /\ UNCHANGED <<apiVars, tabVars>>

\* Events that were to be published are lost with the process.
ApiRestarts ==
  /\ faults < Budget /\ faults' = faults + 1
  /\ due' = {} /\ samples' = [q \in Metric |-> {}]
  /\ IF sock \in {"open", "ready"} THEN Disconnected("opening") ELSE UNCHANGED socketVars
  /\ UNCHANGED <<world, tabVars>>
-----------------------------------------------------------------------------
(* The user                                                                 *)

\* Nondeterministic: which of the cached queries are older than staleTime.
Turn(to) ==
  /\ page' = to
  /\ \E old \in SUBSET (ShownOn(to) \ ShownOn(page)) :
       cache' = [q \in Query |->
         IF q \in ShownOn(to) \ ShownOn(page) THEN Mounted(cache[q], q \in old) ELSE cache[q]]

\* Signing in leads to the dashboard.
Navigate(to) ==
  /\ to # page /\ (page = "login" => to = "dashboard") /\ Turn(to)
  /\ UNCHANGED <<apiVars, socketVars, latest, mutation, faults>>

\* The log-out button disconnects the socket; the cache and the store stay.
SignOut ==
  /\ page # "login" /\ page' = "login"
  /\ Disconnected("none")
  /\ UNCHANGED <<apiVars, cache, latest, mutation, faults>>

\* A refresh that failed clears the tokens and leaves the socket as it is.
SessionLost ==
  /\ page # "login" /\ page' = "login" /\ faults < Budget /\ faults' = faults + 1
  /\ UNCHANGED <<apiVars, socketVars, cache, latest, mutation>>

\* A button of a row or the dialog has sent a command and the API has carried it
\* out; the next waits for its answer.
MutationServed ==
  /\ page # "login" /\ mutation # "served" /\ mutation' = "served" /\ Committed("tasks")
  /\ UNCHANGED <<samples, socketVars, cache, latest, page, faults>>

\* The handler throws although the change is there: an error message.
MutationThrows ==
  /\ page # "login" /\ mutation # "served" /\ mutation' = "lost" /\ CommittedInSilence("tasks")
  /\ UNCHANGED <<samples, socketVars, cache, latest, page, faults>>

\* The answer is lost: an error message.
MutationFails ==
  /\ mutation = "served" /\ mutation' = "lost"
  /\ UNCHANGED <<apiVars, socketVars, cache, latest, page, faults>>

\* Mutant: nothing is invalidated.
OnSuccess_Nothing == cache

OnSuccess == Invalidate("tasks")

MutationAnswered ==
  /\ mutation = "served" /\ mutation' = "none" /\ cache' = OnSuccess
  /\ UNCHANGED <<apiVars, socketVars, latest, page, faults>>
-----------------------------------------------------------------------------
LiveNext ==
  \/ \E q \in Query : Poll(q) \/ Serve(q) \/ TakeAnswer(q) \/ FetchFails(q)
  \/ \E q \in Topic : Change(q) \/ Announce(q) \/ Subscribe(q)
  \/ \E q \in Metric : Sample(q) \/ Broadcast(q)
  \/ OpenSocket \/ Connects \/ Authenticate \/ OnMessage
  \/ ConnectionLost \/ ApiRestarts
  \/ \E p \in Page : Navigate(p)
  \/ SignOut \/ SessionLost
  \/ MutationServed \/ MutationThrows \/ MutationFails \/ MutationAnswered

LiveSpec == LiveInit /\ [][LiveNext]_liveVars

\* Requests are served and answered, events published and delivered, broadcasts
\* made; faults, the user and the polling interval are not relied on.
FairLive ==
  /\ LiveSpec
  /\ WF_liveVars(OnMessage) /\ WF_liveVars(MutationAnswered)
  /\ \A q \in Query : WF_liveVars(Serve(q) \/ TakeAnswer(q))
  /\ \A q \in Query \cap Announced : WF_liveVars(Announce(q))
  /\ \A q \in Metric : WF_liveVars(Sample(q)) /\ WF_liveVars(Broadcast(q))

Message == [kind : Announced \cup Broadcasted \cup {"connected"}, value : 0..MaxVersion]

LiveTypeOK ==
  /\ world \in [Topic -> Version] /\ due \subseteq Announced \cap Query
  /\ samples \in [Metric -> SUBSET Version] /\ sock \in Socket
  /\ rooms \subseteq Announced /\ up \subseteq Announced /\ wire \in Seq(Message)
  /\ cache \in [Query -> Entry] /\ latest \in [Metric -> 0..MaxVersion]
  /\ \A q \in Query : cache[q].fetch = "answered" <=> cache[q].answer # 0
  /\ page \in Page \cup {"login"} /\ mutation \in {"none", "served", "lost"}
  /\ faults \in 0..Budget
-----------------------------------------------------------------------------
(* Properties                                                               *)

Behind(q) == cache[q].data < world[q]

\* A tab that is in the room and has loaded the list is brought up to date by the
\* next event, without polling: with the change the event is about and all that were
\* committed before it is published, announced or not, whatever fetch is under way
\* when the event comes, and whatever changes again meanwhile.
PushSuffices ==
  \A q \in Query \cap Announced, v \in 2..MaxVersion :
    (q \in due /\ q \in rooms /\ Observed(q) /\ cache[q].data # 0 /\ world[q] = v)
      ~> (cache[q].data >= v \/ q \notin rooms \/ ~Observed(q) \/ cache[q].failed)

\* An event, or a fetch that will bring version v, is on its way to the tab.
Coming(q, v) ==
  \/ q \in due /\ q \in rooms
  \/ \E i \in DOMAIN wire : wire[i].kind = q
  \/ cache[q].fetch = "out"
  \/ cache[q].fetch = "answered" /\ cache[q].answer >= v
Informed(q, v) == v <= world[q] /\ (cache[q].data >= v \/ Coming(q, v))

\* The safety half of it: a version that a page shows, or has coming, is not lost to
\* it again, unless the fetch fails or the tab is not in the room: neither to
\* changes that share an event, are not announced or meet an answered fetch, nor to
\* older answers, polling, navigation, commands or messages of other kinds.
UpdatesAreNotForgotten ==
  [][\A q \in Query \cap Announced, v \in Version :
       Informed(q, v) /\ cache[q].data # 0 /\ Observed(q) /\ Observed(q)'
         => \/ Informed(q, v)' \/ q \notin rooms'
            \/ cache'[q].failed /\ cache'[q].fetch = "idle"]_liveVars

\* As long as the interval keeps firing, what is on screen catches up, whatever
\* events were missed before the subscription or with a lost connection.
PollingCatchesUp ==
  \A q \in Query :
    []<><<Poll(q)>>_liveVars => ((Observed(q) /\ Behind(q)) ~> (~Behind(q) \/ ~Observed(q)))

\* A tab shows its own commands with or without a socket, unless they are answered
\* by an error or their answer is lost; other changes may come in between.
OwnCommandsShow ==
  \A v \in 2..MaxVersion :
    (mutation = "served" /\ Observed("tasks") /\ cache["tasks"].data # 0 /\ world["tasks"] = v)
      ~> (cache["tasks"].data >= v \/ ~Observed("tasks") \/ cache["tasks"].failed
          \/ mutation = "lost")

\* The metrics of a socket that is ready catch up, although broadcasts that overlap
\* may arrive in the wrong order.
MetricsKeepUp ==
  \A q \in Metric :
    (sock = "ready" /\ latest[q] < world[q])
      ~> (latest[q] = world[q] \/ sock # "ready")
=============================================================================
