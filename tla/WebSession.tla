----------------------------- MODULE WebSession -----------------------------
(***************************************************************************)
(* Browser tabs of the dashboard and the session they share with the API:   *)
(* the interceptors of services/api-client.ts, the token store persisted in  *)
(* localStorage, the sign-in forms, the sign-out button, against the         *)
(* handlers of AuthSession.                                                  *)
(*                                                                         *)
(* A tab's requests are its calls, one sign-in form and one token refresh;   *)
(* <<t, "form">> and <<t, "refresh">> are the handlers that serve the last   *)
(* two.  What other clients do to an account reaches the tabs as the writes   *)
(* of a logout and of an ADMIN's update, which need no snapshot.             *)
(***************************************************************************)
EXTENDS AuthSession

CONSTANTS
  Tab,
  Call, CallsOf,   \* the calls of all tabs, and those each may have out at a time
  FormTab,         \* the tabs whose users sign in; the others find the session stored
  NoCall

VARIABLES
  store,     \* per tab: the tokens in memory
  writer,    \* the tab that wrote localStorage last: its tokens are what is there
  call,      \* per tab and call: how far it is
  refreshing,\* per tab: the token refresh under way
  submitted  \* per tab: its sign-in form awaits an answer

tabVars == <<store, writer, call, refreshing, submitted>>
webVars == <<account, auth, tabVars>>

FormOf(t) == <<t, "form">>
RefreshOf(t) == <<t, "refresh">>
TabRequest == Tab \X {"form", "refresh"}

ASSUME WebAssumption ==
  /\ Request = TabRequest
  /\ CallsOf \in [Tab -> SUBSET Call] /\ NoCall \notin Call /\ FormTab \subseteq Tab

\* Whose tokens, and whether the access token has run out.  Whether a newer pair
\* was issued is for the API to say, and makes no difference there.
Tokens == [access : {"live", "expired"}, user : User]
NoTokens == [access |-> "none"]
SignedIn(t) == store[t] # NoTokens

CallState == [pc : {"idle", "sent", "refused", "waiting", "refreshing", "forgotten"},
              user : User \cup {NoUser}, access : {"live", "expired"}, again : BOOLEAN]
IdleCall == [pc |-> "idle", user |-> NoUser, access |-> "live", again |-> FALSE]

\* pc: on its way, being served, answered with tokens, refused or lost.
RefreshState == [pc : {"sent", "answered"}, user : User, lead : Call]
                \cup [pc : {"none", "serving", "failed"}, lead : Call \cup {NoCall}]
NoRefresh == [pc |-> "none", lead |-> NoCall]

WebInit ==
  /\ AuthInit
  /\ store = [t \in Tab |-> NoTokens] /\ writer \in Tab
  /\ call = [t \in Tab |-> [c \in Call |-> IdleCall]]
  /\ refreshing = [t \in Tab |-> NoRefresh] /\ submitted = [t \in Tab |-> FALSE]

Keep(t, tokens) == store' = [store EXCEPT ![t] = tokens] /\ writer' = t

\* Mutant: the refresh token is not kept.
Fresh_AccessOnly(u) == [access |-> "live"]

Fresh(u) == [access |-> "live", user |-> u]
-----------------------------------------------------------------------------
(* The API's side                                                           *)

\* A handler stores a new hash and answers with the pair.  A form takes its
\* answer at once; a refresh that was given up meanwhile takes none.
IssueAndAnswer(r) ==
  /\ Issue(r)
  /\ LET Answers(t) == r = FormOf(t) /\ submitted[t] IN
     /\ store' = [t \in Tab |-> IF Answers(t) THEN Fresh(auth[r].user) ELSE store[t]]
     /\ writer' = IF \E t \in Tab : Answers(t) THEN r[1] ELSE writer
     /\ submitted' = [t \in Tab |-> submitted[t] /\ ~Answers(t)]
  /\ refreshing' = [t \in Tab |->
       IF r = RefreshOf(t) /\ refreshing[t].pc = "serving"
       THEN [pc |-> "answered", user |-> auth[r].user, lead |-> refreshing[t].lead]
       ELSE refreshing[t]]
  /\ UNCHANGED call

\* Handler r ended without tokens to give: an error is the answer.
AnswerError(r) ==
  /\ refreshing' = [t \in Tab |->
       IF r = RefreshOf(t) /\ refreshing[t].pc = "serving"
       THEN [pc |-> "failed", lead |-> refreshing[t].lead] ELSE refreshing[t]]
  /\ submitted' = [t \in Tab |-> submitted[t] /\ r # FormOf(t)]
  /\ UNCHANGED <<store, writer, call>>

\* A registration that lost the address to another is answered with a conflict.
RegisterGoesOn(r) ==
  /\ RegisterCount(r) \/ RegisterCreate(r)
  /\ IF auth'[r].pc = "idle" THEN AnswerError(r) ELSE UNCHANGED tabVars

\* No handler of a tab gets to "revoke": every token of the user matches the hash.
HandlerStep(r) == IssueAndAnswer(r) \/ RegisterGoesOn(r)

HandlerFails(r) == HandlerDies(r) /\ AnswerError(r)

\* Elsewhere the user logs out.
LoggedOutElsewhere(u) ==
  /\ account[u].active /\ account[u].session
  /\ account' = [account EXCEPT ![u].session = FALSE]
  /\ UNCHANGED <<auth, tabVars>>

\* The refresh request arrives; what it finds decides at once, or a handler does.
RefreshArrives(t) ==
  /\ refreshing[t].pc = "sent" /\ auth[RefreshOf(t)].pc = "idle"
  /\ LET u == refreshing[t].user IN
     IF MayRefresh(u)
     THEN /\ \E turn \in {"latest", "rotated"} : Refresh(RefreshOf(t), [user |-> u, turn |-> turn])
          /\ refreshing' = [refreshing EXCEPT ![t] = [pc |-> "serving", lead |-> @.lead]]
     ELSE /\ refreshing' = [refreshing EXCEPT ![t] = [pc |-> "failed", lead |-> @.lead]]
          /\ UNCHANGED authVars
  /\ UNCHANGED <<store, writer, call, submitted>>

\* The network fails the refresh, wherever it is, or its token has run out.
RefreshLost(t) ==
  /\ refreshing[t].pc \in {"sent", "serving", "answered"}
  /\ refreshing' = [refreshing EXCEPT ![t] = [pc |-> "failed", lead |-> @.lead]]
  /\ UNCHANGED <<account, auth, store, writer, call, submitted>>
-----------------------------------------------------------------------------
(* Calls                                                                    *)

SetCall(t, c, state) == call' = [call EXCEPT ![t][c] = state]
Settle(t, c) == SetCall(t, c, IdleCall)

\* The request interceptor attaches the token the store holds.
Send(t, c) ==
  /\ SignedIn(t) /\ c \in CallsOf[t] /\ call[t][c].pc = "idle"
  /\ SetCall(t, c, [IdleCall EXCEPT !.pc = "sent", !.user = store[t].user,
                                    !.access = store[t].access])
  /\ UNCHANGED <<account, auth, store, writer, refreshing, submitted>>

\* JwtAuthGuard lets a call pass whose token is live and whose user is active.
CallAnswered(t, c) ==
  /\ call[t][c].pc = "sent"
  /\ IF call[t][c].access = "live" /\ account[call[t][c].user].active
     THEN Settle(t, c)
     ELSE SetCall(t, c, [IdleCall EXCEPT !.pc = "refused", !.again = call[t][c].again])
  /\ UNCHANGED <<account, auth, store, writer, refreshing, submitted>>

\* An answer that is no 401, or none within 15 s, rejects the call.
CallLost(t, c) ==
  /\ call[t][c].pc = "sent" /\ Settle(t, c)
  /\ UNCHANGED <<account, auth, store, writer, refreshing, submitted>>

\* The response interceptor gets a 401.
OnRefused(t, c) ==
  /\ call[t][c].pc = "refused"
  /\ CASE call[t][c].again -> Settle(t, c) /\ UNCHANGED <<store, writer, refreshing>>
       [] ~call[t][c].again /\ ~SignedIn(t) ->
            Settle(t, c) /\ Keep(t, NoTokens) /\ UNCHANGED refreshing
       [] ~call[t][c].again /\ SignedIn(t) /\ refreshing[t].pc # "none" ->
            /\ SetCall(t, c, [IdleCall EXCEPT !.pc = "waiting"])
            /\ UNCHANGED <<store, writer, refreshing>>
       [] OTHER ->
            /\ SetCall(t, c, [IdleCall EXCEPT !.pc = "refreshing"])
            /\ refreshing' = [refreshing EXCEPT ![t] =
                 [pc |-> "sent", user |-> store[t].user, lead |-> c]]
            /\ UNCHANGED <<store, writer>>
  /\ UNCHANGED <<account, auth, submitted>>

\* Mutant: only the call that led the refresh is sent again.
Resent_LeaderOnly(state, user) ==
  CASE state.pc = "waiting" -> [state EXCEPT !.pc = "forgotten"]
    [] state.pc = "refreshing" -> [pc |-> "sent", user |-> user, access |-> "live", again |-> TRUE]
    [] OTHER -> state

\* The refresh is over: its own call and the waiting ones are sent again.
Resent(state, user) ==
  IF state.pc \in {"waiting", "refreshing"}
  THEN [pc |-> "sent", user |-> user, access |-> "live", again |-> TRUE] ELSE state

RefreshSucceeds(t) ==
  /\ refreshing[t].pc = "answered"
  /\ Keep(t, Fresh(refreshing[t].user))
  /\ call' = [call EXCEPT ![t] = [c \in Call |-> Resent(@[c], refreshing[t].user)]]
  /\ refreshing' = [refreshing EXCEPT ![t] = NoRefresh]
  /\ UNCHANGED <<account, auth, submitted>>

\* Mutant: the list keeps the waiting ones.
Dropped_KeepsWaiting(state) == IF state.pc = "refreshing" THEN IdleCall ELSE state

\* Its own call is rejected; the waiting ones are dropped from the list and
\* their promises stay as they are.
Dropped(state) ==
  CASE state.pc = "waiting" -> [state EXCEPT !.pc = "forgotten"]
    [] state.pc = "refreshing" -> IdleCall
    [] OTHER -> state

RefreshFails(t) ==
  /\ refreshing[t].pc = "failed"
  /\ Keep(t, NoTokens)
  /\ call' = [call EXCEPT ![t] = [c \in Call |-> Dropped(@[c])]]
  /\ refreshing' = [refreshing EXCEPT ![t] = NoRefresh]
  /\ UNCHANGED <<account, auth, submitted>>
-----------------------------------------------------------------------------
(* The user of a tab                                                        *)

\* AuthGuard shows the forms to a tab without tokens.
SubmitForm(t) ==
  /\ t \in FormTab /\ ~SignedIn(t) /\ ~submitted[t]
  /\ \E u \in User : Login(FormOf(t), u) \/ RegisterLookup(FormOf(t), u)
  /\ submitted' = [submitted EXCEPT ![t] = TRUE]
  /\ UNCHANGED <<store, writer, call, refreshing>>

\* A wrong password is a 401 too: the interceptor clears the empty session, which
\* empties localStorage.
FormRefused(t) ==
  /\ t \in FormTab /\ ~SignedIn(t) /\ ~submitted[t] /\ Keep(t, NoTokens)
  /\ UNCHANGED <<account, auth, call, refreshing, submitted>>

\* Signing out forgets the tokens; the API is not told.
SignOut(t) ==
  /\ SignedIn(t) /\ Keep(t, NoTokens)
  /\ UNCHANGED <<account, auth, call, refreshing, submitted>>

\* A reloaded tab starts from localStorage; what it had out has no one left.
Reload(t) ==
  /\ store' = [store EXCEPT ![t] = store[writer]]
  /\ call' = [call EXCEPT ![t] = [c \in Call |-> IdleCall]]
  /\ refreshing' = [refreshing EXCEPT ![t] = NoRefresh]
  /\ submitted' = [submitted EXCEPT ![t] = FALSE]
  /\ UNCHANGED <<account, auth, writer>>

Aged(state) == IF state.pc = "sent" THEN [state EXCEPT !.access = "expired"] ELSE state

\* The tab's access token runs out, and a call that is on its way arrives with it.
AccessExpires(t) ==
  /\ SignedIn(t) /\ store[t].access = "live"
  /\ store' = [store EXCEPT ![t].access = "expired"]
  /\ call' = [call EXCEPT ![t] = [c \in Call |-> Aged(call[t][c])]]
  /\ UNCHANGED <<account, auth, writer, refreshing, submitted>>

-----------------------------------------------------------------------------
\* What goes on by itself once it was begun.
Ongoing ==
  \/ \E r \in Request : HandlerStep(r)
  \/ \E t \in Tab : \/ RefreshArrives(t) \/ RefreshSucceeds(t) \/ RefreshFails(t)
                    \/ \E c \in Call : CallAnswered(t, c) \/ OnRefused(t, c)

FromOutside ==
  \/ \E r \in Request : HandlerFails(r)
  \/ \E u \in User : LoggedOutElsewhere(u)
  \/ \E t \in Tab : \/ RefreshLost(t) \/ SubmitForm(t) \/ FormRefused(t) \/ SignOut(t) \/ Reload(t)
                    \/ AccessExpires(t)
                    \/ \E c \in Call : Send(t, c) \/ CallLost(t, c)

WebNext == Ongoing \/ FromOutside
WebSpec == WebInit /\ [][WebNext]_webVars

\* A call ends, by its time limit of 15 s if nothing else, and an interceptor that has
\* its answer goes on.  The request of a refresh has no time limit: nothing makes the
\* network or the API answer it, and neither faults nor users are relied on.
FairWeb ==
  /\ WebSpec
  /\ \A t \in Tab :
       /\ WF_webVars(RefreshSucceeds(t) \/ RefreshFails(t))
       /\ \A c \in CallsOf[t] : WF_webVars(CallAnswered(t, c) \/ CallLost(t, c) \/ OnRefused(t, c))

WebTypeOK ==
  /\ AuthTypeOK
  /\ store \in [Tab -> Tokens \cup {NoTokens}] /\ writer \in Tab
  /\ call \in [Tab -> [Call -> CallState]]
  /\ refreshing \in [Tab -> RefreshState] /\ submitted \in [Tab -> BOOLEAN]
-----------------------------------------------------------------------------
(* Properties                                                               *)

Out(t, c) == call[t][c].pc \notin {"idle", "forgotten"}

\* A call waits only while a refresh is under way in its tab that will wake or
\* drop it, and the refresh is led by a call of the tab: no interleaving of late
\* 401s, sign-outs and refreshes leaves a call in the list after the refresh.
WaitingHaveALeader ==
  \A t \in Tab, c \in Call :
    call[t][c].pc = "waiting" =>
      /\ refreshing[t].pc # "none"
      /\ call[t][refreshing[t].lead].pc = "refreshing"

Unanswered(t) == refreshing[t].pc \in {"sent", "serving"}

\* In a tab none of whose refreshes stays without an answer for ever, a call that is
\* out comes to an end, or is dropped when the tab loses its session: tabs of one user
\* that refresh at once, each with the other's tokens rotated away, and late 401s never
\* keep a call of a signed-in tab waiting.
CallsSettleUnlessSignedOut ==
  \A t \in Tab : \A c \in CallsOf[t] :
    <>[]Unanswered(t) \/
    (Out(t, c) ~> (call[t][c].pc = "idle" \/ (call[t][c].pc = "forgotten" /\ ~SignedIn(t))))
=============================================================================
