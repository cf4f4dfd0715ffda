--------------------------- MODULE WebSessionProofs ---------------------------
(***************************************************************************)
(* Theorems about WebSession, for any number of accounts, tabs and calls:   *)
(* the state is well formed, no call waits for a refresh that is not there,  *)
(* and the tabs use the API's handlers as AuthSession lets them.             *)
(***************************************************************************)
EXTENDS WebSession, AuthSessionProofs

\* A refresh and the call that leads it belong together, one for one, and a call
\* waits for a refresh that is under way: the inductive form of WaitingHaveALeader.
LeaderSound(calls, refresh) ==
  /\ refresh.pc # "none" => refresh.lead \in Call /\ calls[refresh.lead].pc = "refreshing"
  /\ \A c \in Call : calls[c].pc = "refreshing" => refresh.pc # "none" /\ refresh.lead = c
  /\ \A c \in Call : calls[c].pc = "waiting" => refresh.pc # "none"

Leaders == \A t \in Tab : LeaderSound(call[t], refreshing[t])

TabTypeOK ==
  /\ store \in [Tab -> Tokens \cup {NoTokens}] /\ writer \in Tab
  /\ call \in [Tab -> [Call -> CallState]]
  /\ refreshing \in [Tab -> RefreshState] /\ submitted \in [Tab -> BOOLEAN]

WebInv == AuthInv /\ TabTypeOK /\ Leaders
-----------------------------------------------------------------------------
(* The API's part of a step                                                 *)

\* The handlers of the tabs are requests of AuthSession.
LEMMA TabRequests ==
  \A t \in Tab : /\ FormOf(t) \in Request /\ RefreshOf(t) \in Request
                 /\ \A u \in Tab : FormOf(t) # RefreshOf(u)
BY WebAssumption DEF FormOf, RefreshOf, TabRequest

\* Every step of the web is one of AuthSession's, or leaves accounts and handlers
\* alone, or is a logout elsewhere.
LEMMA WebStepOfAuth ==
  ASSUME WebInv, WebNext
  PROVE  [AuthNext]_authVars \/ \E u \in User : LoggedOutElsewhere(u)
<1>1. ASSUME NEW r \in Request, HandlerStep(r) \/ HandlerFails(r) PROVE AuthNext
  BY <1>1 DEF HandlerStep, IssueAndAnswer, RegisterGoesOn, HandlerFails, AuthNext, AuthContinue
<1>2. ASSUME NEW t \in Tab, RefreshArrives(t) PROVE [AuthNext]_authVars
  <2>1. CASE MayRefresh(refreshing[t].user)
    <3>1. refreshing[t].user \in User
      BY <1>2 DEF WebInv, TabTypeOK, RefreshState, RefreshArrives
    <3> QED BY <1>2, <2>1, <3>1, TabRequests DEF RefreshArrives, AuthNext, AuthArrive
  <2>2. CASE ~MayRefresh(refreshing[t].user)
    BY <1>2, <2>2 DEF RefreshArrives
  <2> QED BY <2>1, <2>2
<1>3. ASSUME NEW t \in Tab, SubmitForm(t) PROVE AuthNext
  <2>1. PICK u \in User : Login(FormOf(t), u) \/ RegisterLookup(FormOf(t), u)
    BY <1>3 DEF SubmitForm
  <2> QED BY <2>1, TabRequests DEF AuthNext, AuthArrive
<1>4. ASSUME NEW t \in Tab, \/ RefreshSucceeds(t) \/ RefreshFails(t) \/ RefreshLost(t)
                            \/ FormRefused(t) \/ SignOut(t) \/ Reload(t) \/ AccessExpires(t)
      PROVE  UNCHANGED authVars
  BY <1>4 DEF RefreshSucceeds, RefreshFails, RefreshLost, FormRefused, SignOut, Reload,
     AccessExpires, authVars
<1>5. ASSUME NEW t \in Tab, NEW c \in Call,
             CallAnswered(t, c) \/ OnRefused(t, c) \/ Send(t, c) \/ CallLost(t, c)
      PROVE  UNCHANGED authVars
  BY <1>5 DEF CallAnswered, OnRefused, Send, CallLost, authVars
<1> QED BY <1>1, <1>2, <1>3, <1>4, <1>5 DEF WebNext, Ongoing, FromOutside

LEMMA ElsewhereKeeps ==
  ASSUME AuthInv, NEW u \in User, LoggedOutElsewhere(u)
  PROVE  AuthInv'
<1>1. AuthTypeOK' /\ RowSound'
  BY DEF AuthInv, AuthTypeOK, Account, RowSound, LoggedOutElsewhere
<1>2. Registered' = Registered
  BY DEF AuthInv, AuthTypeOK, Account, Registered, LoggedOutElsewhere
<1>3. \A r \in Request : HandlerSound(auth[r], Registered)'
  BY <1>2 DEF AuthInv, HandlerSound, LoggedOutElsewhere
<1> QED BY <1>1, <1>3 DEF AuthInv

LEMMA WebStepAuthInv == ASSUME WebInv, WebNext PROVE AuthInv'
BY WebStepOfAuth, StepInv, ElsewhereKeeps DEF WebInv
-----------------------------------------------------------------------------
(* The tabs' part of a step                                                 *)

LEMMA TokenTypes ==
  /\ \A u \in User : Fresh(u) \in Tokens
  /\ \A t \in Tab : TabTypeOK /\ SignedIn(t) => store[t] \in Tokens
  /\ NoTokens \notin Tokens
BY DEF Fresh, Tokens, NoTokens, SignedIn, TabTypeOK

LEMMA CallTypes ==
  /\ IdleCall \in CallState /\ IdleCall.pc = "idle"
  /\ NoRefresh \in RefreshState /\ NoRefresh.pc = "none"
BY DEF IdleCall, CallState, NoRefresh, RefreshState

\* What a record of a refresh is made of.
LEMMA RefreshShape ==
  ASSUME NEW f \in RefreshState
  PROVE  /\ f.lead \in Call \cup {NoCall}
         /\ f.pc \in {"sent", "answered"} => f.user \in User
         /\ f.pc \in {"sent", "answered", "none", "serving", "failed"}
BY DEF RefreshState

\* A refresh that has got further has the leader it had.
LEMMA FurtherRefresh ==
  ASSUME NEW f \in RefreshState, NEW calls, LeaderSound(calls, f), f.pc # "none"
  PROVE  /\ \A pc \in {"serving", "failed"} :
              /\ [pc |-> pc, lead |-> f.lead] \in RefreshState
              /\ LeaderSound(calls, [pc |-> pc, lead |-> f.lead])
         /\ \A u \in User :
              /\ [pc |-> "answered", user |-> u, lead |-> f.lead] \in RefreshState
              /\ LeaderSound(calls, [pc |-> "answered", user |-> u, lead |-> f.lead])
BY DEF LeaderSound, RefreshState

\* One tab's refresh gets further.
LEMMA RefreshMoves ==
  ASSUME WebInv, NEW t \in Tab, NEW f \in RefreshState, LeaderSound(call[t], f),
         refreshing' = [refreshing EXCEPT ![t] = f], UNCHANGED <<store, writer, call, submitted>>
  PROVE  TabTypeOK' /\ Leaders'
BY DEF WebInv, TabTypeOK, Leaders

\* One tab's calls, refresh and tokens change together.
LEMMA TabMoves ==
  ASSUME WebInv, NEW t \in Tab, NEW calls \in [Call -> CallState], NEW f \in RefreshState,
         LeaderSound(calls, f),
         call' = [call EXCEPT ![t] = calls], refreshing' = [refreshing EXCEPT ![t] = f],
         store' \in [Tab -> Tokens \cup {NoTokens}], writer' \in Tab,
         submitted' \in [Tab -> BOOLEAN]
  PROVE  TabTypeOK' /\ Leaders'
BY DEF WebInv, TabTypeOK, Leaders

\* The tokens and the form change; calls and refresh stay.
LEMMA TokensMove ==
  ASSUME WebInv, UNCHANGED <<call, refreshing>>,
         store' \in [Tab -> Tokens \cup {NoTokens}], writer' \in Tab,
         submitted' \in [Tab -> BOOLEAN]
  PROVE  TabTypeOK' /\ Leaders'
BY DEF WebInv, TabTypeOK, Leaders

LEMMA KeepType ==
  ASSUME TabTypeOK, NEW t \in Tab, NEW tokens \in Tokens \cup {NoTokens}, Keep(t, tokens)
  PROVE  store' \in [Tab -> Tokens \cup {NoTokens}] /\ writer' \in Tab
BY DEF Keep, TabTypeOK
-----------------------------------------------------------------------------
(* Answers of the API                                                       *)

LEMMA AnswerKeeps ==
  ASSUME WebInv, NEW r \in Request, IssueAndAnswer(r)
  PROVE  TabTypeOK' /\ Leaders'
<1> DEFINE Answers(t) == r = FormOf(t) /\ submitted[t]
           f(t) == IF r = RefreshOf(t) /\ refreshing[t].pc = "serving"
                   THEN [pc |-> "answered", user |-> auth[r].user, lead |-> refreshing[t].lead]
                   ELSE refreshing[t]
<1>1. auth[r].user \in User /\ Fresh(auth[r].user) \in Tokens
  BY TokenTypes DEF WebInv, AuthInv, HandlerSound, IssueAndAnswer, Issue
<1>2. \A t \in Tab : r = FormOf(t) => r[1] = t
  BY DEF FormOf
<1>3. store' \in [Tab -> Tokens \cup {NoTokens}]
  BY <1>1 DEF IssueAndAnswer, WebInv, TabTypeOK
<1>4. writer' \in Tab /\ submitted' \in [Tab -> BOOLEAN]
  BY <1>2 DEF IssueAndAnswer, WebInv, TabTypeOK
<1>5. ASSUME NEW t \in Tab PROVE f(t) \in RefreshState /\ LeaderSound(call[t], f(t))
  <2>1. refreshing[t] \in RefreshState /\ LeaderSound(call[t], refreshing[t])
    BY DEF WebInv, TabTypeOK, Leaders
  <2> QED BY <1>1, <2>1, FurtherRefresh
<1>6. call' = call /\ refreshing' = [t \in Tab |-> f(t)]
  BY DEF IssueAndAnswer
<1> HIDE DEF f
<1> QED BY <1>3, <1>4, <1>5, <1>6 DEF WebInv, TabTypeOK, Leaders

LEMMA ErrorKeeps ==
  ASSUME WebInv, NEW r, AnswerError(r)
  PROVE  TabTypeOK' /\ Leaders'
<1> DEFINE f(t) == IF r = RefreshOf(t) /\ refreshing[t].pc = "serving"
                   THEN [pc |-> "failed", lead |-> refreshing[t].lead] ELSE refreshing[t]
<1>1. ASSUME NEW t \in Tab PROVE f(t) \in RefreshState /\ LeaderSound(call[t], f(t))
  <2>1. refreshing[t] \in RefreshState /\ LeaderSound(call[t], refreshing[t])
    BY DEF WebInv, TabTypeOK, Leaders
  <2> QED BY <2>1, FurtherRefresh
<1>2. /\ submitted' \in [Tab -> BOOLEAN] /\ UNCHANGED <<store, writer, call>>
      /\ refreshing' = [t \in Tab |-> f(t)]
  BY DEF AnswerError, WebInv, TabTypeOK
<1> HIDE DEF f
<1> QED BY <1>1, <1>2 DEF WebInv, TabTypeOK, Leaders

LEMMA TabsStand ==
  ASSUME WebInv, UNCHANGED tabVars PROVE TabTypeOK' /\ Leaders'
BY DEF WebInv, TabTypeOK, Leaders, tabVars

LEMMA HandlersKeep ==
  ASSUME WebInv, NEW r \in Request, HandlerStep(r) \/ HandlerFails(r)
  PROVE  TabTypeOK' /\ Leaders'
BY AnswerKeeps, ErrorKeeps, TabsStand DEF HandlerStep, HandlerFails, RegisterGoesOn

LEMMA RefreshStepKeeps ==
  ASSUME WebInv, NEW t \in Tab, RefreshArrives(t) \/ RefreshLost(t)
  PROVE  TabTypeOK' /\ Leaders'
<1>1. refreshing[t] \in RefreshState /\ LeaderSound(call[t], refreshing[t])
  BY DEF WebInv, TabTypeOK, Leaders
<1>2. refreshing[t].pc # "none"
  BY DEF RefreshArrives, RefreshLost
<1>3. PICK pc \in {"serving", "failed"} :
        refreshing' = [refreshing EXCEPT ![t] = [pc |-> pc, lead |-> refreshing[t].lead]]
  BY DEF RefreshArrives, RefreshLost, WebInv, TabTypeOK
<1>4. UNCHANGED <<store, writer, call, submitted>>
  BY DEF RefreshArrives, RefreshLost
<1> QED BY <1>1, <1>2, <1>3, <1>4, FurtherRefresh, RefreshMoves
-----------------------------------------------------------------------------
(* Calls                                                                    *)

\* One call moves between states that neither lead nor wait.
LEMMA FreeCall ==
  ASSUME WebInv, NEW t \in Tab, NEW c \in Call, NEW st \in CallState,
         call[t][c].pc \notin {"refreshing", "waiting"}, st.pc \notin {"refreshing", "waiting"},
         SetCall(t, c, st), UNCHANGED <<refreshing, submitted>>,
         store' \in [Tab -> Tokens \cup {NoTokens}], writer' \in Tab
  PROVE  TabTypeOK' /\ Leaders'
<1> DEFINE calls == [call[t] EXCEPT ![c] = st]
<1>1. call[t] \in [Call -> CallState] /\ LeaderSound(call[t], refreshing[t])
      /\ refreshing[t] \in RefreshState
  BY DEF WebInv, TabTypeOK, Leaders
<1>2. calls \in [Call -> CallState] /\ LeaderSound(calls, refreshing[t])
  BY <1>1 DEF LeaderSound
<1>3. call' = [call EXCEPT ![t] = calls] /\ refreshing' = [refreshing EXCEPT ![t] = refreshing[t]]
  BY <1>1 DEF SetCall, WebInv, TabTypeOK
<1>4. submitted' \in [Tab -> BOOLEAN]
  BY DEF WebInv, TabTypeOK
<1> HIDE DEF calls
<1> QED BY <1>1, <1>2, <1>3, <1>4, TabMoves

LEMMA CallStepKeeps ==
  ASSUME WebInv, NEW t \in Tab, NEW c \in Call,
         Send(t, c) \/ CallAnswered(t, c) \/ CallLost(t, c)
  PROVE  TabTypeOK' /\ Leaders'
<1>1. UNCHANGED <<refreshing, submitted>> /\ store' \in [Tab -> Tokens \cup {NoTokens}] /\ writer' \in Tab
  BY DEF Send, CallAnswered, CallLost, WebInv, TabTypeOK
<1>2. CASE Send(t, c)
  <2> DEFINE st == [IdleCall EXCEPT !.pc = "sent", !.user = store[t].user, !.access = store[t].access]
  <2>1. store[t] \in Tokens
    BY <1>2, TokenTypes DEF WebInv, Send
  <2>2. st \in CallState /\ st.pc = "sent"
    BY <2>1 DEF IdleCall, CallState, Tokens
  <2>3. SetCall(t, c, st) /\ call[t][c].pc = "idle"
    BY <1>2 DEF Send
  <2> HIDE DEF st
  <2> QED BY <1>1, <2>2, <2>3, FreeCall
<1>3. CASE CallAnswered(t, c)
  <2> DEFINE st == [IdleCall EXCEPT !.pc = "refused", !.again = call[t][c].again]
  <2>1. st \in CallState /\ st.pc = "refused"
    BY DEF IdleCall, CallState, WebInv, TabTypeOK
  <2>2. SetCall(t, c, st) \/ SetCall(t, c, IdleCall)
    BY <1>3 DEF CallAnswered, Settle
  <2>3. call[t][c].pc = "sent"
    BY <1>3 DEF CallAnswered
  <2> HIDE DEF st
  <2> QED BY <1>1, <2>1, <2>2, <2>3, FreeCall, CallTypes
<1>4. CASE CallLost(t, c)
  BY <1>1, <1>4, FreeCall, CallTypes DEF CallLost, Settle
<1> QED BY <1>2, <1>3, <1>4

\* A call that is refused is rejected, waits for the refresh under way, or leads
\* one of its own: the only step that makes a leader, when there is none.
LEMMA OnRefusedKeeps ==
  ASSUME WebInv, NEW t \in Tab, NEW c \in Call, OnRefused(t, c)
  PROVE  TabTypeOK' /\ Leaders'
<1>1. /\ call[t] \in [Call -> CallState] /\ refreshing[t] \in RefreshState
      /\ LeaderSound(call[t], refreshing[t]) /\ store[t] \in Tokens \cup {NoTokens}
      /\ store \in [Tab -> Tokens \cup {NoTokens}] /\ writer \in Tab /\ submitted \in [Tab -> BOOLEAN]
      /\ call \in [Tab -> [Call -> CallState]] /\ refreshing \in [Tab -> RefreshState]
  BY DEF WebInv, TabTypeOK, Leaders
<1>2. call[t][c].pc = "refused" /\ submitted' = submitted
  BY DEF OnRefused
<1>3. CASE call[t][c].again \/ ~SignedIn(t)
  <2>1. SetCall(t, c, IdleCall) /\ UNCHANGED refreshing
    BY <1>3 DEF OnRefused, Settle
  <2>2. (UNCHANGED <<store, writer>>) \/ Keep(t, NoTokens)
    BY <1>3 DEF OnRefused
  <2>3. store' \in [Tab -> Tokens \cup {NoTokens}] /\ writer' \in Tab
    BY <1>1, <2>2 DEF Keep
  <2> QED BY <1>2, <2>1, <2>3, FreeCall, CallTypes
<1>4. CASE ~call[t][c].again /\ SignedIn(t) /\ refreshing[t].pc # "none"
  <2> DEFINE st == [IdleCall EXCEPT !.pc = "waiting"]
             calls == [call[t] EXCEPT ![c] = st]
  <2>1. st \in CallState /\ st.pc = "waiting"
    BY DEF IdleCall, CallState
  <2>2. SetCall(t, c, st) /\ UNCHANGED <<store, writer, refreshing>>
    BY <1>4 DEF OnRefused
  <2> HIDE DEF st
  <2>3. calls \in [Call -> CallState] /\ LeaderSound(calls, refreshing[t])
    BY <1>1, <1>2, <1>4, <2>1 DEF LeaderSound
  <2>4. call' = [call EXCEPT ![t] = calls] /\ refreshing' = [refreshing EXCEPT ![t] = refreshing[t]]
    BY <1>1, <2>2 DEF SetCall
  <2> HIDE DEF calls
  <2> QED BY <1>1, <1>2, <2>2, <2>3, <2>4, TabMoves
<1>5. CASE ~call[t][c].again /\ SignedIn(t) /\ refreshing[t].pc = "none"
  <2> DEFINE st == [IdleCall EXCEPT !.pc = "refreshing"]
             calls == [call[t] EXCEPT ![c] = st]
             f == [pc |-> "sent", user |-> store[t].user, lead |-> c]
  <2>1. st \in CallState /\ st.pc = "refreshing"
    BY DEF IdleCall, CallState
  <2>2. f \in RefreshState /\ f.pc = "sent" /\ f.lead = c
    BY <1>1, <1>5 DEF RefreshState, SignedIn, Tokens
  <2>3. SetCall(t, c, st) /\ UNCHANGED <<store, writer>> /\ refreshing' = [refreshing EXCEPT ![t] = f]
    BY <1>5 DEF OnRefused
  <2> HIDE DEF st, f
  <2>4. calls \in [Call -> CallState] /\ LeaderSound(calls, f)
    BY <1>1, <1>5, <2>1, <2>2 DEF LeaderSound
  <2>5. call' = [call EXCEPT ![t] = calls]
    BY <1>1, <2>3 DEF SetCall
  <2> HIDE DEF calls
  <2> QED BY <1>1, <1>2, <2>2, <2>3, <2>4, <2>5, TabMoves
<1> QED BY <1>1, <1>3, <1>4, <1>5 DEF CallState, RefreshState
-----------------------------------------------------------------------------
(* The end of a refresh, and the user                                       *)

\* Whatever a refresh ends with, no call is left that leads or waits.
LEMMA RefreshEndKeeps ==
  ASSUME WebInv, NEW t \in Tab, RefreshSucceeds(t) \/ RefreshFails(t)
  PROVE  TabTypeOK' /\ Leaders'
<1>1. /\ call[t] \in [Call -> CallState] /\ refreshing[t] \in RefreshState
      /\ submitted \in [Tab -> BOOLEAN] /\ TabTypeOK
      /\ refreshing \in [Tab -> RefreshState]
  BY DEF WebInv, TabTypeOK
<1>2. CASE RefreshSucceeds(t)
  <2> DEFINE u == refreshing[t].user
             calls == [c \in Call |-> Resent(call[t][c], u)]
  <2>1. u \in User /\ Fresh(u) \in Tokens
    BY <1>1, <1>2, RefreshShape, TokenTypes DEF RefreshSucceeds
  <2>2. \A c \in Call : /\ Resent(call[t][c], u) \in CallState
                        /\ Resent(call[t][c], u).pc \notin {"refreshing", "waiting"}
    BY <1>1, <2>1 DEF Resent, CallState
  <2>3. /\ call' = [call EXCEPT ![t] = calls] /\ refreshing' = [refreshing EXCEPT ![t] = NoRefresh]
        /\ Keep(t, Fresh(u)) /\ submitted' = submitted
    BY <1>1, <1>2 DEF RefreshSucceeds, TabTypeOK
  <2> HIDE DEF u
  <2>4. calls \in [Call -> CallState] /\ LeaderSound(calls, NoRefresh)
    BY <2>2, CallTypes DEF LeaderSound
  <2>5. store' \in [Tab -> Tokens \cup {NoTokens}] /\ writer' \in Tab
    BY <1>1, <2>1, <2>3, KeepType
  <2> HIDE DEF calls
  <2> QED BY <1>1, <2>3, <2>4, <2>5, CallTypes, TabMoves
<1>3. CASE RefreshFails(t)
  <2> DEFINE calls == [c \in Call |-> Dropped(call[t][c])]
  <2>1. \A c \in Call : /\ Dropped(call[t][c]) \in CallState
                        /\ Dropped(call[t][c]).pc \notin {"refreshing", "waiting"}
    <3> TAKE c \in Call
    <3>1. call[t][c] \in CallState
      BY <1>1
    <3>2. CASE call[t][c].pc = "waiting"
      BY <3>1, <3>2 DEF Dropped, CallState
    <3>3. CASE call[t][c].pc = "refreshing"
      BY <3>1, <3>3, CallTypes DEF Dropped
    <3>4. CASE call[t][c].pc \notin {"waiting", "refreshing"}
      BY <3>1, <3>4 DEF Dropped
    <3> QED BY <3>2, <3>3, <3>4
  <2>2. /\ call' = [call EXCEPT ![t] = calls] /\ refreshing' = [refreshing EXCEPT ![t] = NoRefresh]
        /\ Keep(t, NoTokens) /\ submitted' = submitted
    BY <1>1, <1>3 DEF RefreshFails, TabTypeOK
  <2>3. calls \in [Call -> CallState] /\ LeaderSound(calls, NoRefresh)
    BY <2>1, CallTypes DEF LeaderSound
  <2>4. store' \in [Tab -> Tokens \cup {NoTokens}] /\ writer' \in Tab
    BY <1>1, <2>2, KeepType
  <2> HIDE DEF calls
  <2> QED BY <1>1, <2>2, <2>3, <2>4, CallTypes, TabMoves
<1> QED BY <1>2, <1>3
LEMMA UserKeeps ==
  ASSUME WebInv, NEW t \in Tab, SubmitForm(t) \/ FormRefused(t) \/ SignOut(t)
  PROVE  TabTypeOK' /\ Leaders'
<1>1. UNCHANGED <<call, refreshing>> /\ submitted' \in [Tab -> BOOLEAN]
  BY DEF SubmitForm, FormRefused, SignOut, WebInv, TabTypeOK
<1>2. UNCHANGED <<store, writer>> \/ Keep(t, NoTokens)
  BY DEF SubmitForm, FormRefused, SignOut
<1>3. store' \in [Tab -> Tokens \cup {NoTokens}] /\ writer' \in Tab
  BY <1>2, KeepType DEF WebInv, TabTypeOK
<1> QED BY <1>1, <1>3, TokensMove

LEMMA ReloadKeeps ==
  ASSUME WebInv, NEW t \in Tab, Reload(t)
  PROVE  TabTypeOK' /\ Leaders'
<1> DEFINE calls == [c \in Call |-> IdleCall]
<1>1. calls \in [Call -> CallState] /\ LeaderSound(calls, NoRefresh)
  BY CallTypes DEF LeaderSound
<1>2. call' = [call EXCEPT ![t] = calls] /\ refreshing' = [refreshing EXCEPT ![t] = NoRefresh]
  BY DEF Reload
<1>3. /\ store' \in [Tab -> Tokens \cup {NoTokens}] /\ writer' \in Tab
      /\ submitted' \in [Tab -> BOOLEAN]
  BY DEF Reload, WebInv, TabTypeOK
<1> HIDE DEF calls
<1> QED BY <1>1, <1>2, <1>3, CallTypes, TabMoves

LEMMA ExpiryKeeps ==
  ASSUME WebInv, NEW t \in Tab, AccessExpires(t)
  PROVE  TabTypeOK' /\ Leaders'
<1> DEFINE calls == [c \in Call |-> Aged(call[t][c])]
<1>1. /\ call \in [Tab -> [Call -> CallState]] /\ store[t] \in Tokens
      /\ LeaderSound(call[t], refreshing[t]) /\ refreshing[t] \in RefreshState
  BY TokenTypes DEF WebInv, TabTypeOK, Leaders, AccessExpires
<1>2. \A c \in Call : /\ Aged(call[t][c]) \in CallState
                      /\ Aged(call[t][c]).pc = call[t][c].pc
  <2> TAKE c \in Call
  <2>1. call[t][c] \in CallState
    BY <1>1
  <2>2. CASE call[t][c].pc = "sent"
    BY <2>1, <2>2 DEF CallState, Aged
  <2>3. CASE call[t][c].pc # "sent"
    BY <2>1, <2>3 DEF Aged
  <2> QED BY <2>2, <2>3
<1>3. /\ call' = [call EXCEPT ![t] = calls] /\ UNCHANGED <<refreshing, submitted, writer>>
      /\ store' = [store EXCEPT ![t].access = "expired"]
  BY <1>1 DEF AccessExpires
<1>4. [store[t] EXCEPT !.access = "expired"] \in Tokens
  BY <1>1 DEF Tokens
<1>5. /\ store' \in [Tab -> Tokens \cup {NoTokens}] /\ writer' \in Tab
      /\ submitted' \in [Tab -> BOOLEAN] /\ refreshing' = [refreshing EXCEPT ![t] = refreshing[t]]
  BY <1>3, <1>4 DEF WebInv, TabTypeOK
<1>6. calls \in [Call -> CallState] /\ LeaderSound(calls, refreshing[t])
  BY <1>1, <1>2 DEF LeaderSound
<1> HIDE DEF calls
<1> QED BY <1>1, <1>3, <1>5, <1>6, TabMoves
-----------------------------------------------------------------------------
(* The theorems                                                             *)

LEMMA WebInit_Inv == WebInit => WebInv
<1> SUFFICES ASSUME WebInit PROVE WebInv
  OBVIOUS
<1>1. AuthInv
  BY InitInv DEF WebInit
<1>2. TabTypeOK
  BY CallTypes DEF WebInit, TabTypeOK
<1>3. Leaders
  BY CallTypes DEF WebInit, Leaders, LeaderSound
<1> QED BY <1>1, <1>2, <1>3 DEF WebInv

LEMMA WebStep == WebInv /\ [WebNext]_webVars => WebInv'
<1> SUFFICES ASSUME WebInv, [WebNext]_webVars PROVE WebInv'
  OBVIOUS
<1>1. CASE UNCHANGED webVars
  <2>1. UNCHANGED authVars /\ UNCHANGED tabVars
    BY <1>1 DEF webVars, authVars
  <2> QED BY <2>1, StepInv, TabsStand DEF WebInv
<1>2. CASE WebNext
  <2>1. ASSUME NEW u \in User, LoggedOutElsewhere(u) PROVE TabTypeOK' /\ Leaders'
    BY <2>1, TabsStand DEF LoggedOutElsewhere
  <2>2. ASSUME NEW t \in Tab,
               \/ RefreshArrives(t) \/ RefreshSucceeds(t) \/ RefreshFails(t) \/ RefreshLost(t)
               \/ SubmitForm(t) \/ FormRefused(t) \/ SignOut(t) \/ Reload(t) \/ AccessExpires(t)
        PROVE  TabTypeOK' /\ Leaders'
    BY <2>2, RefreshStepKeeps, RefreshEndKeeps, UserKeeps, ReloadKeeps, ExpiryKeeps
  <2>3. ASSUME NEW t \in Tab, NEW c \in Call,
               CallAnswered(t, c) \/ OnRefused(t, c) \/ Send(t, c) \/ CallLost(t, c)
        PROVE  TabTypeOK' /\ Leaders'
    BY <2>3, CallStepKeeps, OnRefusedKeeps
  <2>4. TabTypeOK' /\ Leaders'
    BY <1>2, <2>1, <2>2, <2>3, HandlersKeep DEF WebNext, Ongoing, FromOutside
  <2> QED BY <1>2, <2>4, WebStepAuthInv DEF WebInv
<1> QED BY <1>1, <1>2

LEMMA WebInvariant == WebSpec => []WebInv
BY WebInit_Inv, WebStep, PTL DEF WebSpec

\* Accounts, handlers, tokens, calls and refreshes are well formed, whatever the
\* tabs, their users and the network do.
THEOREM WebTypeCorrectness == WebSpec => []WebTypeOK
<1>1. WebInv => WebTypeOK
  BY DEF WebInv, AuthInv, TabTypeOK, WebTypeOK
<1> QED BY <1>1, WebInvariant, PTL

\* In any number of tabs with any number of calls, a waiting call has a refresh that
\* will end its waiting, and that refresh a call of the same tab that leads it.
THEOREM NobodyWaitsInVain == WebSpec => []WaitingHaveALeader
<1>1. WebInv => WaitingHaveALeader
  BY DEF WebInv, Leaders, LeaderSound, WaitingHaveALeader
<1> QED BY <1>1, WebInvariant, PTL

\* What the tabs ask of the API keeps its sessions' rule: an ended session comes back
\* by a sign-in, or by a refresh that had read the row before the session ended.
THEOREM TabsResumeNothingElse == WebSpec => OnlyALateRefreshResumes
<1>1. WebInv /\ [WebNext]_webVars => [Resumes]_authVars
  <2> SUFFICES ASSUME WebInv, [WebNext]_webVars PROVE [Resumes]_authVars
    OBVIOUS
  <2>1. CASE UNCHANGED webVars
    BY <2>1 DEF webVars, authVars
  <2>2. CASE [AuthNext]_authVars
    BY <2>2, StepResumes DEF WebInv
  <2>3. CASE \E u \in User : LoggedOutElsewhere(u)
    <3>1. \A u \in User : account'[u].session => account[u].session
      BY <2>3 DEF LoggedOutElsewhere, WebInv, AuthInv, AuthTypeOK, Account
    <3> QED BY <3>1 DEF Resumes
  <2> QED BY <2>1, <2>2, <2>3, WebStepOfAuth
<1> QED BY <1>1, WebInvariant, PTL DEF WebSpec, OnlyALateRefreshResumes, Resumes
=============================================================================
