-------------------------- MODULE AuthSessionProofs --------------------------
(***************************************************************************)
(* Theorems about AuthSession, for any number of accounts and requests:     *)
(* what ends a session, what resumes one, and who can be the ADMIN.         *)
(***************************************************************************)
EXTENDS AuthSession, TLAPS

\* No row, nothing in it.
RowSound == \A u \in User : account[u].role = "NONE" => ~account[u].active /\ ~account[u].session

\* What a handler that waits at an await has made sure of.
HandlerSound(h, registered) ==
  /\ h.pc # "idle" => h.user \in User
  /\ h.pc # "revoke"
  /\ h.pc \in {"issue", "update.write"} => h.user \in registered
  /\ h.pc = "issue" /\ h.by = "refresh" => h.seen
  /\ h.pc = "register.create" => h.role = "ADMIN" \/ registered # {}

AuthInv == AuthTypeOK /\ RowSound /\ \A r \in Request : HandlerSound(auth[r], Registered)

LEMMA TokensAlwaysMatch == \A token : Matches(token)
BY DEF Matches, Leading

LEMMA FirstRoleType == FirstRole \in UserRole /\ (FirstRole = "ADMIN" \/ Registered # {})
BY DEF FirstRole, UserRole

LEMMA InitInv == AuthInit => AuthInv
BY DEF AuthInit, AuthInv, AuthTypeOK, RowSound, HandlerSound, IdleHandler, NoAccount,
       Account, Handler, UserRole

LEMMA IdleIsSound == IdleHandler \in Handler /\ HandlerSound(IdleHandler, Registered)
BY DEF IdleHandler, Handler, HandlerSound, UserRole

\* A handler that moves on, the accounts as they are.
LEMMA OneHandler ==
  ASSUME AuthInv, NEW r \in Request, NEW h \in Handler, HandlerSound(h, Registered),
         auth' = [auth EXCEPT ![r] = h], UNCHANGED account
  PROVE  AuthInv'
<1>1. AuthTypeOK' /\ RowSound'
  BY DEF AuthInv, AuthTypeOK, RowSound
<1>2. Registered' = Registered
  BY DEF Registered
<1>3. \A s \in Request : HandlerSound(auth[s], Registered)'
  BY <1>2 DEF AuthInv, AuthTypeOK, HandlerSound
<1> QED BY <1>1, <1>3 DEF AuthInv

\* A handler that is finished or goes on to issue tokens writes one row.
LEMMA OneRow ==
  ASSUME AuthInv, NEW r \in Request, NEW h \in Handler, NEW u \in User, NEW a \in Account,
         auth' = [auth EXCEPT ![r] = h], account' = [account EXCEPT ![u] = a],
         a.role # "NONE", HandlerSound(h, Registered')
  PROVE  AuthInv'
<1>1. AuthTypeOK'
  BY DEF AuthInv, AuthTypeOK
<1>2. RowSound'
  BY DEF AuthInv, AuthTypeOK, RowSound
<1>3. Registered \subseteq Registered'
  BY DEF AuthInv, AuthTypeOK, Registered
<1>4. \A s \in Request : HandlerSound(auth[s], Registered)'
  <2> TAKE s \in Request
  <2>1. CASE s = r
    BY <2>1 DEF AuthInv, AuthTypeOK, HandlerSound
  <2>2. CASE s # r
    BY <1>3, <2>2 DEF AuthInv, AuthTypeOK, HandlerSound
  <2> QED BY <2>1, <2>2
<1> QED BY <1>1, <1>2, <1>4 DEF AuthInv
-----------------------------------------------------------------------------
(* Every step keeps the invariant                                           *)

\* A row with an account, or a session, is registered.
LEMMA RowsOfUse ==
  ASSUME AuthInv, NEW u \in User, account[u].active \/ account[u].session
  PROVE  u \in Registered
BY DEF AuthInv, RowSound, Registered

LEMMA RegisterKeeps ==
  ASSUME AuthInv, NEW r \in Request,
         (\E u \in User : RegisterLookup(r, u)) \/ RegisterCount(r) \/ RegisterCreate(r)
  PROVE  AuthInv'
<1>1. ASSUME NEW u \in User, RegisterLookup(r, u) PROVE AuthInv'
  <2> DEFINE h == [IdleHandler EXCEPT !.pc = "register.count", !.user = u]
  <2>1. h \in Handler /\ HandlerSound(h, Registered)
    BY DEF IdleHandler, Handler, HandlerSound, UserRole
  <2> QED BY <1>1, <2>1, OneHandler DEF RegisterLookup, Serve
<1>2. CASE RegisterCount(r)
  <2> DEFINE h == [auth[r] EXCEPT !.pc = "register.create", !.role = FirstRole]
  <2>1. h \in Handler /\ HandlerSound(h, Registered)
    BY <1>2, FirstRoleType DEF RegisterCount, AuthInv, AuthTypeOK, Handler, HandlerSound
  <2>2. auth' = [auth EXCEPT ![r] = h]
    BY <1>2 DEF RegisterCount, AuthInv, AuthTypeOK
  <2> QED BY <1>2, <2>1, <2>2, OneHandler DEF RegisterCount
<1>3. CASE RegisterCreate(r)
  <2> DEFINE v == auth[r].user
             h == [auth[r] EXCEPT !.pc = "issue", !.by = "register"]
             a == [role |-> auth[r].role, active |-> TRUE, session |-> FALSE]
  <2>1. v \in User /\ auth[r] \in Handler
    BY <1>3 DEF RegisterCreate, AuthInv, AuthTypeOK, HandlerSound
  <2>2. CASE v \in Registered
    BY <1>3, <2>2, IdleIsSound, OneHandler DEF RegisterCreate, Done
  <2>3. CASE v \notin Registered
    <3>1. h \in Handler
      BY <2>1 DEF Handler
    <3>5. a \in Account /\ a.role # "NONE"
      BY <2>1 DEF Handler, Account, UserRole
    <3>2. auth' = [auth EXCEPT ![r] = h] /\ account' = [account EXCEPT ![v] = a]
      BY <1>3, <2>3 DEF RegisterCreate, AuthInv, AuthTypeOK
    <3>3. v \in Registered'
      BY <2>1, <3>5, <3>2 DEF Registered, AuthInv, AuthTypeOK
    <3>4. HandlerSound(h, Registered')
      BY <2>1, <3>3 DEF HandlerSound, Handler
    <3> HIDE DEF h, a
    <3> QED BY <2>1, <3>1, <3>2, <3>4, <3>5, OneRow
  <2> QED BY <2>2, <2>3
<1> QED BY <1>1, <1>2, <1>3

LEMMA SessionKeeps ==
  ASSUME AuthInv, NEW r \in Request,
         \/ \E u \in User : Login(r, u) \/ Logout(r, u)
                            \/ \E turn \in {"latest", "rotated"} : Refresh(r, [user |-> u, turn |-> turn])
         \/ Issue(r) \/ ClearHash(r)
  PROVE  AuthInv'
<1>1. ASSUME NEW u \in User, Login(r, u) PROVE AuthInv'
  <2> DEFINE h == [IdleHandler EXCEPT !.pc = "issue", !.user = u, !.by = "login"]
  <2>1. u \in Registered
    BY <1>1, RowsOfUse DEF Login
  <2>2. h \in Handler /\ HandlerSound(h, Registered)
    BY <2>1 DEF IdleHandler, Handler, HandlerSound, UserRole
  <2> QED BY <1>1, <2>2, OneHandler DEF Login
<1>2. ASSUME NEW u \in User, Logout(r, u) PROVE AuthInv'
  <2> DEFINE h == [IdleHandler EXCEPT !.pc = "logout", !.user = u]
  <2>1. h \in Handler /\ HandlerSound(h, Registered)
    BY DEF IdleHandler, Handler, HandlerSound, UserRole
  <2> QED BY <1>2, <2>1, OneHandler DEF Logout, Serve
<1>3. ASSUME NEW u \in User, NEW turn, Refresh(r, [user |-> u, turn |-> turn]) PROVE AuthInv'
  <2> DEFINE h == [IdleHandler EXCEPT !.pc = "issue", !.user = u, !.by = "refresh",
                                      !.seen = account[u].session]
  <2>1. u \in Registered /\ account[u].session /\ account[u].session \in BOOLEAN
    BY <1>3, RowsOfUse DEF Refresh, MayRefresh, AuthInv, AuthTypeOK, Account
  <2>2. h \in Handler /\ HandlerSound(h, Registered)
    BY <2>1 DEF IdleHandler, Handler, HandlerSound, UserRole
  <2>3. auth' = [auth EXCEPT ![r] = h]
    BY <1>3, TokensAlwaysMatch DEF Refresh
  <2> QED BY <1>3, <2>2, <2>3, OneHandler DEF Refresh
<1>4. CASE Issue(r)
  <2> DEFINE v == auth[r].user
             a == [account[v] EXCEPT !.session = TRUE]
  <2>1. v \in User /\ v \in Registered
    BY <1>4 DEF Issue, AuthInv, HandlerSound
  <2>2. a \in Account /\ a.role # "NONE"
    BY <2>1 DEF AuthInv, AuthTypeOK, Account, Registered
  <2>3. auth' = [auth EXCEPT ![r] = IdleHandler] /\ account' = [account EXCEPT ![v] = a]
    BY <1>4, <2>1 DEF Issue, Done, AuthInv, AuthTypeOK
  <2>4. HandlerSound(IdleHandler, Registered')
    BY DEF IdleHandler, HandlerSound
  <2> HIDE DEF a
  <2> QED BY <2>1, <2>2, <2>3, <2>4, IdleIsSound, OneRow
<1>5. CASE ClearHash(r)
  <2> DEFINE v == auth[r].user
             a == [account[v] EXCEPT !.session = FALSE]
  <2>1. v \in User
    BY <1>5 DEF ClearHash, AuthInv, HandlerSound
  <2>6. a \in Account
    BY <2>1 DEF AuthInv, AuthTypeOK, Account
  <2>2. auth' = [auth EXCEPT ![r] = IdleHandler] /\ account' = [account EXCEPT ![v] = a]
    BY <1>5, <2>1 DEF ClearHash, Done, AuthInv, AuthTypeOK
  <2>3. HandlerSound(IdleHandler, Registered')
    BY DEF IdleHandler, HandlerSound
  <2>4. CASE account[v].role # "NONE"
    <3>1. a.role # "NONE"
      BY <2>1, <2>4 DEF AuthInv, AuthTypeOK, Account
    <3> HIDE DEF a
    <3> QED BY <2>1, <2>2, <2>3, <2>6, <3>1, IdleIsSound, OneRow
  <2>5. CASE account[v].role = "NONE"
    <3>1. a = account[v]
      BY <2>1, <2>5 DEF AuthInv, AuthTypeOK, RowSound, Account
    <3>2. account' = account
      BY <2>1, <2>2, <3>1 DEF AuthInv, AuthTypeOK
    <3> HIDE DEF a
    <3> QED BY <2>2, <3>2, IdleIsSound, OneHandler
  <2> QED BY <2>4, <2>5
<1> QED BY <1>1, <1>2, <1>3, <1>4, <1>5

LEMMA UpdateKeeps ==
  ASSUME AuthInv, NEW r \in Request,
         \/ \E u \in User, role \in UserRole, active \in BOOLEAN : UpdateUser(r, u, role, active)
         \/ UpdateFind(r) \/ UpdateWrite(r) \/ HandlerDies(r)
  PROVE  AuthInv'
<1>1. ASSUME NEW u \in User, NEW role \in UserRole, NEW active \in BOOLEAN, UpdateUser(r, u, role, active)
      PROVE  AuthInv'
  <2> DEFINE h == [IdleHandler EXCEPT !.pc = "update.find", !.user = u, !.role = role, !.active = active]
  <2>1. h \in Handler /\ HandlerSound(h, Registered)
    BY DEF IdleHandler, Handler, HandlerSound, UserRole
  <2> QED BY <1>1, <2>1, OneHandler DEF UpdateUser
<1>2. CASE UpdateFind(r)
  <2> DEFINE h == [auth[r] EXCEPT !.pc = "update.write"]
  <2>1. CASE auth[r].user \in Registered
    <3>1. h \in Handler /\ HandlerSound(h, Registered)
      BY <1>2, <2>1 DEF UpdateFind, AuthInv, AuthTypeOK, Handler, HandlerSound
    <3>2. auth' = [auth EXCEPT ![r] = h]
      BY <1>2, <2>1 DEF UpdateFind, Await, AuthInv, AuthTypeOK
    <3> QED BY <1>2, <3>1, <3>2, OneHandler DEF UpdateFind
  <2>2. CASE auth[r].user \notin Registered
    BY <1>2, <2>2, IdleIsSound, OneHandler DEF UpdateFind, Done
  <2> QED BY <2>1, <2>2
<1>3. CASE UpdateWrite(r)
  <2> DEFINE v == auth[r].user
             a == [account[v] EXCEPT !.role = auth[r].role, !.active = auth[r].active]
  <2>1. v \in User /\ auth[r] \in Handler
    BY <1>3 DEF UpdateWrite, AuthInv, AuthTypeOK, HandlerSound
  <2>5. account[v] \in Account /\ auth[r].role \in UserRole /\ auth[r].active \in BOOLEAN
    BY <2>1 DEF AuthInv, AuthTypeOK, Handler
  <2>6. a.role = auth[r].role /\ a.role # "NONE"
    BY <2>5 DEF Account, UserRole
  <2>2. a \in Account
    BY <2>5 DEF Account
  <2>3. auth' = [auth EXCEPT ![r] = IdleHandler] /\ account' = [account EXCEPT ![v] = a]
    BY <1>3, <2>1 DEF UpdateWrite, Done, AuthInv, AuthTypeOK
  <2>4. HandlerSound(IdleHandler, Registered')
    BY DEF IdleHandler, HandlerSound
  <2> HIDE DEF a
  <2> QED BY <2>1, <2>2, <2>3, <2>4, <2>6, IdleIsSound, OneRow
<1>4. CASE HandlerDies(r)
  BY <1>4, IdleIsSound, OneHandler DEF HandlerDies, Done
<1> QED BY <1>1, <1>2, <1>3, <1>4

LEMMA StepInv == AuthInv /\ [AuthNext]_authVars => AuthInv'
<1> SUFFICES ASSUME AuthInv, [AuthNext]_authVars PROVE AuthInv'
  OBVIOUS
<1>1. CASE UNCHANGED authVars
  BY <1>1 DEF AuthInv, AuthTypeOK, RowSound, HandlerSound, Registered, authVars
<1>2. ASSUME NEW r \in Request, AuthArrive(r) \/ AuthContinue(r) \/ HandlerDies(r) PROVE AuthInv'
  BY <1>2, RegisterKeeps, SessionKeeps, UpdateKeeps DEF AuthArrive, AuthContinue
<1> QED BY <1>1, <1>2 DEF AuthNext

THEOREM InductiveInvariant == AuthSpec => []AuthInv
BY InitInv, StepInv, PTL DEF AuthSpec

-----------------------------------------------------------------------------
(* The theorems                                                             *)

\* Rows and handlers are well formed, however the handlers overlap.
THEOREM AuthTypeCorrectness == AuthSpec => []AuthTypeOK
<1>1. AuthInv => AuthTypeOK
  BY DEF AuthInv
<1> QED BY <1>1, InductiveInvariant, PTL

\* Who stores a hash in a row without one.
Resumes ==
  \A u \in User : ~account[u].session /\ account'[u].session =>
    \E r \in Request : /\ auth[r].pc = "issue" /\ auth[r].user = u
                       /\ auth[r].by = "refresh" => auth[r].seen

LEMMA StepResumes == AuthInv /\ [AuthNext]_authVars => Resumes
<1> SUFFICES ASSUME AuthInv, [AuthNext]_authVars, NEW u \in User,
                    ~account[u].session, account'[u].session
             PROVE  \E r \in Request : /\ auth[r].pc = "issue" /\ auth[r].user = u
                                       /\ auth[r].by = "refresh" => auth[r].seen
  BY DEF Resumes
<1>1. PICK r \in Request : AuthArrive(r) \/ AuthContinue(r) \/ HandlerDies(r)
  BY DEF AuthNext, authVars
<1>2. RegisterCreate(r) \/ Issue(r) \/ ClearHash(r) \/ UpdateWrite(r)
  BY <1>1 DEF AuthArrive, AuthContinue, HandlerDies, RegisterLookup, RegisterCount, Login, Logout,
     Refresh, UpdateUser, UpdateFind
<1>3. ~RegisterCreate(r) /\ ~ClearHash(r) /\ ~UpdateWrite(r)
  BY DEF RegisterCreate, ClearHash, UpdateWrite, AuthInv, AuthTypeOK, Account, HandlerSound
<1>4. Issue(r) => auth[r].pc = "issue" /\ auth[r].user = u /\ (auth[r].by = "refresh" => auth[r].seen)
  BY DEF Issue, AuthInv, AuthTypeOK, Account, HandlerSound
<1> QED BY <1>2, <1>3, <1>4

\* Whoever stores a hash in a row without one has registered or logged in, or is a
\* refresh that read a hash in it.
THEOREM LateRefreshesResume == AuthSpec => OnlyALateRefreshResumes
<1>1. AuthInv /\ [AuthNext]_authVars => [Resumes]_authVars
  BY StepResumes
<1> QED BY <1>1, InductiveInvariant, PTL DEF AuthSpec, OnlyALateRefreshResumes, Resumes

\* The first row is an ADMIN's, since its handler counted no rows, or else somebody
\* had registered before; and an insert leaves the other rows alone.
THEOREM UpdatesLeaveNoAdmin == AuthSpec => OnlyAnUpdateLeavesNoAdmin
<1> DEFINE Leaves == Registered' # {} /\ Admins' = {} /\ (Registered = {} \/ Admins # {}) =>
                       \E r \in Request : auth[r].pc = "update.write"
<1>1. ASSUME AuthInv, [AuthNext]_authVars PROVE Leaves
  <2> SUFFICES ASSUME Registered' # {}, Admins' = {}, Registered = {} \/ Admins # {},
                      \A r \in Request : ~UpdateWrite(r)
               PROVE  FALSE
    BY DEF UpdateWrite
  <2>1. PICK u \in User : account'[u] # account[u]
    BY <1>1 DEF Registered, Admins, AuthInv, AuthTypeOK
  <2>2. PICK r \in Request : AuthArrive(r) \/ AuthContinue(r) \/ HandlerDies(r)
    BY <1>1, <2>1 DEF AuthNext, authVars
  <2>3. RegisterCreate(r) \/ Issue(r) \/ ClearHash(r)
    BY <2>1, <2>2 DEF AuthArrive, AuthContinue, HandlerDies, RegisterLookup, RegisterCount, Login, Logout,
       Refresh, UpdateUser, UpdateFind
  <2>4. CASE Issue(r) \/ ClearHash(r)
    <3>1. \A v \in User : account'[v].role = account[v].role
      BY <1>1, <2>4 DEF Issue, ClearHash, AuthInv, AuthTypeOK, Account
    <3> QED BY <3>1 DEF Registered, Admins
  <2>5. CASE RegisterCreate(r)
    <3> DEFINE v == auth[r].user
    <3>1. v \in User /\ v \notin Registered /\ auth[r].pc = "register.create"
      BY <1>1, <2>1, <2>5 DEF RegisterCreate, AuthInv, HandlerSound
    <3>2. /\ account'[v].role = auth[r].role
          /\ \A w \in User : w # v => account'[w].role = account[w].role
      BY <1>1, <2>5, <3>1 DEF RegisterCreate, AuthInv, AuthTypeOK
    <3>3. Registered = {} \/ \E w \in User : w # v /\ account[w].role = "ADMIN"
      BY <3>1 DEF Registered, Admins
    <3>4. Registered # {}
      BY <1>1, <3>1, <3>2 DEF AuthInv, HandlerSound, Admins
    <3> QED BY <3>2, <3>3, <3>4 DEF Admins
  <2> QED BY <2>3, <2>4, <2>5
<1>2. AuthInv /\ [AuthNext]_authVars => [Leaves]_authVars
  BY <1>1
<1> QED BY <1>2, InductiveInvariant, PTL DEF AuthSpec, OnlyAnUpdateLeavesNoAdmin
=============================================================================
