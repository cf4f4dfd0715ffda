----------------------------- MODULE AuthSession -----------------------------
(***************************************************************************)
(* Accounts and sessions: the handlers of apps/api/src/auth and the ADMIN's *)
(* update of a user, each split at its awaits.                             *)
(*                                                                         *)
(* A row of User keeps its role, whether it is active and whether a         *)
(* refreshTokenHash is stored, which is what it is to have a session.      *)
(* Of a refresh token it matters whose it is and whether a newer one has    *)
(* been stored since.  Passwords, names and dates are left out; a request   *)
(* that is refused without a write is not a step.                          *)
(***************************************************************************)
EXTENDS Naturals, FiniteSets

CONSTANTS
  User,      \* e-mail addresses
  Request,   \* requests the API may be serving at a time
  NoUser

ASSUME AuthAssumption == NoUser \notin User

VARIABLES
  account,   \* the rows of User, by e-mail address
  auth       \* the requests being served

authVars == <<account, auth>>

UserRole == {"ADMIN", "OPERATOR", "VIEWER"}

\* Role "NONE": no such row.
Account == [role : UserRole \cup {"NONE"}, active : BOOLEAN, session : BOOLEAN]
NoAccount == [role |-> "NONE", active |-> FALSE, session |-> FALSE]

\* pc: the await a handler is at; user: whom it is about; grant: the values of
\* the row it will write; seen: whether it read a session in the row.
Handler == [pc : {"idle", "register.count", "register.create", "issue", "revoke",
                  "logout", "update.find", "update.write"},
            user : User \cup {NoUser}, role : UserRole, active : BOOLEAN,
            by : {"none", "register", "login", "refresh"}, seen : BOOLEAN]
IdleHandler == [pc |-> "idle", user |-> NoUser, role |-> "VIEWER", active |-> TRUE,
                by |-> "none", seen |-> FALSE]

AuthInit ==
  /\ account = [u \in User |-> NoAccount]
  /\ auth = [r \in Request |-> IdleHandler]

Registered == {u \in User : account[u].role # "NONE"}
Admins == {u \in User : account[u].role = "ADMIN"}

Serve(r, pc, u) == auth' = [auth EXCEPT ![r] = [IdleHandler EXCEPT !.pc = pc, !.user = u]]
Await(r, pc) == auth' = [auth EXCEPT ![r].pc = pc]
Done(r) == auth' = [auth EXCEPT ![r] = IdleHandler]
-----------------------------------------------------------------------------
(* Refresh tokens                                                           *)

\* What bcrypt.hash and bcrypt.compare read of a token: its first 72 bytes,
\* which hold the header and the start of `sub`.  `jti` comes after them.
Leading(token) == token.user

\* The stored hash is that of the token issued last.
Matches(token) == Leading(token) = Leading([user |-> token.user, turn |-> "latest"])

\* issueTokens: sign a pair and store the hash of the new refresh token, whatever
\* the row holds by then.
Issue(r) ==
  /\ auth[r].pc = "issue"
  /\ account' = [account EXCEPT ![auth[r].user].session = TRUE]
  /\ Done(r)
-----------------------------------------------------------------------------
(* Handlers                                                                 *)

RegisterLookup(r, u) ==
  /\ auth[r].pc = "idle" /\ u \notin Registered
  /\ Serve(r, "register.count", u)
  /\ UNCHANGED account

\* Mutant: the count is taken after the insert.
FirstRole_CountedLate == IF Cardinality(Registered) = 1 THEN "ADMIN" ELSE "VIEWER"

\* Mutant: who comes later is given no role.
FirstRole_Unset == IF Registered = {} THEN "ADMIN" ELSE "NONE"

FirstRole == IF Registered = {} THEN "ADMIN" ELSE "VIEWER"

RegisterCount(r) ==
  /\ auth[r].pc = "register.count"
  /\ auth' = [auth EXCEPT ![r].pc = "register.create", ![r].role = FirstRole]
  /\ UNCHANGED account

\* The unique index on email decides between two registrations of one address.
RegisterCreate(r) ==
  /\ auth[r].pc = "register.create"
  /\ LET u == auth[r].user IN
     IF u \in Registered
     THEN Done(r) /\ UNCHANGED account
     ELSE /\ account' = [account EXCEPT ![u] = [role |-> auth[r].role, active |-> TRUE, session |-> FALSE]]
          /\ auth' = [auth EXCEPT ![r].pc = "issue", ![r].by = "register"]

Login(r, u) ==
  /\ auth[r].pc = "idle" /\ account[u].active
  /\ auth' = [auth EXCEPT ![r] = [IdleHandler EXCEPT !.pc = "issue", !.user = u, !.by = "login"]]
  /\ UNCHANGED account

\* Mutant: a row without a hash is let pass.
MayRefresh_AnyHash(u) == account[u].active

\* isActive and refreshTokenHash of the row that was read.
MayRefresh(u) == account[u].active /\ account[u].session

\* The token is compared with the hash of the row read here.
Refresh(r, token) ==
  /\ auth[r].pc = "idle" /\ MayRefresh(token.user)
  /\ auth' = [auth EXCEPT ![r] =
       [IdleHandler EXCEPT !.pc = IF Matches(token) THEN "issue" ELSE "revoke",
                           !.user = token.user, !.by = "refresh",
                           !.seen = account[token.user].session]]
  /\ UNCHANGED account

\* JwtStrategy.validate lets requests of active users pass.
Logout(r, u) ==
  /\ auth[r].pc = "idle" /\ account[u].active
  /\ Serve(r, "logout", u)
  /\ UNCHANGED account

\* The hash is set to null, by a logout or by a refresh whose token was taken for
\* one that had been rotated out.
ClearHash(r) ==
  /\ auth[r].pc \in {"logout", "revoke"}
  /\ account' = [account EXCEPT ![auth[r].user].session = FALSE]
  /\ Done(r)

\* The guards let an active ADMIN pass.  A field the body leaves out keeps its
\* value: the case where the new value is the old one.
UpdateUser(r, u, role, active) ==
  /\ auth[r].pc = "idle" /\ \E a \in Admins : account[a].active
  /\ auth' = [auth EXCEPT ![r] = [IdleHandler EXCEPT !.pc = "update.find", !.user = u,
                                                     !.role = role, !.active = active]]
  /\ UNCHANGED account

UpdateFind(r) ==
  /\ auth[r].pc = "update.find"
  /\ IF auth[r].user \in Registered THEN Await(r, "update.write") ELSE Done(r)
  /\ UNCHANGED account

UpdateWrite(r) ==
  /\ auth[r].pc = "update.write"
  /\ account' = [account EXCEPT ![auth[r].user].role = auth[r].role,
                                ![auth[r].user].active = auth[r].active]
  /\ Done(r)

\* A failed statement, or a restart of the API, ends a handler where it is.
HandlerDies(r) ==
  /\ auth[r].pc # "idle"
  /\ Done(r) /\ UNCHANGED account
-----------------------------------------------------------------------------
AuthArrive(r) ==
  \E u \in User :
    \/ RegisterLookup(r, u) \/ Login(r, u) \/ Logout(r, u)
    \/ \E turn \in {"latest", "rotated"} : Refresh(r, [user |-> u, turn |-> turn])
    \/ \E role \in UserRole, active \in BOOLEAN : UpdateUser(r, u, role, active)

AuthContinue(r) ==
  \/ RegisterCount(r) \/ RegisterCreate(r) \/ Issue(r) \/ ClearHash(r)
  \/ UpdateFind(r) \/ UpdateWrite(r)

AuthNext == \E r \in Request : AuthArrive(r) \/ AuthContinue(r) \/ HandlerDies(r)
AuthSpec == AuthInit /\ [][AuthNext]_authVars

AuthTypeOK == account \in [User -> Account] /\ auth \in [Request -> Handler]
-----------------------------------------------------------------------------
(* Properties                                                               *)

\* An ended session is resumed by a registration, a login, or a refresh that had
\* read the row before the session ended and stores its hash afterwards.
OnlyALateRefreshResumes ==
  [][\A u \in User : ~account[u].session /\ account'[u].session =>
       \E r \in Request :
         /\ auth[r].pc = "issue" /\ auth[r].user = u
         /\ auth[r].by = "refresh" => auth[r].seen]_authVars

\* The installation has an ADMIN as soon as it has a user, and stays so unless an
\* ADMIN's update takes the role away: registrations racing between the count and
\* the insert may make several, never none.
OnlyAnUpdateLeavesNoAdmin ==
  [][Registered' # {} /\ Admins' = {} /\ (Registered = {} \/ Admins # {}) =>
       \E r \in Request : auth[r].pc = "update.write"]_authVars
=============================================================================
