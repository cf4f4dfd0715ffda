---------------------------- MODULE MCAuthSession ----------------------------
(***************************************************************************)
(* AuthSession with a history of the tokens it hands out, to say which of    *)
(* them have been rotated out.                                              *)
(***************************************************************************)
EXTENDS AuthSession

VARIABLE issued   \* the refresh tokens stored for each user so far, two standing for more

CountIssued(u) ==
  IF issued[u] < 2 /\ \E r \in Request : Issue(r) /\ auth[r].user = u
  THEN issued[u] + 1 ELSE issued[u]

RotationSpec ==
  /\ AuthInit /\ issued = [u \in User |-> 0]
  /\ [][AuthNext /\ issued' = [u \in User |-> CountIssued(u)]]_<<authVars, issued>>

\* What the documents and an end-to-end test say of rotation: a refresh token that a
\* newer one has replaced is refused, and its use revokes the stored hash.
RotatedTokensAreRefused ==
  [][\A r \in Request, u \in User :
       issued[u] = 2 /\ Refresh(r, [user |-> u, turn |-> "rotated"])
         => auth'[r].pc = "revoke"]_<<authVars, issued>>
=============================================================================
