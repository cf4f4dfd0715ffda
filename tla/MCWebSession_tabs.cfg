SPECIFICATION FairWeb
CONSTANTS
  User = {u1}
  Tab = {t1, t2}
  FormTab = {t1}
  Busy = t1
  Only = c1
  Call = {c1, c2}
  CallsOf <- MCCallsOf
  Request <- MCRequest
  NoUser = NoUser
  NoCall = NoCall
INVARIANTS
  WebTypeOK
  WaitingHaveALeader
PROPERTY CallsSettleUnlessSignedOut
