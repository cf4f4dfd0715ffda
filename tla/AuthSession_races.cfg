SPECIFICATION AuthSpec
CONSTANTS
  User = {u1, u2}
  Request = {r1, r2}
  NoUser = NoUser
INVARIANT AuthTypeOK
PROPERTIES
  OnlyALateRefreshResumes
  OnlyAnUpdateLeavesNoAdmin
\* With every account inactive nothing is served any more.
CHECK_DEADLOCK FALSE
