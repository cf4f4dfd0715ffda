SPECIFICATION RotationSpec
CONSTANTS
  User = {u1}
  Request = {r1, r2}
  NoUser = NoUser
PROPERTY RotatedTokensAreRefused
CHECK_DEADLOCK FALSE
