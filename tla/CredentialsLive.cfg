SPECIFICATION FairSpec
CONSTANTS
  Users = {u1}
  Requests = {r1, r2, r3}
  Tokens = {1, 2}
  Passwords = {p1}
  Nil = Nil
  MaxAttempts = 2
  LockDuration = 1
  ResetTtl = 1
  MaxTime = 1
CHECK_DEADLOCK FALSE
PROPERTIES
  RequestsFinish
