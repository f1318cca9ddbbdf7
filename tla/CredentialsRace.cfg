SPECIFICATION Spec
CONSTANTS
  Users = {u1}
  Requests = {r1, r2}
  Tokens = {1, 2}
  Passwords = {p1, p2}
  Nil = Nil
  MaxAttempts = 2
  LockDuration = 1
  ResetTtl = 1
  MaxTime = 2
SYMMETRY Symmetry
CHECK_DEADLOCK FALSE
INVARIANTS
  TypeOK
  LockNeedsMisses
  OlderTokensRetired
PROPERTIES
  DeskSpec
