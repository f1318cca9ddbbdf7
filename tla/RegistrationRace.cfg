SPECIFICATION Spec
CONSTANTS
  Users = {u1, u2}
  Names = {n1, n2}
  Addresses = {a1, a2}
  Requests = {r1, r2}
  Tokens = {1, 2}
  Nil = Nil
SYMMETRY Symmetry
CHECK_DEADLOCK FALSE
INVARIANTS
  TypeOK
  VerifiedByOwnMail
  StillVerifiable
  OnlyDeletionsDeadlock
PROPERTIES
  GoneForGood
  DirectorySpec
