SPECIFICATION Spec
CONSTANTS
  Users = {u1, u2}
  Requests = {r1, r2}
  Emails = {e1, e2}
  Services = {v1}
  Scans = {s1, s2}
  Closures = {c1}
  Nil = Nil
SYMMETRY Symmetry
CHECK_DEADLOCK FALSE
INVARIANTS
  TypeOK
  RowsHaveOwners
  CountsMatch
  RunningIsWorkedOn
  ClosureHasTarget
  ShownWhole
  NoStandstill
PROPERTIES
  JobsSpec
