SPECIFICATION FairSpec
CONSTANTS
  Users = {u1, u2}
  Requests = {r1, r2}
  Emails = {e1}
  Services = {v1}
  Scans = {s1, s2}
  Closures = {c1}
  Nil = Nil
CHECK_DEADLOCK FALSE
PROPERTIES
  RequestsFinish
  ScansEnd
