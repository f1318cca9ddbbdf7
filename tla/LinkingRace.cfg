SPECIFICATION Spec
CONSTANTS
  Users = {u1, u2}
  Requests = {r1, r2}
  Emails = {e1, e2}
  Flows = {s1, s2}
  Grants = {g1, g2}
  BrowserProviders = {meta}
  DeviceProviders = {microsoft}
  Revocable = {meta}
  Meta = meta
  Nil = Nil
SYMMETRY Symmetry
CHECK_DEADLOCK FALSE
INVARIANTS
  TypeOK
  RowsHaveOwners
PROPERTIES
  StateGoneOnlyWithLink
  DeskSpec
