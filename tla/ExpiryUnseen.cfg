SPECIFICATION Spec
CONSTANTS
  Accounts = {a1, a2}
  Calls = {c1, c2}
  Nil = Nil
PROPERTIES ExpiryUnseen
