SPECIFICATION FairSpec
CONSTANTS
  Flows = {f1, f2, f3}
  Ports = {p1}
  Rounds = 2
  Nil = Nil
INVARIANTS
  TypeOK
  PairFromOneRequest
  ButtonsComeBack
PROPERTIES
  ClientsSettle
