SPECIFICATION Spec
CHECK_DEADLOCK FALSE
CONSTANTS
  Nobody = Nobody
  Proc = {p1, p2}
  User = {u1, u2}
  Name = {n1, n2}
  Account = {a1, a2}
  MaxRows = 2
  MaxCalls = 4
  MaxRestarts = 1
SYMMETRY Symmetry
INVARIANTS
  TypeOK
  ClosedWithoutDev
  VerifiedSticks
  BankRowIsLatest
  DestinationIsOwn
