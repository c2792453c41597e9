SPECIFICATION FairSpec
CHECK_DEADLOCK FALSE
CONSTANTS
  Anon = Anon
  Proc = {p1, p2}
  Email = {e1, e2}
  MaxUsers = 2
  MaxAsked = 2
  MaxCalls = 8
INVARIANTS
  TypeOK
  DeletedByRequest
  MeIsMine
PROPERTIES
  NoLateLogin
  LockedOut
