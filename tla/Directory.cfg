SPECIFICATION Spec
CHECK_DEADLOCK FALSE
CONSTANTS
  None = None
  Proc = {p1, p2}
  User = {owner, buyer}
  Owners = {owner}
  Vid = {v1, v2}
  Name = {s}
  Short = {s}
  Kind = {avatar, cover}
  MaxTime = 2
  MaxCalls = 3
SYMMETRY Symmetry
INVARIANTS
  TypeOK
  ListedOpens
  ShowsLastPost
