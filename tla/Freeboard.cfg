SPECIFICATION FairSpec
CHECK_DEADLOCK FALSE
CONSTANTS
  Nobody = Nobody
  Drop = {d1, d2}
  Code = {c1, c2}
  Call = {p1, p2}
  Timer = {t1}
  Rewards <- RewardsAsked
  Lifetimes = {0, 1}
  MaxClock = 2
  UniqueCodes = TRUE
INVARIANTS
  TypeOK
  OneReward
PROPERTIES
  ExpiredLeaves
