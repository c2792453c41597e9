SPECIFICATION Spec
CONSTANTS
  Nobody = Nobody
  Req = {r1, r2}
  Tick = {t1}
  Ops = {"cashout", "retry"}
  MaxId = 2
  Amounts = {500}
  InitAvail = 1000
  LegacyRows = 0
  BigintStrings = TRUE
SYMMETRY Symmetry
INVARIANTS
  SettledBalances
