SPECIFICATION Spec
CONSTANTS
  Nobody = Nobody
  Req = {r1}
  Tick = {t1}
  Ops = {"cashout", "cancel"}
  MaxId = 1
  Amounts = {500}
  InitAvail = 500
  LegacyRows = 0
  BigintStrings = TRUE
INVARIANT RefundedOnce
