SPECIFICATION FairSpec
CONSTANTS
  Nobody = Nobody
  Req = {r1}
  Tick = {t1}
  Ops = {"cashout", "complete", "fail", "cancel", "repair", "retry"}
  MaxId = 2
  Amounts = {500}
  InitAvail = 1000
  LegacyRows = 1
  BigintStrings = FALSE
INVARIANTS
  PendingIsDebitOnly
  FailedIsRefunded
PROPERTIES
  PendingSettles
