SPECIFICATION WatchedSpec
CONSTANTS
  Nobody = Nobody
  Req = {r1, r2}
  Tick = {}
  Ops = {"complete", "fail", "cancel", "repair", "retry"}
  MaxId = 3
  Amounts = {500}
  InitAvail = 500
  LegacyRows = 1
  BigintStrings = FALSE
SYMMETRY Symmetry
INVARIANTS
  FundsKeptApart
  OneRetryApart
  PagesReconcileApart
