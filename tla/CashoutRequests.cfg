SPECIFICATION Spec
CONSTANTS
  Nobody = Nobody
  Req = {r1, r2, r3}
  Tick = {}
  Ops = {"cashout", "complete", "fail", "cancel", "repair", "retry"}
  MaxId = 2
  Amounts = {500}
  InitAvail = 1000
  LegacyRows = 0
  BigintStrings = TRUE
SYMMETRY Symmetry
INVARIANTS
  TypeOK
  RefundedOnce
  NoDeadlock
PROPERTIES
  CompletedIsFinal
  ImplementsBook
