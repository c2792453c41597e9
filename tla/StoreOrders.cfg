SPECIFICATION Spec
CHECK_DEADLOCK FALSE
CONSTANTS
  Nobody = Nobody
  Proc = {p1, p2}
  User = {u1, u2}
  Venue = {v1}
  Routes = {"order", "cancelMyOrder", "ownerMark", "ownerCancel", "staffMark", "staffCancel", "cancelOwnerOrder"}
  Price = {25}
  Quantity = {3}
  MaxItems = 1
  MaxOrders = 2
  MaxCalls = 4
SYMMETRY Symmetry
INVARIANTS
  TypeOK
  EveryOrderPaid
  ClientsAgree
  RefundedPerOpening
  DashboardCovered
  SoldOrdersShown
PROPERTY
  CompletedIsFinal
