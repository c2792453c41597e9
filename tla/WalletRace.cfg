SPECIFICATION Spec
CHECK_DEADLOCK FALSE
CONSTANTS
  Nobody = Nobody
  Proc = {p1, p2}
  User = {u1, u2}
  Ops = {"summary", "deposit", "cashout", "payout", "transfer"}
  MaxId = 3
  MaxCalls = 4
  Amounts = {10}
  FeePercent = 10
  BigintStrings = FALSE
SYMMETRY Symmetry
INVARIANTS
  TypeOK
  CirclesArePayments
  OneWallet
