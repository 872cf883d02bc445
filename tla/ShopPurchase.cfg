SPECIFICATION Spec
CONSTANTS
  l1 = l1
  b1 = b1
  Anon = guest
  Lots = {l1}
  Purchases = {1, 2, 3}
  LotOf <- OneLot
  BuyerOf <- BuyerAndGuest
  Kinds = {"hybrid", "files", "proxy"}
  Requests = {r1, r2}
  MaxBuys = 2
  MaxFaults = 1
SYMMETRY SameRequests
INVARIANTS TypeOK HandedIsPaid  PaidIsSettled
PROPERTIES OrderKept
CHECK_DEADLOCK FALSE
