\* Two paid orders, two lots of which one may be withdrawn, come back and be
\* paid for in the Shop, two calls at a time, two claims in all.
CONSTANTS
  Orders = {o1, o2}
  Lots = {1, 2}
  BotFirst = {2}
  Workers = {w1, w2}
  Tokens = {1, 2}
  Buyers = {b1}
  Seller = Seller
  Withdrawn = {1}
  Wanted = {1}
  MaxCalls = 2
SPECIFICATION Spec
SYMMETRY Symmetry
INVARIANTS
  SoldOnce
  CompletedIsDelivered
  OneBundlePerClaim
PROPERTIES
  LeaseKept
CHECK_DEADLOCK FALSE
