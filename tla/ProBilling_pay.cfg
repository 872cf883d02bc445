SPECIFICATION Spec
CONSTANTS
  Orders = {o1}
  u1 = u1
  Owners = {u1}
  OwnerOf <- OneOwner
  Requests = {r1, r2}
  Job = job
  MaxTerms = 2
  MaxFaults = 1
INVARIANTS TypeOK PaidOnce
PROPERTIES OrderKept PaidGetsPro
CHECK_DEADLOCK FALSE
