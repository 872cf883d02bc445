SPECIFICATION Spec
CONSTANTS
  Orders = {o1}
  u1 = u1
  Owners = {u1}
  OwnerOf <- OneOwner
  Requests = {r1}
  Job = job
  MaxTerms = 2
  MaxFaults = 0
INVARIANT TermsArePaidFor
CHECK_DEADLOCK FALSE
