\* The claim of the design notes: a slow worker does not hand out a second
\* bundle.
CONSTANTS
  Orders = {o1}
  Lots = {1, 2}
  BotFirst = {2}
  Workers = {w1, w2}
  Tokens = {1, 2}
  Buyers = {b1}
  Seller = Seller
  Withdrawn = {1}
  Wanted = {1}
  MaxCalls = 2
SPECIFICATION Spec
SYMMETRY Symmetry
INVARIANTS
  NoSecondBundle
CHECK_DEADLOCK FALSE
