\* One request, two concurrent senders and an administrator who books by hand.
CONSTANTS
  p1 = p1
  p2 = p2
  r1 = r1
  r2 = r2
  Partners = {p1}
  Requests = {r1}
  PartnerOf <- OnlyRequest
  Senders = {s1, s2}
  Markers = {m1}
  RewardSizes = {1}
  MinPayout = 1
  MaxAutoPayout = 1
  MaxEarned = 2
  MaxTransfers = 2
SPECIFICATION Spec
SYMMETRY SenderSymmetry
INVARIANTS
  TypeOK
  AtMostOneTransfer
  SentIsDebited
  JournaledOnce
PROPERTIES
  SettledStays
  LedgerKept
CHECK_DEADLOCK FALSE
