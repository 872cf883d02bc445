\* Two partners' requests and one sender, with fairness: the sender may sign the
\* second transfer with the seqno of the first one, which is still in the mempool,
\* and each of the requests has its own turn.
CONSTANTS
  p1 = p1
  p2 = p2
  r1 = r1
  r2 = r2
  Partners = {p1, p2}
  Requests = {r1, r2}
  PartnerOf <- TwoPartners
  Senders = {s1}
  Markers = {}
  RewardSizes = {1}
  MinPayout = 1
  MaxAutoPayout = 1
  MaxEarned = 1
  MaxTransfers = 1
SPECIFICATION FairSpec
INVARIANTS
  ConfirmedIsPaid
PROPERTIES
  RequestIsTaken
CHECK_DEADLOCK FALSE
