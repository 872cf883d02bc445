SPECIFICATION Spec
CONSTANTS
  k1 = k1
  r1 = r1
  r2 = r2
  a1 = a1
  Actors = {a1}
  Callers = {job, m1}
  Job = job
  Cap = 1
  MaxFaults = 2
  MaxManual = 1
  Campaigns = {k1}
  Rows = {r1, r2}
  CampaignOf <- MCCampaignOf
  BatchOf <- MCBatchOf
  PoolOf <- MCPoolOf
INVARIANTS QuotaOvershootBounded OneMessageEach CancelStops ClosedIsDecided
PROPERTIES MailingKept QueuedEnds
CHECK_DEADLOCK FALSE
