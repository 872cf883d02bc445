SPECIFICATION Spec
CONSTANTS
  p1 = p1
  c1 = c1
  c2 = c2
  Posts = {p1}
  Channels = {c1, c2}
  Admins = {a1, a2}
  BatchOf <- BatchEach
  ChannelOf <- AllInFirst
  Scheduler = Scheduler
  Sweep = Sweep
  Server = Server
  Panel = Panel
  MaxActs = 1
  MaxFaults = 1
  MaxSent = 2
INVARIANTS TypeOK PublishedOnce QueueAgrees
PROPERTIES SendingEnds AbandonedEditEnds
CHECK_DEADLOCK FALSE
