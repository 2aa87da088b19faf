SPECIFICATION FairDeliverySpec
CONSTANTS
  d1 = d1
  MaxRow = 2
  Destinations = {d1}
  To <- OneRoute
  Self = Self
  Wrapped = {1, 2}
  Senders = {s1, s2}
  Capacity = 2
  MaxAttempts = 2
  MaxMailbox = 1
  PollLimit = 1
  MaxLate = 1
  None = None
INVARIANTS SentIsAccepted
PROPERTIES OvertakenOnlyIfDead QueueDrains
CHECK_DEADLOCK FALSE
