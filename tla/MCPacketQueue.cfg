CONSTANTS
  Senders = {s1, s2}
  Capacity = 2
  MaxResumes = 2
  InitActive = FALSE
SPECIFICATION FairSpec
INVARIANTS TypeOK NoLostWakeup StrandedBounded
PROPERTIES DeliveredFresh ReceiverWakes
CHECK_DEADLOCK FALSE
