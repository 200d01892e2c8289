SPECIFICATION FairSpec
CONSTANTS
  MaxRequests = 3
  MaxBad = 1
  Cap = 2
INVARIANTS
  NoReplyLost
  NoLostWakeup
PROPERTIES
  ImplementsPipe
  ReplyArrives
  ConnectionReleased
  RequestServed
CHECK_DEADLOCK FALSE
