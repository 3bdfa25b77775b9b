CONSTANTS
  Num = 2
  IdxMod = 4
  MaxTraffic = 3
  EventIdx = {FALSE}
  Reorders = {"tx"}
  Polls = {"rx"}
  Paced = FALSE
SPECIFICATION FairSpec
INVARIANT FullQueueReported
CHECK_DEADLOCK FALSE
