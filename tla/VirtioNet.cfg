CONSTANTS
  Num = 2
  IdxMod = 4
  MaxTraffic = 5
  EventIdx = {FALSE, TRUE}
  Reorders = {"tx"}
  Polls = {"rx"}
  Paced = TRUE
SPECIFICATION FairSpec
INVARIANTS OneOwner Faithful NoLostInterrupt
PROPERTIES SentReachesWire FramesDelivered
CHECK_DEADLOCK FALSE
