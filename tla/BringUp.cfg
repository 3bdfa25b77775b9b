CONSTANTS
  Offers = {{"mac", "version_1"}, {"version_1"}}
  Patience = 10
  MayFail = {"caps", "reset", "features", "memory"}
  MaxTests = 3
SPECIFICATION BringUpSpec
INVARIANTS DoneMeansLive
PROPERTIES InitEnds ReportedIsSent
CHECK_DEADLOCK FALSE
