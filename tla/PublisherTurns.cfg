CONSTANTS
  IdMod = 1
  TopicIds = {1}
  MaxReport = 1
  NetCap = 1
  CountMod = 3
  STATE_INTERVAL = 2
  PUBLISH_INTERVAL = 5
SPECIFICATION FairSpec
INVARIANTS StatsBalance
PROPERTIES KeepsTurning
