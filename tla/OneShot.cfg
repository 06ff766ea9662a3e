\* The caller really stops: it blocks for good on the leaked mutex.
CHECK_DEADLOCK FALSE
CONSTANTS
  IdMod = 2
  TopicIds = {1}
  MaxReport = 2
  NetCap = 1
SPECIFICATION FairSpec
INVARIANTS TypeOK OpenOnlyAfterRegFail OkMeansDelivered
PROPERTIES LeftOpenForever SecondCallBlocks
