CONSTANTS
  IdMod = 2
  TopicIds = {1}
  MaxReport = 2
  NetCap = 2
  CountMod = 1
  STATE_INTERVAL = 2
  PUBLISH_INTERVAL = 5
SPECIFICATION Spec
INVARIANTS TypeOK SessionDiscipline AckedDelivered ShortIntervalUntilPublishing IInv
PROPERTIES ImplementsReporter
