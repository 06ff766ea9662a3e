CONSTANTS
  IdMod = 2
  TopicIds = {1}
  MaxReport = 1
  NetCap = 2
  CountMod = 1
  STATE_INTERVAL = 2
  PUBLISH_INTERVAL = 5
SPECIFICATION HealingSpec
PROPERTIES Recovers KeepsPublishing
