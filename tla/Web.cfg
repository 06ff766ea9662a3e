CONSTANTS
  Values = {"low", "high"}
  Window = 2
  MaxEntries = 4
SPECIFICATION FairSpec
INVARIANTS TypeOK GraphOfOneEvent
PROPERTIES NeverBlankAgain Case2Follows
