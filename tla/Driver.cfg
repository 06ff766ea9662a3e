CONSTANTS
  Sensors <- Both
  Flips <- SomeBytes
  Cuts = {0, 17}
  Periods = {10}
  FrameMod = 2
SPECIFICATION Spec
INVARIANTS TypeOK BinsOfSameFrame NoiseDetected
