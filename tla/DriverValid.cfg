CONSTANTS
  Sensors <- OnlyBins
  Flips <- NoBytes
  Cuts = {0, 17}
  Periods = {10}
  FrameMod = 4
SPECIFICATION Spec
INVARIANTS ValidFramesReceived
