\* The driver's frames are bounded, the reader's reports are not.
CONSTANTS
  Words <- MCWords
  Bins <- MCBins
  Values <- MCValues
  MaxFrames = 2
SPECIFICATION Spec
INVARIANTS TypeOK TornPerFrame WordsBeforeBins ReportFresh
