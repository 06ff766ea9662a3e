CONSTANTS
  BaseLen = 12
SPECIFICATION BootFairSpec
INVARIANTS BootTypeOK ReadyBeforeUse
PROPERTIES NodeRuns
CHECK_DEADLOCK FALSE
