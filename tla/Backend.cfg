CONSTANTS
  MaxReport = 2
  MaxPassed = 3
  Window = 2
  High = {2}
SPECIFICATION FairSpec
INVARIANTS TypeOK NoLossWhileSubscribed
PROPERTIES ImplementsArchive DeafUntilRestart PendingStored WarnsOfTheFirst
