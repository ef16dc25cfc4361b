SPECIFICATION FairSpec
CONSTANTS
  MaxBirths = 2
  MaxFaults = 1
  MaxTries = 2
PROPERTIES
  PodsNeedTheFinalizer
  StatusWritersDoNotUndo
  PodsWaitForTheirSetup
  RunningPodsGetReady
  DeletionCompletes
CHECK_DEADLOCK FALSE
