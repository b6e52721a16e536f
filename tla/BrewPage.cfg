SPECIFICATION FairSpec
CONSTANTS
    MaxClicks = 3
    MaxPins = 1
INVARIANTS
    ButtonAgrees
    HeatedByWorker
    StartedHasWorker
    KeepsPolling
PROPERTY StopEndsWorkers
CHECK_DEADLOCK FALSE
