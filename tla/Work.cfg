SPECIFICATION WorkFairSpec
CONSTANTS
    Nodes <- HostMC
    MaxTasks = 3
    Period <- PeriodMC
    Minute = 2
    Grace = 1
    GraceCap = 1
    Window = 2
    Timeout = 1
    KeepFinished = 1
    Bounds <- JobsMC
INVARIANTS ExecutedOnce FinishedIsOver RestartsRoll OperationsUnique PinnedImages
PROPERTIES JobsStop StartsAsAccepted OperationsMoveOn
CHECK_DEADLOCK FALSE
