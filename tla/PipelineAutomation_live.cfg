\* Two writes and two uses of the switches, with one failure or manual run in between.
CONSTANTS
    Dispatchers = {d1}
    MaxAttempts = 2
    MaxWrites = 2
    MaxSwitches = 2
    MaxDisturbed = 1
    None = None
    OtherRun = OtherRun
SPECIFICATION FairSpec
INVARIANTS ProcessedIsBuilt ChangeIsKept
PROPERTIES ChangeIsProcessed
CHECK_DEADLOCK FALSE
