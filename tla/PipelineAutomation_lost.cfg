\* Two writes, the switches left on, and nothing fails.
CONSTANTS
    Dispatchers = {d1}
    MaxAttempts = 2
    MaxWrites = 2
    MaxSwitches = 0
    MaxDisturbed = 0
    None = None
    OtherRun = OtherRun
SPECIFICATION Spec
INVARIANT ChangeIsProcessedAutomatically
CHECK_DEADLOCK FALSE
