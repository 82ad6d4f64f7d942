\* A start that is refused while the quota document cannot be written.
CONSTANTS
    Manual = {m1}
    Admin = {}
    Attempts = {s1}
    Dispatchers = {d1}
    Reconcilers = {k1}
    TicksPerDay = 1
    Horizon = 0
    Cooldown = 1
    DailyLimit = 1
    None = None
    NoAttempt = NoAttempt
SPECIFICATION FairSpec
PROPERTIES MarkedIsReleased
CHECK_DEADLOCK FALSE
