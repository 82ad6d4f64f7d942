\* One intent, its request and a dispatcher.
CONSTANTS
    Manual = {m1}
    Admin = {}
    Attempts = {}
    Dispatchers = {d1}
    Reconcilers = {k1}
    TicksPerDay = 1
    Horizon = 0
    Cooldown = 1
    DailyLimit = 1
    None = None
    NoAttempt = NoAttempt
SPECIFICATION FairSpec
INVARIANTS InvokedOnce
PROPERTIES EndedRunSettles IntentIsTaken
CHECK_DEADLOCK FALSE
