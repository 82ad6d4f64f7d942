\* Every pair of runs among two manual ones, an admin's and two sweeps, at midnight.
CONSTANTS
    Manual = {m1, m2}
    Admin = {a1}
    Attempts = {s1, s2}
    Dispatchers = {}
    Reconcilers = {k1}
    TicksPerDay = 2
    Horizon = 2
    Cooldown = 1
    DailyLimit = 1
    None = None
    NoAttempt = NoAttempt
SPECIFICATION Spec
SYMMETRY Symmetry
INVARIANTS SlotIsPending RunsHoldSlot BudgetIsExact ChargeIsDeserved
PROPERTIES ImplementsRunSlot
CHECK_DEADLOCK FALSE
CONSTRAINT Pairs
