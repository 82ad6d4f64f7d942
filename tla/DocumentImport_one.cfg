\* One document, two dispatchers and two workers at once.
CONSTANTS
    Documents = {d1}
    Requests = {q1}
    Dispatchers = {k1, k2}
    Workers = {w1, w2}
    NoOne = NoOne
    Minute = 1
    RecordLease = 1
    ExecutionTimeout = 1
    WorkLease = 2
    Grace = 2
    MaxAttempts = 2
SYMMETRY Processes
SPECIFICATION Spec
INVARIANTS OneConversion OutcomeIsTrue WorkRemembered FailuresCounted
PROPERTIES ImplementsLife
CHECK_DEADLOCK FALSE
