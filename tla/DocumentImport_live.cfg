\* One document, with a queue that keeps being swept.
CONSTANTS
    Documents = {d1}
    Requests = {q1}
    Dispatchers = {k1}
    Workers = {w1}
    NoOne = NoOne
    Minute = 1
    RecordLease = 1
    ExecutionTimeout = 1
    WorkLease = 2
    Grace = 2
    MaxAttempts = 2
SPECIFICATION FairSpec
PROPERTIES AcceptedEnds DeletionEnds
CHECK_DEADLOCK FALSE
