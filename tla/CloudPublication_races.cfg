\* Three executions and a BFF that asks for any of them, with three calls going wrong.
CONSTANTS
    Executions = {e1, e2, e3}
    NoOne = NoOne
    MaxFaults = 3
SPECIFICATION Spec
SYMMETRY Symmetry
INVARIANTS LeaseIsExclusive RefusedByTheLiving ConflictNeedsFault
PROPERTIES ImplementsChain
CHECK_DEADLOCK FALSE
