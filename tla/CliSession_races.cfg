\* Two commands at a time on one machine, a second login, two rotations of a
\* session and one fault.
CONSTANTS
    Commands = {c1, c2}
    NoOne = NoOne
    MaxLogins = 2
    MaxRotations = 2
    MaxFaults = 1
SPECIFICATION Spec
SYMMETRY Symmetry
INVARIANTS StoredIsUsable StaysLoggedIn
CHECK_DEADLOCK FALSE
