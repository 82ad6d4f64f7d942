\* Two processes under two policies, three calls of one account in two projects,
\* clocks that differ by the margin between work and lease, and one fault.
CONSTANTS
    c1 = c1
    c2 = c2
    c3 = c3
    h1 = h1
    h2 = h2
    p1 = p1
    p2 = p2
    account = account
    old = old
    new = new
    Fleet = fleet
    NoOne = NoOne
    Calls = {c1, c2, c3}
    Hosts = {h1, h2}
    Records = {p1, p2, account, fleet}
    Policies = {old, new}
    HostOf <- MCHostOf
    ProjectOf <- MCProjectOf
    AccountOf <- MCAccountOf
    PolicyOf <- MCPolicyOf
    Policy <- MCPolicy
    LocalMax = 2
    Unit = 2
    MaxCapacity = 4
    MaxRefill = 1
    WorkTime = 1
    LeaseTime = 2
    Skew = 1
    MaxTime = 2
    MaxFaults = 1
SPECIFICATION Spec
INVARIANTS HoldsLease WithinEveryPolicy WithinRate CountsItsCalls LeavesNothing LeasesEnd
CHECK_DEADLOCK FALSE
