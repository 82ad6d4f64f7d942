---------------------------- MODULE MCMCPAdmission ----------------------------
EXTENDS MCPAdmission, TLC

CONSTANTS c1, c2, c3, h1, h2, p1, p2, account, old, new

\* Two projects of one account; the second process has the newer policy.
MCHostOf    == (c1 :> h1) @@ (c2 :> h1) @@ (c3 :> h2)
MCProjectOf == (c1 :> p1) @@ (c2 :> p2) @@ (c3 :> p1)
MCAccountOf == [c \in Calls |-> account]
MCPolicyOf  == (h1 :> old) @@ (h2 :> new)

Limit(inflight, capacity, refill) ==
    [inflight |-> inflight, capacity |-> capacity, refill |-> refill]

\* A token takes two units of time to come back.  The newer policy is tighter
\* for the account and the fleet and looser for a project.
MCPolicy ==
    (old :> [r \in Records |-> CASE r = Fleet   -> Limit(2, 0, 0)
                                 [] r = account -> Limit(2, 4, 1)
                                 [] OTHER       -> Limit(1, 2, 1)]) @@
    (new :> [r \in Records |-> CASE r = Fleet   -> Limit(1, 0, 0)
                                 [] r = account -> Limit(1, 4, 1)
                                 [] OTHER       -> Limit(2, 4, 1)])
=============================================================================
