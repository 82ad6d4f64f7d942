----------------------------- MODULE MCPAdmission -----------------------------
(***************************************************************************)
(* Admission of protected MCP calls (internal/mcpquota).  A call takes a   *)
(* slot of its process and then, in one transaction over the records of    *)
(* its project, its account and the fleet, a token and a lease of each.    *)
(* The transaction may commit after its caller has given it up, processes  *)
(* of two releases may enforce two policies, and their clocks differ.      *)
(***************************************************************************)
EXTENDS Integers, FiniteSets

CONSTANTS
    Calls, Hosts, Records, Fleet,
    HostOf, ProjectOf, AccountOf,  \* of a call: its process and its two own records
    Policies, Policy,              \* Policy[p][r]: the limits of record r under p
    PolicyOf,                      \* of a host
    LocalMax,                      \* calls of one process at a time
    Unit,                          \* tokens that an admission costs
    MaxCapacity, MaxRefill,        \* the largest bucket and rate that any policy sets
    WorkTime, LeaseTime,
    Skew,                          \* how far a clock may be ahead of another
    NoOne,
    MaxTime,                       \* bound: the time of a behaviour
    MaxFaults                      \* bound: lost answers, failed calls and crashes

Limits == [inflight : Nat \ {0}, capacity : Nat, refill : Nat]

KeysOf(c) == {ProjectOf[c], AccountOf[c], Fleet}

ASSUME AdmissionAssumption ==
    /\ IsFiniteSet(Calls)
    /\ HostOf \in [Calls -> Hosts] /\ PolicyOf \in [Hosts -> Policies]
    /\ ProjectOf \in [Calls -> Records] /\ AccountOf \in [Calls -> Records]
    /\ Fleet \in Records /\ NoOne \notin Calls \cup Policies
    /\ \A c \in Calls : Cardinality(KeysOf(c)) = 3
    /\ LocalMax \in Nat \ {0} /\ Unit \in Nat \ {0}
    /\ MaxCapacity \in Nat /\ MaxRefill \in Nat
    /\ WorkTime \in Nat \ {0} /\ LeaseTime \in Nat /\ Skew \in Nat
    /\ MaxTime \in Nat /\ MaxFaults \in Nat

\* ValidateMCPProtection: a lease outlasts the work by a margin, which is meant
\* for clocks that differ.  The fleet has no bucket, every other record has one.
ASSUME PolicyAssumption ==
    /\ Policy \in [Policies -> [Records -> Limits]]
    /\ \A p \in Policies, r \in Records :
         /\ Policy[p][r].capacity <= MaxCapacity /\ Policy[p][r].refill <= MaxRefill
         /\ IF r = Fleet THEN Policy[p][r].capacity = 0 ELSE Policy[p][r].capacity >= Unit
    /\ WorkTime + Skew <= LeaseTime

VARIABLES
    now,      \* real time
    record,   \* the shared records
    flying,   \* calls whose admission may still commit
    leaving,  \* calls whose release may still commit
    call,     \* control state of a call, and the clock and the time it began at
    active,   \* calls that a process counts
    gate,     \* the call whose admission a process has under way
    granted,  \* auxiliary: calls that were ever given leases
    unlucky,  \* auxiliary: calls that a fault has hit
    faults

vars == <<now, record, flying, leaving, call, active, gate, granted, unlucky, faults>>

AtGate  == {"admitting", "admitted", "refused", "looking"}
Holding == AtGate \cup {"waiting", "running", "closing", "closed"}

Times == 0 .. MaxTime + Skew + LeaseTime

\* A record that was never written has no revision.  An expiry of 0: no lease.
\* Auxiliary: when the record was first written.
Record == [revision : Policies \cup {NoOne}, limits : Limits \cup {NoOne}, tokens : Nat,
           created : Times, refilled : Times, updated : Times, expires : [Calls -> Times]]
Call   == [pc : Holding \cup {"new", "done", "dead"}, clock : Times, began : Times]

TypeOK ==
    /\ now \in 0 .. MaxTime
    /\ record \in [Records -> Record]
    /\ flying \subseteq Calls /\ leaving \subseteq Calls
    /\ call \in [Calls -> Call]
    /\ active \in [Hosts -> Nat]
    /\ gate \in [Hosts -> Calls \cup {NoOne}]
    /\ granted \subseteq Calls /\ unlucky \subseteq Calls
    /\ faults \in 0 .. MaxFaults

Missing == [revision |-> NoOne, limits |-> NoOne, tokens |-> 0, created |-> 0, refilled |-> 0,
            updated |-> 0, expires |-> [c \in Calls |-> 0]]

Init ==
    /\ now = 0
    /\ record = [r \in Records |-> Missing]
    /\ flying = {} /\ leaving = {} /\ granted = {} /\ unlucky = {} /\ faults = 0
    /\ call = [c \in Calls |-> [pc |-> "new", clock |-> 0, began |-> 0]]
    /\ active = [h \in Hosts |-> 0]
    /\ gate = [h \in Hosts |-> NoOne]

Tick ==
    /\ now < MaxTime
    /\ now' = now + 1
    /\ UNCHANGED <<record, flying, leaving, call, active, gate, granted, unlucky, faults>>

Fault(C) == faults < MaxFaults /\ faults' = faults + 1 /\ unlucky' = unlucky \cup C

Go(c, pc) == call' = [call EXCEPT ![c].pc = pc]

Leave(h)     == active' = [active EXCEPT ![h] = @ - 1]
OpenGate(h)  == gate' = [gate EXCEPT ![h] = NoOne]
EndCall(c)   == /\ call' = [call EXCEPT ![c] = [@ EXCEPT !.pc = "done", !.began = 0]]
                /\ Leave(HostOf[c])

-----------------------------------------------------------------------------
(* The records.                                                            *)

Later(a, b)   == IF a >= b THEN a ELSE b
Earlier(a, b) == IF a <= b THEN a ELSE b

Leases(rec)   == {c \in Calls : rec.expires[c] > 0}

\* (bug) the newer policy's limits are taken at once.
NewerLimits(a, b) == b

MinLimits(a, b) ==
    [inflight |-> Earlier(a.inflight, b.inflight),
     capacity |-> Earlier(a.capacity, b.capacity),
     refill   |-> Earlier(a.refill, b.refill)]

\* (bug) leases are pruned by the shorter time that work is given.
PrunedEarly(rec, t) ==
    [rec EXCEPT !.expires = [c \in Calls |-> IF @[c] + WorkTime > t + LeaseTime THEN @[c] ELSE 0]]

Pruned(rec, t) ==
    [rec EXCEPT !.expires = [c \in Calls |-> IF @[c] > t THEN @[c] ELSE 0]]

\* Leases that a record still holds keep the limits from being loosened.
Limited(rec, p, limits) ==
    IF rec.revision = p THEN rec
    ELSE IF Leases(rec) = {} THEN [rec EXCEPT !.revision = p, !.limits = limits]
    ELSE [rec EXCEPT !.limits = MinLimits(@, limits)]

\* (bug) the time of the last refill is not moved on.
RefilledAgain(rec, t) ==
    LET elapsed == IF t > rec.refilled THEN t - rec.refilled ELSE 0 IN
    [rec EXCEPT !.tokens = Earlier(rec.limits.capacity, @ + elapsed * rec.limits.refill)]

\* Tokens for the time since the last refill, up to the bucket's capacity.
Refilled(rec, t) ==
    LET elapsed == IF t > rec.refilled THEN t - rec.refilled ELSE 0 IN
    [rec EXCEPT !.tokens = Earlier(rec.limits.capacity, @ + elapsed * rec.limits.refill),
                !.refilled = Later(@, t)]

\* A record as a transaction of policy p sees it at time t.
Normal(r, p, t) ==
    IF record[r].revision = NoOne
    THEN [revision |-> p, limits |-> Policy[p][r], tokens |-> Policy[p][r].capacity,
          created |-> t, refilled |-> t, updated |-> t, expires |-> [c \in Calls |-> 0]]
    ELSE Refilled(Limited(Pruned(record[r], t), p, Policy[p][r]), t)

\* The latest of a clock and of the times that the call's records were written.
Effective(c, clock) ==
    Later(clock, Later(record[ProjectOf[c]].updated,
                       Later(record[AccountOf[c]].updated, record[Fleet].updated)))

\* The records in which the call's own lease is found.
Found(c) == {r \in KeysOf(c) : record[r].expires[c] > call[c].clock}

Room(rec)     == Cardinality(Leases(rec)) < rec.limits.inflight
CanPay(rec)   == rec.limits.capacity > 0 => rec.tokens >= Unit
Admits(rec)   == Room(rec) /\ CanPay(rec)

\* (bug) the record's time is that of the lease's end.
LeasedAhead(rec, c, t) ==
    [rec EXCEPT !.tokens = IF rec.limits.capacity > 0 THEN @ - Unit ELSE @,
                !.expires = [@ EXCEPT ![c] = t + LeaseTime],
                !.updated = t + LeaseTime]

\* The record with one more lease, paid for.
Leased(rec, c, t) ==
    [rec EXCEPT !.tokens = IF rec.limits.capacity > 0 THEN @ - Unit ELSE @,
                !.expires = [@ EXCEPT ![c] = t + LeaseTime],
                !.updated = t]

-----------------------------------------------------------------------------
(* Admission.                                                              *)

\* tryLocal, and the clock that the deadline and the leases are counted from.
Enter(c, clock) ==
    /\ call[c].pc = "new"
    /\ IF active[HostOf[c]] < LocalMax
       THEN /\ call' = [call EXCEPT ![c] = [pc |-> "waiting", clock |-> clock, began |-> now]]
            /\ active' = [active EXCEPT ![HostOf[c]] = @ + 1]
       ELSE Go(c, "done") /\ UNCHANGED active
    /\ UNCHANGED <<now, record, flying, leaving, gate, granted, unlucky, faults>>

\* The wait for the gate ends with the admission's time.
WaitNoMore(c) ==
    /\ call[c].pc = "waiting"
    /\ EndCall(c)
    /\ UNCHANGED <<now, record, flying, leaving, gate, granted, unlucky, faults>>

\* The call passes the gate of its process and begins its transaction.
PassGate(c) ==
    /\ call[c].pc = "waiting" /\ gate[HostOf[c]] = NoOne
    /\ gate' = [gate EXCEPT ![HostOf[c]] = c]
    /\ flying' = flying \cup {c}
    /\ Go(c, "admitting")
    /\ UNCHANGED <<now, record, leaving, active, granted, unlucky, faults>>

\* An answer for a caller that waits for it.
Answer(c, pc) == IF call[c].pc = "admitting" THEN Go(c, pc) ELSE UNCHANGED call

\* The transaction commits, whether or not anyone waits for it.  A retry under
\* the same id finds the leases of the attempt before it; some of them only is an
\* error, like a failed commit.
Commit(c) ==
    LET p      == PolicyOf[HostOf[c]]
        t      == Effective(c, call[c].clock)
        seen   == [r \in Records |-> Normal(r, p, t)]
        admits == \A r \in KeysOf(c) : Admits(seen[r])
    IN  /\ c \in flying /\ flying' = flying \ {c}
        /\ IF Found(c) = {} /\ admits
           THEN /\ record' = [r \in Records |-> IF r \in KeysOf(c) THEN Leased(seen[r], c, t)
                                                                   ELSE record[r]]
                /\ granted' = granted \cup {c}
           ELSE UNCHANGED <<record, granted>>
        /\ Answer(c, IF Found(c) = KeysOf(c) THEN "admitted"
                     ELSE IF Found(c) # {}   THEN "looking"
                     ELSE IF admits          THEN "admitted" ELSE "refused")
        /\ UNCHANGED <<now, leaving, active, gate, unlucky, faults>>

\* The transaction fails: it was aborted, timed out, or its answer is lost.
Unanswered(c) ==
    /\ call[c].pc \in {"admitting", "admitted", "refused"} /\ Fault({c})
    /\ flying' \in {flying, flying \ {c}}
    /\ Go(c, "looking")
    /\ UNCHANGED <<now, record, leaving, active, gate, granted>>

\* Another attempt of the same transaction.
TryAgain(c) ==
    /\ call[c].pc = "looking"
    /\ flying' = flying \cup {c}
    /\ Go(c, "admitting")
    /\ UNCHANGED <<now, record, leaving, active, gate, granted, unlucky, faults>>

\* readLeaseTriplet, after which the protected work starts.
LookBack(c) ==
    /\ call[c].pc = "looking" /\ Found(c) = KeysOf(c)
    /\ Go(c, "running")
    /\ OpenGate(HostOf[c])
    /\ UNCHANGED <<now, record, flying, leaving, active, granted, unlucky, faults>>

\* (bug) a call that is turned away leaves the gate shut.
GiveUpAtGate(c) ==
    /\ call[c].pc = "looking"
    /\ EndCall(c)
    /\ UNCHANGED <<now, record, flying, leaving, gate, granted, unlucky, faults>>

\* The leases are not found, or cannot be read: the call is turned away.
GiveUp(c) ==
    /\ call[c].pc = "looking"
    /\ EndCall(c)
    /\ OpenGate(HostOf[c])
    /\ UNCHANGED <<now, record, flying, leaving, granted, unlucky, faults>>

Start(c) ==
    /\ call[c].pc = "admitted"
    /\ Go(c, "running")
    /\ OpenGate(HostOf[c])
    /\ UNCHANGED <<now, record, flying, leaving, active, granted, unlucky, faults>>

TurnAway(c) ==
    /\ call[c].pc = "refused"
    /\ EndCall(c)
    /\ OpenGate(HostOf[c])
    /\ UNCHANGED <<now, record, flying, leaving, granted, unlucky, faults>>

-----------------------------------------------------------------------------
(* Close.                                                                  *)

Close(c) ==
    /\ call[c].pc = "running"
    /\ Go(c, "closing")
    /\ leaving' = leaving \cup {c}
    /\ UNCHANGED <<now, record, flying, active, gate, granted, unlucky, faults>>

\* (bug) the fleet's lease is left to expire.
WithoutLeaseOwn(c, t) ==
    [r \in Records |->
       IF r \in KeysOf(c) \ {Fleet} /\ record[r].revision # NoOne
       THEN [record[r] EXCEPT !.expires = [@ EXCEPT ![c] = 0], !.updated = t]
       ELSE record[r]]

WithoutLease(c, t) ==
    [r \in Records |->
       IF r \in KeysOf(c) /\ record[r].revision # NoOne
       THEN [record[r] EXCEPT !.expires = [@ EXCEPT ![c] = 0], !.updated = t]
       ELSE record[r]]

\* releaseTransaction commits, at a clock read at any time before.
Release(c, clock) ==
    /\ c \in leaving /\ leaving' = leaving \ {c}
    /\ record' = WithoutLease(c, Effective(c, clock))
    /\ IF call[c].pc = "closing" THEN Go(c, "closed") ELSE UNCHANGED call
    /\ UNCHANGED <<now, flying, active, gate, granted, unlucky, faults>>

Closed(c) ==
    /\ call[c].pc = "closed"
    /\ EndCall(c)
    /\ UNCHANGED <<now, record, flying, leaving, gate, granted, unlucky, faults>>

\* No attempt was answered in time.
CloseFails(c) ==
    /\ call[c].pc = "closing" /\ Fault({c})
    /\ leaving' \in {leaving, leaving \ {c}}
    /\ EndCall(c)
    /\ UNCHANGED <<now, record, flying, gate, granted>>

\* A process ends: what it counted is gone, what it sent may still commit.
Crash(h) ==
    LET lost == {c \in Calls : HostOf[c] = h /\ call[c].pc \in Holding} IN
    /\ lost # {} /\ Fault(lost)
    /\ call' = [c \in Calls |-> IF c \in lost THEN [call[c] EXCEPT !.pc = "dead"] ELSE call[c]]
    /\ active' = [active EXCEPT ![h] = 0]
    /\ OpenGate(h)
    /\ UNCHANGED <<now, record, flying, leaving, granted>>

-----------------------------------------------------------------------------
Step(c) ==
    \/ \E ahead \in 0 .. Skew : Enter(c, now + ahead)
    \/ WaitNoMore(c) \/ PassGate(c) \/ Commit(c) \/ Unanswered(c) \/ TryAgain(c)
    \/ LookBack(c) \/ GiveUp(c) \/ Start(c) \/ TurnAway(c)
    \/ Close(c) \/ Closed(c) \/ CloseFails(c)
    \/ \E clock \in 0 .. now + Skew : Release(c, clock)

Next ==
    \/ Tick
    \/ \E c \in Calls : Step(c)
    \/ \E h \in Hosts : Crash(h)

Spec == Init /\ [][Next]_vars

-----------------------------------------------------------------------------
(* Properties.                                                             *)

\* Protected work that is within its time, which its process measures.
Working(c) == call[c].pc = "running" /\ now < call[c].began + WorkTime

\* Work within its time holds its three leases, and no process will prune them,
\* however its clock differs.
HoldsLease ==
    \A c \in Calls : Working(c) =>
      \A r \in KeysOf(c) : record[r].expires[c] > now + Skew

\* While policies change, a project, an account and the fleet never have more
\* work at a time than the policy of any of that work allows.
WithinEveryPolicy ==
    \A r \in Records :
      LET working == {c \in Calls : r \in KeysOf(c) /\ Working(c)} IN
      \A c \in working :
        Cardinality(working) <= Policy[PolicyOf[HostOf[c]]][r].inflight

\* Whatever the clocks show, a project and an account are never admitted faster
\* than by one full bucket and the refill of the time since.
WithinRate ==
    \A r \in Records \ {Fleet} :
      LET admitted == {c \in granted : r \in KeysOf(c)} IN
      Unit * Cardinality(admitted) <= MaxCapacity + MaxRefill * (now + Skew - record[r].created)

\* A process counts exactly the calls it has, up to its limit, and its gate is
\* held by the one call that passed it and is not past its admission.
CountsItsCalls ==
    \A h \in Hosts :
      /\ active[h] = Cardinality({c \in Calls : HostOf[c] = h /\ call[c].pc \in Holding})
      /\ active[h] <= LocalMax
      /\ \A c \in Calls : HostOf[c] = h => (call[c].pc \in AtGate <=> gate[h] = c)

\* A call that no fault has hit leaves nothing behind.
LeavesNothing ==
    \A c \in Calls : call[c].pc = "done" /\ c \notin unlucky =>
      /\ c \notin flying \cup leaving
      /\ \A r \in Records : record[r].expires[c] = 0

\* What a fault leaves behind is gone a lease's time later: no record's clock
\* runs away from the real one.
LeasesEnd ==
    \A r \in Records, c \in Calls : record[r].expires[c] <= now + Skew + LeaseTime
=============================================================================
