---------------------------- MODULE PipelineQuota ----------------------------
(***************************************************************************)
(* Pipeline admission of one project as deployed on Cloud Run: the quota   *)
(* document with its run slot (internal/firestore/quota.go), the           *)
(* reservations of manual intents, admin triggers and scheduled sweeps,    *)
(* the profile runtime's `pipeline` work, the callers that cross the       *)
(* provider boundary, and the reconciler every BFF instance runs           *)
(* (handler/v1/pipeline_quota_reconciler.go).                              *)
(*                                                                         *)
(* Each Firestore transaction is one step.  Between a caller's steps, and  *)
(* between a reconciler's reading and its writing, anything may happen; a  *)
(* caller may crash at any of them, a write may be refused for good, the   *)
(* provider's answer may be lost and its acceptance may come late.         *)
(*                                                                         *)
(* A scheduled reservation is named by its day and is reused after a       *)
(* release; every sweep has an attempt id of its own.                      *)
(***************************************************************************)
EXTENDS Integers, Sequences, FiniteSets, FiniteSetsExt

CONSTANTS
    Manual,       \* reservation ids of manual runs and of retries
    Admin,        \* reservation ids of admin triggers
    Attempts,     \* attempt ids of scheduled sweeps
    Dispatchers,  \* instances working on the durable queue
    Reconcilers,  \* instances reconciling reservations
    TicksPerDay, Horizon,   \* a UTC day, and the bound of the clock
    Cooldown, DailyLimit,   \* the limits of a user
    None, NoAttempt

Days    == 0 .. (Horizon \div TicksPerDay)
Ids     == Manual \cup Admin \cup Days
Callers == Manual \cup Admin \cup Attempts \cup Dispatchers

IntentStatuses == {"preparing", "ready", "invoking", "invocation_unknown",
                   "compiling", "succeeded", "failed", "cancelled"}

ASSUME QuotaAssumption ==
    /\ TicksPerDay \in Nat \ {0} /\ Horizon \in Nat
    /\ Cooldown \in Nat \ {0} /\ DailyLimit \in Nat \ {0}
    /\ \A S \in {Manual, Admin, Attempts, Dispatchers} :
         IsFiniteSet(S) /\ S \cap Days = {} /\ None \notin S /\ NoAttempt \notin S
    /\ Manual \cap Admin = {} /\ Attempts \cap (Manual \cup Admin) = {}
    /\ Dispatchers \cap (Manual \cup Admin \cup Attempts) = {}
    /\ None \notin Int /\ NoAttempt \notin Int /\ None # NoAttempt
    /\ None \notin IntentStatuses

VARIABLES
    now,     \* the clock
    quota,   \* the project's quota document
    res,     \* the reservations
    used,    \* pipeline_scheduled_daily: whether the day's entitlement is used
    marker,  \* the attempt a reservation's failure marker names
    work,    \* the queue's `pipeline` work of an intent
    call,    \* what each request, sweep or dispatcher is doing
    sent,    \* invocations the provider has not decided yet
    execs,   \* the provider's executions, in order
    rec      \* what each reconciler has read

vars == <<now, quota, res, used, marker, work, call, sent, execs, rec>>

Day(t) == t \div TicksPerDay
Times  == 0 .. Horizon

ExecStatuses == {"running", "succeeded", "failed", "cancelled", "cleanup_failed"}
Settled      == {"charged", "refunded", "not_applicable", "released"}

QuotaDocument == [active : Ids \cup {None}, day : Days \cup {None}, runs : Nat,
                  last : Times \cup {None}]
ReservationDocument ==
    [settle : {"none", "pending"} \cup Settled, attempt : Ids \cup Attempts \cup {NoAttempt},
     intent : IntentStatuses \cup {None}, exec : Nat \cup {None},
     at : Times, prev : Times \cup {None}]
CallState ==
    [pc : {"new", "asked", "reserved", "prepare", "begin", "invoke", "waiting", "accepted",
           "rejected", "mark", "unknown", "finish", "done"},
     res : Ids \cup {None}, at : Times, exec : Nat]
Execution == [res : Ids, status : ExecStatuses]
RecState ==
    [pc : {"idle", "look", "release", "link", "settle"}, res : Ids \cup {None},
     attempt : Ids \cup Attempts \cup {NoAttempt}, intent : IntentStatuses \cup {None},
     exec : Nat \cup {None}, status : ExecStatuses]

TypeOK ==
    /\ now \in Times
    /\ quota \in QuotaDocument
    /\ res \in [Ids -> ReservationDocument]
    /\ used \in [Days -> BOOLEAN]
    /\ marker \in [Ids -> {None} \cup Manual \cup Attempts]
    /\ work \in [Manual -> [pending : BOOLEAN, holder : Dispatchers \cup {None}]]
    /\ call \in [Callers -> CallState]
    /\ sent \subseteq Ids
    /\ execs \in Seq(Execution)
    /\ rec \in [Reconcilers -> RecState]

NoReservation == [settle |-> "none", attempt |-> NoAttempt, intent |-> None,
                  exec |-> None, at |-> 0, prev |-> None]
NewCall == [pc |-> "new", res |-> None, at |-> 0, exec |-> 0]
Gone    == [NewCall EXCEPT !.pc = "done"]
IdleRec == [pc |-> "idle", res |-> None, attempt |-> NoAttempt, intent |-> None,
            exec |-> None, status |-> "running"]

Init ==
    /\ now = 0
    /\ quota = [active |-> None, day |-> None, runs |-> 0, last |-> None]
    /\ res = [r \in Ids |-> NoReservation]
    /\ used = [d \in Days |-> FALSE]
    /\ marker = [r \in Ids |-> None]
    /\ work = [r \in Manual |-> [pending |-> FALSE, holder |-> None]]
    /\ call = [c \in Callers |-> NewCall]
    /\ sent = {}
    /\ execs = <<>>
    /\ rec = [k \in Reconcilers |-> IdleRec]

-----------------------------------------------------------------------------
(* Transactions on the quota document and a reservation.                   *)

RunsOn(t)      == IF quota.day = Day(t) THEN quota.runs ELSE 0

CoolingDown(t) == quota.last # None /\ t < quota.last + Cooldown

Reservation(r, t, attempt, intent) ==
    [settle |-> "pending", attempt |-> attempt, intent |-> intent, exec |-> None,
     at |-> t, prev |-> quota.last]

\* A manual run is admitted; its intent needs guidance prepared or is ready.
ReserveManual(r, intent) ==
    /\ quota.active = None
    /\ RunsOn(now) < DailyLimit
    /\ ~CoolingDown(now)
    /\ res[r].settle = "none"
    /\ quota' = [active |-> r, day |-> Day(now), runs |-> RunsOn(now) + 1, last |-> now]
    /\ res' = [res EXCEPT ![r] = Reservation(r, now, r, intent)]

\* (bug) the clock is not given back.
RefundRunOnly(r) ==
    [quota EXCEPT
       !.active = IF @ = r THEN None ELSE @,
       !.runs = IF r \in Manual /\ quota.day = Day(res[r].at) /\ @ > 0 THEN @ - 1 ELSE @]

\* The project's slot and clock once r gives back what it took.
Refund(r) ==
    [quota EXCEPT
       !.active = IF @ = r THEN None ELSE @,
       !.runs = IF r \in Manual /\ quota.day = Day(res[r].at) /\ @ > 0 THEN @ - 1 ELSE @,
       !.last = IF r \notin Admin /\ @ = res[r].at THEN res[r].prev ELSE @]

\* (bug) a charged run keeps the slot.
VacateNot(r) == quota

Vacate(r) == [quota EXCEPT !.active = IF @ = r THEN None ELSE @]

Uninvoked(r) == res[r].settle = "pending" /\ res[r].exec = None

\* Releases a reservation that is known not to have been invoked.
Release(r) ==
    /\ Uninvoked(r)
    /\ quota' = Refund(r)
    /\ used' = IF r \in Days THEN [used EXCEPT ![r] = FALSE] ELSE used
    /\ res' = [res EXCEPT ![r].settle = "released",
                          ![r].intent = IF r \in Manual THEN "failed" ELSE @]

\* (bug) whatever attempt holds the reservation is released.
ReleaseAnyAttempt(r, attempt) == Release(r)

\* Only the attempt the caller knows of is released.
ReleaseAttempt(r, attempt) ==
    IF res[r].attempt = attempt THEN Release(r) ELSE UNCHANGED <<quota, used, res>>

\* An intent is failed only from the status the caller read.
Fail(r, expected) ==
    IF res[r].intent = "failed" /\ res[r].settle = "released"
    THEN UNCHANGED <<quota, used, res>>
    ELSE res[r].intent = expected /\ Release(r)

LinkAllowed(r, e) == res[r].settle # "released" /\ res[r].exec \in {None, e}

Link(r, e) ==
    /\ LinkAllowed(r, e)
    /\ res' = [res EXCEPT
                 ![r].exec = e,
                 ![r].intent = IF @ \in {None, "failed", "succeeded"} THEN @ ELSE "compiling"]

\* (bug) a failed execution is a failed run, published or not.
OutcomeOfExecution(status) == IF status = "cleanup_failed" THEN "failed" ELSE status

Outcome(status) ==
    CASE status = "cleanup_failed" -> "succeeded"   \* a published run is a success
      [] OTHER -> status

\* Applies a terminal result; a second settlement changes nothing.
Settle(r, outcome) ==
    IF res[r].settle # "pending" THEN UNCHANGED <<quota, res, used>>
    ELSE LET refunded == outcome = "failed" /\ r \in Manual
         IN  /\ quota' = IF refunded THEN Refund(r) ELSE Vacate(r)
             /\ res' = [res EXCEPT
                          ![r].settle = IF r \in Admin THEN "not_applicable"
                                        ELSE IF refunded THEN "refunded" ELSE "charged",
                          ![r].intent = IF @ = None THEN None ELSE outcome]
             /\ used' = IF r \in Days THEN [used EXCEPT ![r] = TRUE] ELSE used

\* (bug) only ready intents are queued.
WithReadyWork(r) ==
    IF Uninvoked(r) /\ res[r].intent = "ready" /\ ~work[r].pending
    THEN [work EXCEPT ![r] = [pending |-> TRUE, holder |-> None]]
    ELSE work

\* Work for an intent that has not been invoked, unless it is queued already.
WithWork(r) ==
    IF Uninvoked(r) /\ res[r].intent \in {"preparing", "ready"} /\ ~work[r].pending
    THEN [work EXCEPT ![r] = [pending |-> TRUE, holder |-> None]]
    ELSE work

-----------------------------------------------------------------------------
(* Callers: admission.                                                     *)

At(c, pc) == call[c].pc = pc
Res(c)    == call[c].res
After(c)  == IF c \in Dispatchers THEN "finish" ELSE "done"
Goto(c, pc) ==
    call' = [call EXCEPT ![c] = IF pc = "done" THEN Gone ELSE [@ EXCEPT !.pc = pc]]

\* A manual run, and the retry of a failed one, which is a run of its own.
Run(r) ==
    /\ At(r, "new")
    /\ \E intent \in {"preparing", "ready"} : ReserveManual(r, intent)
    /\ call' = [call EXCEPT ![r].pc = "reserved", ![r].res = r]
    /\ UNCHANGED <<now, used, marker, work, sent, execs, rec>>

Retry(r, failed) ==
    /\ res[failed].intent = "failed"
    /\ res[failed].settle # "pending"
    /\ Run(r)

\* The request queues the work, or fails to, and starts a ready intent itself.
Continue(r) ==
    /\ At(r, "reserved")
    /\ work' \in {WithWork(r), work}
    /\ Goto(r, IF res[r].intent = "ready" THEN "begin" ELSE "done")
    /\ UNCHANGED <<now, quota, res, used, marker, sent, execs, rec>>

Trigger(a) ==
    /\ At(a, "new")
    /\ quota.active = None
    /\ res[a].settle = "none"
    /\ quota' = [quota EXCEPT !.active = a]
    /\ res' = [res EXCEPT ![a] = Reservation(a, now, NoAttempt, None)]
    /\ call' = [call EXCEPT ![a].pc = "invoke", ![a].res = a]
    /\ UNCHANGED <<now, used, marker, work, sent, execs, rec>>

\* A sweep reads the clock once, however late it comes to the project.
SweepStart(s) ==
    /\ At(s, "new")
    /\ call' = [call EXCEPT ![s].pc = "asked", ![s].at = now, ![s].res = Day(now)]
    /\ UNCHANGED <<now, quota, res, used, marker, work, sent, execs, rec>>

SweepReserve(s) ==
    LET d == Res(s)
        t == call[s].at
    IN  /\ At(s, "asked")
        /\ quota.active = None
        /\ ~used[d]
        /\ ~CoolingDown(t)
        /\ quota' = [quota EXCEPT !.active = d, !.last = t]
        /\ res' = [res EXCEPT ![d] = Reservation(d, t, s, None)]
        /\ used' = [used EXCEPT ![d] = TRUE]
        /\ call' = [call EXCEPT ![s].pc = "invoke", ![s].at = 0]
        /\ UNCHANGED <<now, marker, work, sent, execs, rec>>

-----------------------------------------------------------------------------
(* Callers: the queue's dispatcher.  A lease may run out under a slow one, *)
(* so that another claims its work.                                        *)

Claim(d, r) ==
    /\ At(d, "new")
    /\ work[r].pending
    /\ work' = [work EXCEPT ![r].holder = d]
    /\ call' = [call EXCEPT ![d].res = r,
                            ![d].pc = CASE res[r].intent = "preparing" -> "prepare"
                                        [] res[r].intent = "ready" -> "begin"
                                        [] OTHER -> "finish"]
    /\ UNCHANGED <<now, quota, res, used, marker, sent, execs, rec>>

Prepared(d) ==
    LET r == Res(d)
        completes == Uninvoked(r) /\ res[r].intent = "preparing"
    IN  /\ At(d, "prepare")
        /\ res' = IF completes THEN [res EXCEPT ![r].intent = "ready"] ELSE res
        /\ Goto(d, IF completes \/ res[r].intent = "ready" THEN "begin" ELSE "finish")
        /\ UNCHANGED <<now, quota, used, marker, work, sent, execs, rec>>

PreparationFails(d) ==
    /\ At(d, "prepare")
    /\ Fail(Res(d), "preparing")
    /\ Goto(d, "finish")
    /\ UNCHANGED <<now, marker, work, sent, execs, rec>>

Finish(d) ==
    LET r == Res(d)
    IN  /\ At(d, "finish")
        /\ work' = IF work[r].holder = d
                   THEN [work EXCEPT ![r] = [pending |-> FALSE, holder |-> None]]
                   ELSE work
        /\ call' = [call EXCEPT ![d] = NewCall]
        /\ UNCHANGED <<now, quota, res, used, marker, sent, execs, rec>>

\* The work's attempts are used up: an intent that may have been invoked
\* keeps its slot.
Exhaust(r) ==
    /\ work[r].pending
    /\ work' = [work EXCEPT ![r] = [pending |-> FALSE, holder |-> None]]
    /\ CASE res[r].intent \in {"preparing", "ready"} -> Fail(r, res[r].intent)
         [] res[r].intent = "invoking" ->
              /\ res' = [res EXCEPT ![r].intent = "invocation_unknown"]
              /\ UNCHANGED <<quota, used>>
         [] OTHER -> UNCHANGED <<quota, used, res>>
    /\ UNCHANGED <<now, marker, call, sent, execs, rec>>

-----------------------------------------------------------------------------
(* Callers: the provider boundary.                                         *)

\* (bug) an intent that is being invoked is continued as well.
BeginsAgain(r) ==
    res[r].intent \in {"ready", "invoking"} /\ Uninvoked(r) /\ quota.active = r

\* Only one continuation of an intent crosses the boundary.
Begins(r) == res[r].intent = "ready" /\ Uninvoked(r) /\ quota.active = r

Begin(c) ==
    LET r == Res(c)
    IN  /\ At(c, "begin")
        /\ res' = IF Begins(r) THEN [res EXCEPT ![r].intent = "invoking"] ELSE res
        /\ Goto(c, IF Begins(r) THEN "invoke" ELSE After(c))
        /\ UNCHANGED <<now, quota, used, marker, work, sent, execs, rec>>

Invoke(c) ==
    /\ At(c, "invoke")
    /\ sent' = sent \cup {Res(c)}
    /\ Goto(c, "waiting")
    /\ UNCHANGED <<now, quota, res, used, marker, work, execs, rec>>

\* Nothing was started: refused before the call, or by the provider for good.
Refused(c) ==
    /\ At(c, "invoke")
    /\ Goto(c, "rejected")
    /\ UNCHANGED <<now, quota, res, used, marker, work, sent, execs, rec>>

Accept(r) ==
    /\ r \in sent
    /\ sent' = sent \ {r}
    /\ execs' = Append(execs, [res |-> r, status |-> "running"])
    /\ UNCHANGED <<now, quota, res, used, marker, work, call, rec>>

Lose(r) ==
    /\ r \in sent
    /\ sent' = sent \ {r}
    /\ UNCHANGED <<now, quota, res, used, marker, work, call, execs, rec>>

Answer(c) ==
    /\ At(c, "waiting")
    /\ \E e \in DOMAIN execs :
         /\ execs[e].res = Res(c)
         /\ call' = [call EXCEPT ![c].pc = "accepted", ![c].exec = e]
    /\ UNCHANGED <<now, quota, res, used, marker, work, sent, execs, rec>>

\* An intent of unknown outcome is marked; the others only keep their slot.
Unsure(c) == IF Res(c) \in Manual THEN "unknown" ELSE "done"

NoAnswer(c) ==
    /\ At(c, "waiting")
    /\ Goto(c, Unsure(c))
    /\ UNCHANGED <<now, quota, res, used, marker, work, sent, execs, rec>>

Accepted(c) ==
    /\ At(c, "accepted")
    /\ Link(Res(c), call[c].exec)
    /\ Goto(c, After(c))
    /\ UNCHANGED <<now, quota, used, marker, work, sent, execs, rec>>

LinkFails(c) ==
    /\ At(c, "accepted")
    /\ Goto(c, Unsure(c))
    /\ UNCHANGED <<now, quota, res, used, marker, work, sent, execs, rec>>

\* A release that fails is left to the reconciler: an admin trigger's without
\* a marker.
Unreleased(c) == IF Res(c) \in Admin THEN "done" ELSE "mark"

\* The release commits; its answer may be lost.
Rejected(c) ==
    LET r == Res(c)
    IN  /\ At(c, "rejected")
        /\ CASE r \in Manual -> Fail(r, "invoking")
             [] r \in Admin -> Release(r)
             [] r \in Days -> ReleaseAttempt(r, c)
        /\ \E pc \in {After(c), Unreleased(c)} : Goto(c, pc)
        /\ UNCHANGED <<now, marker, work, sent, execs, rec>>

ReleaseFails(c) ==
    /\ At(c, "rejected")
    /\ Goto(c, Unreleased(c))
    /\ UNCHANGED <<now, quota, res, used, marker, work, sent, execs, rec>>

Mark(c) ==
    LET r == Res(c)
    IN  /\ At(c, "mark")
        /\ marker' = [marker EXCEPT ![r] = IF r \in Days THEN c ELSE r]
        /\ Goto(c, Unsure(c))
        /\ UNCHANGED <<now, quota, res, used, work, sent, execs, rec>>

Unknown(c) ==
    LET r == Res(c)
    IN  /\ At(c, "unknown")
        /\ res' = IF res[r].intent = "invoking"
                  THEN [res EXCEPT ![r].intent = "invocation_unknown"] ELSE res
        /\ Goto(c, After(c))
        /\ UNCHANGED <<now, quota, used, marker, work, sent, execs, rec>>

Crash(c) ==
    /\ call[c].pc \notin {"new", "done"}
    /\ call' = [call EXCEPT ![c] = IF c \in Dispatchers THEN NewCall ELSE Gone]
    /\ UNCHANGED <<now, quota, res, used, marker, work, sent, execs, rec>>

-----------------------------------------------------------------------------
(* The provider and the reconciler.                                        *)

End(e, status) ==
    /\ execs[e].status = "running"
    /\ execs' = [execs EXCEPT ![e].status = status]
    /\ UNCHANGED <<now, quota, res, used, marker, work, call, sent, rec>>

RecRead(k, r) ==
    /\ rec[k].pc = "idle"
    /\ res[r].settle = "pending"
    /\ work' = IF r \in Manual THEN WithWork(r) ELSE work
    /\ rec' = [rec EXCEPT ![k] = [IdleRec EXCEPT
                 !.pc = "look", !.res = r, !.attempt = res[r].attempt,
                 !.intent = res[r].intent, !.exec = res[r].exec]]
    /\ UNCHANGED <<now, quota, res, used, marker, call, sent, execs>>

\* (bug) the marker of any attempt confirms.
ConfirmsAny(k) == marker[rec[k].res] # None

\* Whether the failure marker names what the reconciler has read.
Confirms(k) ==
    marker[rec[k].res] = IF rec[k].res \in Days THEN rec[k].attempt ELSE NoAttempt

RecConfirmed(k) ==
    /\ rec[k].pc = "look"
    /\ rec[k].exec = None
    /\ Confirms(k)
    /\ rec' = [rec EXCEPT ![k].pc = "release"]
    /\ UNCHANGED <<now, quota, res, used, marker, work, call, sent, execs>>

\* (bug) only executions that were linked are looked up.
RecFetchLinked(k, e) ==
    /\ rec[k].pc = "look"
    /\ execs[e].res = rec[k].res
    /\ rec[k].exec = e
    /\ rec' = [rec EXCEPT ![k].status = execs[e].status, ![k].pc = "settle"]
    /\ UNCHANGED <<now, quota, res, used, marker, work, call, sent, execs>>

RecFetch(k, e) ==
    /\ rec[k].pc = "look"
    /\ execs[e].res = rec[k].res
    /\ IF rec[k].exec = None THEN ~Confirms(k) ELSE rec[k].exec = e
    /\ rec' = [rec EXCEPT ![k].exec = e, ![k].status = execs[e].status,
                          ![k].pc = IF rec[k].exec = None THEN "link" ELSE "settle"]
    /\ UNCHANGED <<now, quota, res, used, marker, work, call, sent, execs>>

RecRelease(k) ==
    LET r == rec[k].res
    IN  /\ rec[k].pc = "release"
        /\ CASE r \in Manual -> Fail(r, rec[k].intent)
             [] r \in Admin -> Release(r)
             [] r \in Days -> ReleaseAttempt(r, rec[k].attempt)
        /\ rec' = [rec EXCEPT ![k] = IdleRec]
        /\ UNCHANGED <<now, marker, work, call, sent, execs>>

RecLink(k) ==
    /\ rec[k].pc = "link"
    /\ Link(rec[k].res, rec[k].exec)
    /\ rec' = [rec EXCEPT ![k].pc = "settle"]
    /\ UNCHANGED <<now, quota, used, marker, work, call, sent, execs>>

RecSettle(k) ==
    /\ rec[k].pc = "settle"
    /\ rec[k].status # "running"
    /\ Settle(rec[k].res, Outcome(rec[k].status))
    /\ rec' = [rec EXCEPT ![k] = IdleRec]
    /\ UNCHANGED <<now, marker, work, call, sent, execs>>

\* Nothing found, not yet ended, publication unknown, an error, or a crash.
RecDrop(k) ==
    /\ rec[k].pc # "idle"
    /\ rec' = [rec EXCEPT ![k] = IdleRec]
    /\ UNCHANGED <<now, quota, res, used, marker, work, call, sent, execs>>

Tick ==
    /\ now < Horizon
    /\ now' = now + 1
    /\ UNCHANGED <<quota, res, used, marker, work, call, sent, execs, rec>>

-----------------------------------------------------------------------------
CallerNext(c) ==
    \/ Begin(c) \/ Invoke(c) \/ Refused(c) \/ Answer(c) \/ NoAnswer(c)
    \/ Accepted(c) \/ LinkFails(c) \/ Rejected(c) \/ ReleaseFails(c)
    \/ Mark(c) \/ Unknown(c) \/ Crash(c)

DispatcherNext(d) ==
    \/ \E r \in Manual : Claim(d, r)
    \/ Prepared(d) \/ PreparationFails(d) \/ Finish(d)

RecNext(k) ==
    \/ \E r \in Ids : RecRead(k, r)
    \/ RecConfirmed(k)
    \/ \E e \in DOMAIN execs : RecFetch(k, e)
    \/ RecRelease(k) \/ RecLink(k) \/ RecSettle(k) \/ RecDrop(k)

Next ==
    \/ \E r \in Manual : Run(r) \/ Continue(r) \/ Exhaust(r)
    \/ \E r, failed \in Manual : Retry(r, failed)
    \/ \E a \in Admin : Trigger(a)
    \/ \E s \in Attempts : SweepStart(s) \/ SweepReserve(s)
    \/ \E d \in Dispatchers : DispatcherNext(d)
    \/ \E c \in Callers : CallerNext(c)
    \/ \E r \in sent : Accept(r) \/ Lose(r)
    \/ \E e \in DOMAIN execs, status \in ExecStatuses \ {"running"} : End(e, status)
    \/ \E k \in Reconcilers : RecNext(k)
    \/ Tick

Spec == Init /\ [][Next]_vars

\* Every instance's reconciler runs on a ticker and reads what it needs in the
\* end; the queue is worked on, and not every dispatcher crashes; the provider
\* ends what it started.  Nobody has to ask for a run, and a call may be lost.
Fairness ==
    /\ \A k \in Reconcilers :
         /\ WF_vars(\E r \in Ids : RecRead(k, r))
         /\ SF_vars(\E e \in DOMAIN execs : RecFetch(k, e))
         /\ SF_vars(RecConfirmed(k)) /\ SF_vars(RecRelease(k))
         /\ SF_vars(RecLink(k)) /\ SF_vars(RecSettle(k)) /\ WF_vars(RecDrop(k))
    /\ \A d \in Dispatchers :
         /\ SF_vars(\E r \in Manual : Claim(d, r))
         /\ SF_vars(Prepared(d)) /\ SF_vars(Begin(d)) /\ SF_vars(Finish(d))
    /\ \A c \in Callers : WF_vars(CallerNext(c))

FairSpec == Spec /\ Fairness

-----------------------------------------------------------------------------
ExecsOf(r)  == {e \in DOMAIN execs : execs[e].res = r}
Counted     == {r \in Manual \cup Days : res[r].settle \in {"pending", "charged"}}
CountedAt   == {res[r].at : r \in Counted}

\* The slot is held by the one reservation that is not settled, and by nobody
\* when there is none: a project is neither admitted twice nor left occupied
\* by a reservation that no one will settle.
SlotIsPending ==
    {r \in Ids : res[r].settle = "pending"} = {quota.active} \ {None}

\* An execution that runs, or that the provider may still start, has its
\* reservation unsettled and in the slot: two runs of a project never overlap,
\* however late an acceptance comes and whoever released what in the meantime.
RunsHoldSlot ==
    /\ \A e \in DOMAIN execs : execs[e].status = "running" => quota.active = execs[e].res
    /\ sent \subseteq {quota.active}

\* A reservation is invoked at most once: an intent whichever of its request
\* and its dispatchers continues it, a scheduled day in all of its attempts.
InvokedOnce == \A r \in Ids : Cardinality(ExecsOf(r)) + Cardinality(sent \cap {r}) <= 1

\* The quota document is what the reservations add up to: the runs of its day,
\* and the time of the newest run that counts, refunds in any order included.
BudgetIsExact ==
    /\ quota.runs = Cardinality({r \in Counted \cap Manual : Day(res[r].at) = quota.day})
    /\ quota.last = IF Counted = {} THEN None ELSE Max(CountedAt)

\* What was refunded or released did not run, or failed before it published;
\* what was charged ran to its end.
ChargeIsDeserved ==
    /\ \A r \in Manual : res[r].settle \in {"refunded", "released"} =>
         \A e \in ExecsOf(r) : execs[e].status = "failed"
    /\ \A r \in Manual : res[r].settle = "charged" =>
         \E e \in ExecsOf(r) : execs[e].status \in {"succeeded", "cancelled", "cleanup_failed"}
    /\ \A r \in Days : res[r].settle = "released" => ExecsOf(r) = {}

\* The slot as callers, sweeps, dispatchers and the reconciler share it is the
\* abstract one: a reservation takes it, its execution starts at most once
\* while it is held, and only when nothing runs is it given back.
Slot == INSTANCE RunSlot WITH
            Runs    <- Ids,
            Nobody  <- None,
            holder  <- quota.active,
            spent   <- quota.active # None /\ ExecsOf(quota.active) # {},
            running <- {execs[e].res : e \in {e \in DOMAIN execs : execs[e].status = "running"}}

ImplementsRunSlot == Slot!SlotSpec

\* A run that ended is settled in the end, even if the caller that started it
\* crashed before it recorded the execution.
EndedRunSettles ==
    \A r \in Ids :
      (\E e \in ExecsOf(r) : execs[e].status # "running") ~> res[r].settle # "pending"

\* An accepted intent is started or failed in the end, even if its request
\* crashed before it queued the work, or the work was given up.
IntentIsTaken ==
    \A r \in Manual :
      res[r].intent \in {"preparing", "ready"} ~> res[r].intent \notin {"preparing", "ready"}

\* A start that is known to have failed, and whose marker is stored, gives the
\* slot back in the end.
MarkedIsReleased ==
    \A r \in Ids :
      (marker[r] # None /\ marker[r] = res[r].attempt /\ res[r].settle = "pending")
        ~> res[r].settle # "pending"
=============================================================================
