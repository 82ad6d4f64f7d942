------------------------------ MODULE ExportJob ------------------------------
(***************************************************************************)
(* Project export jobs (apps/bff/internal/exportjob and                    *)
(* cmd/export_worker).                                                     *)
(*                                                                         *)
(* One project of one user.  The API admits at most one export at a time   *)
(* and at most one successful export per Cooldown, starts a Cloud Run      *)
(* execution for it, and a worker claims the job, writes a temporary       *)
(* archive, promotes it to the ready prefix and completes the job.  The    *)
(* state lives in Firestore documents (one per job, one per project) and   *)
(* in a bucket whose lifecycle rules delete old objects.  Requests, worker *)
(* executions and the platform run concurrently; any of them may crash,    *)
(* and any call may fail before or after it took effect.                   *)
(*                                                                         *)
(* Each Firestore transaction is one action.  Time is the integer clock    *)
(* `now`; deadlines are compared as the code compares them: a deadline d   *)
(* is still open iff d > now.                                              *)
(***************************************************************************)
EXTENDS Integers

CONSTANTS
    Jobs,           \* export job ids; newExportID is a fresh one
    Workers,        \* Cloud Run executions that can be alive at once
    Keys,           \* Idempotency-Key header values
    NoJob, NoKey,   \* "no such field" and "no such header"
    Cooldown,       \* 24 h between a success and the next admission
    JobDeadline,    \* 23 h from admission to the job's deadline
    HardTimeout,    \* 22 h a worker may work
    Retention,      \* 72 h an archive can be downloaded
    TmpRetention,   \* 24 h after which the bucket drops a temporary object
    MaxRuns,        \* executions the platform may begin for one start
    MaxAdmit,       \* bound: no export is admitted after this time
    MaxClock        \* bound: the clock stops here

ASSUME ConstantsAssumption ==
    /\ NoJob \notin Jobs
    /\ NoKey \notin Keys
    /\ Cooldown \in Nat /\ JobDeadline \in Nat /\ HardTimeout \in Nat
    /\ Retention \in Nat /\ TmpRetention \in Nat
    /\ MaxRuns \in Nat /\ MaxAdmit \in Nat /\ MaxClock \in Nat
    /\ 0 < HardTimeout /\ HardTimeout < JobDeadline
    /\ JobDeadline < Cooldown /\ Cooldown < Retention
    /\ HardTimeout < TmpRetention

VARIABLES
    now,
    \* job documents
    status, deadline, completed,
    \* the project's export state document
    active, latest, current, previous, lastSuccess,
    \* idempotency documents, and (history) the key each job was created with
    idem, keyOf,
    \* the Create request that admitted a job, and the executions it started
    api, runs,
    \* the worker executions
    wpc, wjob, wuntil, wstamp,
    \* the bucket: creation time of the temporary object an execution works
    \* on (a left-over one is never read), Custom-Time of the ready objects
    wtmp, ready

jobVars   == <<status, deadline, completed>>
stateVars == <<active, latest, current, previous, lastSuccess>>
idemVars  == <<idem, keyOf>>
apiVars   == <<api, runs>>
wkVars    == <<wpc, wjob, wuntil, wstamp, wtmp>>
vars == <<now, jobVars, stateVars, idemVars, apiVars, wkVars, ready>>

-----------------------------------------------------------------------------
NoTime   == -1
Live     == {"queued", "running"}
Terminal == {"ready", "failed"}
Statuses == {"none"} \cup Live \cup Terminal
Working  == {"claimed", "written", "stamped", "copied"}

TypeOK ==
    /\ now \in 0..MaxClock
    /\ status \in [Jobs -> Statuses]
    /\ deadline \in [Jobs -> Nat]
    /\ completed \in [Jobs -> Nat \cup {NoTime}]
    /\ active \in Jobs \cup {NoJob} /\ latest \in Jobs \cup {NoJob}
    /\ current \in Jobs \cup {NoJob} /\ previous \in Jobs \cup {NoJob}
    /\ lastSuccess \in Nat \cup {NoTime}
    /\ idem \in [Keys -> Jobs \cup {NoJob}]
    /\ keyOf \in [Jobs -> Keys \cup {NoKey}]
    /\ api \in [Jobs -> {"idle", "admitted", "start_failed"}]
    /\ runs \in [Jobs -> 0..MaxRuns]
    /\ wpc \in [Workers -> {"idle", "failing"} \cup Working]
    /\ wjob \in [Workers -> Jobs \cup {NoJob}]
    /\ wuntil \in [Workers -> Nat]
    /\ wstamp \in [Workers -> Nat \cup {NoTime}]
    /\ wtmp \in [Workers -> Nat \cup {NoTime}]
    /\ ready \in [Jobs -> Nat \cup {NoTime}]

Init ==
    /\ now = 0
    /\ status = [j \in Jobs |-> "none"]
    /\ deadline = [j \in Jobs |-> 0]
    /\ completed = [j \in Jobs |-> NoTime]
    /\ active = NoJob /\ latest = NoJob
    /\ current = NoJob /\ previous = NoJob
    /\ lastSuccess = NoTime
    /\ idem = [k \in Keys |-> NoJob]
    /\ keyOf = [j \in Jobs |-> NoKey]
    /\ api = [j \in Jobs |-> "idle"]
    /\ runs = [j \in Jobs |-> 0]
    /\ wpc = [w \in Workers |-> "idle"]
    /\ wjob = [w \in Workers |-> NoJob]
    /\ wuntil = [w \in Workers |-> 0]
    /\ wstamp = [w \in Workers |-> NoTime]
    /\ wtmp = [w \in Workers |-> NoTime]
    /\ ready = [j \in Jobs |-> NoTime]

-----------------------------------------------------------------------------
(* Decisions shared by the handlers.                                       *)

Overdue(j) == deadline[j] <= now

CoolingDown == lastSuccess # NoTime /\ lastSuccess + Cooldown > now

\* AdmissionAllowed: why a new export would be refused at this moment.
InProgress == active # NoJob /\ status[active] \in Live /\ ~Overdue(active)

Admissible == ~InProgress /\ ~CoolingDown

\* (bug) an overdue job is reported as stored.
PublicStatusStored(j) ==
    IF status[j] = "ready" /\ ready[j] # NoTime /\ ready[j] + Retention <= now
    THEN "expired" ELSE status[j]

\* What the API reports of a job's stored state: an overdue job has failed
\* and an archive past its retention has expired.
PublicStatus(j) ==
    IF status[j] \in Live /\ Overdue(j) THEN "failed"
    ELSE IF status[j] = "ready" /\ ready[j] # NoTime
            /\ ready[j] + Retention <= now THEN "expired"
    ELSE status[j]

\* The eligibility that GET /exports computes from the state document and
\* the latest job, without looking at the active job itself.
ListedActive ==
    active # NoJob /\ (latest # NoJob => PublicStatus(latest) \in Live)

ListedEligible == ~ListedActive /\ ~CoolingDown

\* publicArchive: an archive GET /exports may show.
Shown(j) ==
    /\ j # NoJob
    /\ status[j] = "ready"
    /\ ready[j] # NoTime
    /\ ready[j] + Retention > now

ListedCurrent ==
    IF Shown(current) THEN current
    ELSE IF Shown(previous) THEN previous ELSE NoJob

ListedPrevious ==
    IF Shown(current) /\ Shown(previous) THEN previous ELSE NoJob

-----------------------------------------------------------------------------
(* The Create request.                                                     *)

\* A replayed key returns the export it was used for and changes nothing.
FreshKey(k) == k # NoKey => idem[k] = NoJob

\* (bug) the replaced job is left as it is.
NotTimedOut == status

TimedOut == [i \in Jobs |-> IF i = active /\ status[i] \in Live
                            THEN "failed" ELSE status[i]]

\* Admit, with a fresh key or none.  An overdue active job is timed out even when the cooldown
\* then denies the new one, and the state document is left as it was.
Admit(j, k) ==
    /\ status[j] = "none"
    /\ now <= MaxAdmit
    /\ FreshKey(k)
    /\ ~InProgress
    /\ IF CoolingDown
       THEN /\ status' = TimedOut
            /\ UNCHANGED <<deadline, active, latest, idemVars, api>>
       ELSE /\ status' = [TimedOut EXCEPT ![j] = "queued"]
            /\ deadline' = [deadline EXCEPT ![j] = now + JobDeadline]
            /\ active' = j
            /\ latest' = j
            /\ idem' = IF k = NoKey THEN idem ELSE [idem EXCEPT ![k] = j]
            /\ keyOf' = [keyOf EXCEPT ![j] = k]
            /\ api' = [api EXCEPT ![j] = "admitted"]
    /\ UNCHANGED <<now, completed, current, previous, lastSuccess, runs,
                   wkVars, ready>>

\* Starter.Start answers: the platform may have accepted the execution
\* whatever the request handler is told.
Start(j, launched, ok) ==
    /\ api[j] = "admitted"
    /\ ok => launched
    /\ api' = [api EXCEPT ![j] = IF ok THEN "idle" ELSE "start_failed"]
    /\ runs' = [runs EXCEPT ![j] = IF launched THEN MaxRuns ELSE @]
    /\ UNCHANGED <<now, jobVars, stateVars, idemVars, wkVars, ready>>

\* The effect of the Fail transaction: nothing once the job is terminal.
Fail(j) ==
    IF status[j] \in Terminal
    THEN UNCHANGED <<status, active, latest>>
    ELSE /\ status' = [status EXCEPT ![j] = "failed"]
         /\ active' = IF active = j THEN NoJob ELSE active
         /\ latest' = IF active = j THEN j ELSE latest

FailStart(j) ==
    /\ api[j] = "start_failed"
    /\ Fail(j)
    /\ api' = [api EXCEPT ![j] = "idle"]
    /\ UNCHANGED <<now, deadline, completed, current, previous, lastSuccess,
                   idemVars, runs, wkVars, ready>>

\* The API process dies, or its Fail call does not get through.
HandlerCrash(j) ==
    /\ api[j] # "idle"
    /\ api' = [api EXCEPT ![j] = "idle"]
    /\ UNCHANGED <<now, jobVars, stateVars, idemVars, runs, wkVars, ready>>

-----------------------------------------------------------------------------
(* The worker execution.                                                   *)

\* (bug) any execution may claim an export in time.
ClaimErrorOverdue(j) == Overdue(j)

ClaimError(j) == status[j] # "queued" \/ Overdue(j)

\* MarkRunning.  An execution whose reply was lost (heard = FALSE) exits
\* and leaves the job running.
Claim(w, j, heard) ==
    /\ wpc[w] = "idle"
    /\ runs[j] > 0
    /\ ~ClaimError(j)
    /\ runs' = [runs EXCEPT ![j] = @ - 1]
    /\ status' = [status EXCEPT ![j] = "running"]
    /\ IF heard
       THEN /\ wpc' = [wpc EXCEPT ![w] = "claimed"]
            /\ wjob' = [wjob EXCEPT ![w] = j]
            /\ wuntil' = [wuntil EXCEPT ![w] = now + HardTimeout]
            /\ UNCHANGED <<wstamp, wtmp>>
       ELSE UNCHANGED wkVars
    /\ UNCHANGED <<now, deadline, completed, stateVars, idemVars, api, ready>>

\* An execution is refused by MarkRunning, or dies before it: it exits
\* without failing the job.
RunLost(j) ==
    /\ runs[j] > 0
    /\ runs' = [runs EXCEPT ![j] = @ - 1]
    /\ UNCHANGED <<now, jobVars, stateVars, idemVars, api, wkVars, ready>>

\* (bug) the work context never times out.
InTimeAlways(w, pc) == wpc[w] = pc

InTime(w, pc) == wpc[w] = pc /\ now < wuntil[w]

\* Delete a left-over temporary object and write the whole archive.
WriteTmp(w) ==
    /\ InTime(w, "claimed")
    /\ wtmp' = [wtmp EXCEPT ![w] = now]
    /\ wpc' = [wpc EXCEPT ![w] = "written"]
    /\ UNCHANGED <<now, jobVars, stateVars, idemVars, apiVars,
                   wjob, wuntil, wstamp, ready>>

\* The temporary object is verified; its completion time is taken here, not
\* when the job is completed.
StampTmp(w) ==
    /\ InTime(w, "written")
    /\ wtmp[w] # NoTime
    /\ wstamp' = [wstamp EXCEPT ![w] = now]
    /\ wpc' = [wpc EXCEPT ![w] = "stamped"]
    /\ UNCHANGED <<now, jobVars, stateVars, idemVars, apiVars,
                   wjob, wuntil, wtmp, ready>>

\* (bug) the promoted object does not keep the Custom-Time.
PromotedNow(w) == now

PromotedTime(w) == wstamp[w]

\* Copy the pinned temporary generation to the ready prefix and verify it.
CopyReady(w) ==
    /\ InTime(w, "stamped")
    /\ wtmp[w] # NoTime
    /\ ready' = [ready EXCEPT ![wjob[w]] = PromotedTime(w)]
    /\ wtmp' = [wtmp EXCEPT ![w] = NoTime]
    /\ wpc' = [wpc EXCEPT ![w] = "copied"]
    /\ UNCHANGED <<now, jobVars, stateVars, idemVars, apiVars,
                   wjob, wuntil, wstamp>>

\* Leave the process: the execution's memory is gone.
Exit(w) ==
    /\ wpc' = [wpc EXCEPT ![w] = "idle"]
    /\ wjob' = [wjob EXCEPT ![w] = NoJob]
    /\ wuntil' = [wuntil EXCEPT ![w] = 0]
    /\ wstamp' = [wstamp EXCEPT ![w] = NoTime]
    /\ wtmp' = [wtmp EXCEPT ![w] = NoTime]

\* (bug) an export may complete after its deadline.
CompletableLate(j, at) == status[j] \in Live /\ active = j

Completable(j, at) ==
    /\ status[j] \in Live
    /\ deadline[j] > at
    /\ active = j

\* (bug) a success does not keep the archive before it.
DemotedNever == previous

Demoted == IF current # NoJob THEN current ELSE previous

\* The Complete transaction.  When its reply is lost (heard = FALSE) the
\* worker goes on to fail a job that is ready.
Complete(w, heard) ==
    LET j == wjob[w] IN
    /\ InTime(w, "copied")
    /\ Completable(j, wstamp[w])
    /\ status' = [status EXCEPT ![j] = "ready"]
    /\ completed' = [completed EXCEPT ![j] = wstamp[w]]
    /\ previous' = Demoted
    /\ current' = j
    /\ latest' = j
    /\ lastSuccess' = wstamp[w]
    /\ active' = NoJob
    /\ IF heard THEN Exit(w)
       ELSE /\ wpc' = [wpc EXCEPT ![w] = "failing"]
            /\ UNCHANGED <<wjob, wuntil, wstamp, wtmp>>
    /\ UNCHANGED <<now, deadline, idemVars, apiVars, ready>>

\* A step returns an error: the storage refused it, the job is not
\* completable any more, or the work context has timed out.
StepError(w) ==
    /\ wpc[w] \in Working
    /\ wpc' = [wpc EXCEPT ![w] = "failing"]
    /\ UNCHANGED <<now, jobVars, stateVars, idemVars, apiVars,
                   wjob, wuntil, wstamp, wtmp, ready>>

FailRun(w) ==
    /\ wpc[w] = "failing"
    /\ Fail(wjob[w])
    /\ Exit(w)
    /\ UNCHANGED <<now, deadline, completed, current, previous, lastSuccess,
                   idemVars, apiVars, ready>>

\* The execution dies, or its Fail call does not get through.
WorkerCrash(w) ==
    /\ wpc[w] # "idle"
    /\ Exit(w)
    /\ UNCHANGED <<now, jobVars, stateVars, idemVars, apiVars, ready>>

-----------------------------------------------------------------------------
(* The environment: the clock and the bucket's lifecycle rules.            *)

Tick ==
    /\ now < MaxClock
    /\ now' = now + 1
    /\ UNCHANGED <<jobVars, stateVars, idemVars, apiVars, wkVars, ready>>

ExpireReady(j) ==
    /\ ready[j] # NoTime
    /\ ready[j] + Retention <= now
    /\ ready' = [ready EXCEPT ![j] = NoTime]
    /\ UNCHANGED <<now, jobVars, stateVars, idemVars, apiVars, wkVars>>

ExpireTmp(w) ==
    /\ wtmp[w] # NoTime
    /\ wtmp[w] + TmpRetention <= now
    /\ wtmp' = [wtmp EXCEPT ![w] = NoTime]
    /\ UNCHANGED <<now, jobVars, stateVars, idemVars, apiVars,
                   wpc, wjob, wuntil, wstamp, ready>>

-----------------------------------------------------------------------------
CreateNext(j) ==
    \/ \E k \in Keys \cup {NoKey} : Admit(j, k)
    \/ \E launched, ok \in BOOLEAN : Start(j, launched, ok)
    \/ FailStart(j)
    \/ HandlerCrash(j)
    \/ RunLost(j)

WorkerNext(w) ==
    \/ \E j \in Jobs, heard \in BOOLEAN : Claim(w, j, heard)
    \/ WriteTmp(w)
    \/ StampTmp(w)
    \/ CopyReady(w)
    \/ \E heard \in BOOLEAN : Complete(w, heard)
    \/ StepError(w)
    \/ FailRun(w)
    \/ WorkerCrash(w)

Next ==
    \/ \E j \in Jobs : CreateNext(j) \/ ExpireReady(j)
    \/ \E w \in Workers : WorkerNext(w) \/ ExpireTmp(w)
    \/ Tick

Spec == Init /\ [][Next]_vars

-----------------------------------------------------------------------------
(* What must be true.                                                      *)

\* At most one export of the project is queued or running in the database,
\* and it is the one the state document names: Admit, Fail and Complete
\* between them never strand a live job that nobody will time out.
LiveIsActive == \A j \in Jobs : status[j] \in Live => active = j

\* However often the platform runs an execution, one worker at most works on
\* an export, so nobody overwrites its temporary or its ready object.
OneWorkerPerExport ==
    \A v, w \in Workers :
        wpc[v] \in Working /\ wpc[w] \in Working /\ v # w => wjob[v] # wjob[w]

\* The rate limit as its users see it: two successful exports are a cooldown
\* apart, even when an old worker completes late or its reply is lost.
SuccessSpacing ==
    \A i, j \in Jobs :
        status[i] = "ready" /\ status[j] = "ready" /\ i # j
            => \/ completed[i] + Cooldown <= completed[j]
               \/ completed[j] + Cooldown <= completed[i]

\* A ready job has its archive in the bucket, with the completion time the
\* database recorded, until the retention has passed.
ReadyHasArchive ==
    \A j \in Jobs :
        status[j] = "ready" =>
            \/ ready[j] = completed[j]
            \/ ready[j] = NoTime /\ completed[j] + Retention <= now

\* The eligibility GET /exports reports, computed from the latest job, is the
\* decision POST /exports would take, computed from the active one.
EligibilityAgrees == ListedEligible <=> Admissible

\* The archives that are still within their retention.
Unexpired == {j \in Jobs : status[j] = "ready" /\ completed[j] + Retention > now}

IsNewestOf(j, S) == IF S = {} THEN j = NoJob
                    ELSE j \in S /\ \A i \in S : completed[i] <= completed[j]

\* "current is the newest unexpired successful archive; previous is the next
\* newest": the two slots kept by Complete never miss or misorder one.
ListsNewest ==
    /\ IsNewestOf(ListedCurrent, Unexpired)
    /\ IsNewestOf(ListedPrevious, Unexpired \ {ListedCurrent})

\* The bucket's age rule never takes the temporary object from a worker that
\* may still copy it.
TmpOutlivesCopy ==
    \A w \in Workers :
        InTime(w, "written") \/ InTime(w, "stamped") => wtmp[w] # NoTime

\* A key names one export for ever: a retried Create never admits a second.
KeyNamesOneExport ==
    \A i, j \in Jobs : keyOf[i] = keyOf[j] /\ keyOf[i] # NoKey => i = j

\* A finished export stays as it finished: a Fail that follows a lost reply
\* or a late worker's Complete changes nothing, and its archive is never
\* rewritten, only deleted.
Finished(j) ==
    status[j] \in Terminal =>
        /\ status'[j] = status[j]
        /\ completed'[j] = completed[j]
        /\ status[j] = "ready" => ready'[j] \in {ready[j], NoTime}

FinishedStays == [][\A j \in Jobs : Finished(j)]_vars

\* The whole system implements the abstract slot: nothing a crash, a retry
\* or a late worker does takes the slot early, shares it or publishes twice.
Published == {<<j, completed[j]>> : j \in {i \in Jobs : status[i] = "ready"}}

Slot == INSTANCE ExportSlot WITH
            clock <- now,
            holder <- active,
            until <- IF active = NoJob THEN 0 ELSE deadline[active],
            published <- Published

ImplementsSlot == Slot!SlotSpec

-----------------------------------------------------------------------------
(* The inductive invariant behind the proofs.                              *)

\* The active export is live, is the latest one, and was admitted a cooldown
\* after the last success.
ActiveIsLive ==
    active # NoJob =>
        /\ status[active] \in Live
        /\ latest = active
        /\ deadline[active] - JobDeadline <= now
        /\ lastSuccess # NoTime =>
               lastSuccess + Cooldown <= deadline[active] - JobDeadline

\* What an execution knows of its export, and what its export's documents
\* and objects look like meanwhile.
WorkerKnows(w) ==
    /\ wpc[w] # "idle" => wjob[w] \in Jobs
    /\ wpc[w] \in Working =>
           /\ status[wjob[w]] \in {"running", "failed"}
           /\ deadline[wjob[w]] - JobDeadline <= now
           /\ wuntil[w] - HardTimeout <= now
    /\ wpc[w] \in {"written", "stamped"} =>
           \/ wtmp[w] = NoTime /\ wuntil[w] <= now
           \/ wtmp[w] # NoTime /\ wuntil[w] - HardTimeout <= wtmp[w]
    /\ wpc[w] \in {"stamped", "copied"} =>
           /\ wstamp[w] # NoTime /\ wstamp[w] <= now
           /\ deadline[wjob[w]] - JobDeadline <= wstamp[w]
    /\ wpc[w] = "copied" =>
           \/ ready[wjob[w]] = wstamp[w]
           \/ ready[wjob[w]] = NoTime /\ wstamp[w] + Retention <= now

WorkersKnow == \A w \in Workers : WorkerKnows(w)

\* Every success is at least as old as the last one.
SuccessesPast ==
    /\ lastSuccess <= now
    /\ \A j \in Jobs :
          status[j] = "ready" =>
              /\ completed[j] # NoTime
              /\ lastSuccess # NoTime
              /\ completed[j] <= lastSuccess

\* The two archive slots hold the last two successes.
SlotsHoldLast ==
    /\ current = NoJob => previous = NoJob /\ \A j \in Jobs : status[j] # "ready"
    /\ current # NoJob => status[current] = "ready" /\ completed[current] = lastSuccess
    /\ previous # NoJob => status[previous] = "ready" /\ previous # current
    /\ \A j \in Jobs :
          status[j] = "ready" /\ j # current =>
              previous # NoJob /\ completed[j] <= completed[previous]

IndInv ==
    /\ TypeOK
    /\ LiveIsActive
    /\ ActiveIsLive
    /\ WorkersKnow
    /\ OneWorkerPerExport
    /\ SuccessesPast
    /\ SuccessSpacing
    /\ ReadyHasArchive
    /\ SlotsHoldLast
=============================================================================
