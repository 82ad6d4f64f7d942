---------------------------- MODULE DocumentImport ----------------------------
(***************************************************************************)
(* Document import: the record of an uploaded document                     *)
(* (internal/documentimport), the durable work item that drives it         *)
(* (internal/profileruntime, internal/handler/v1/profile_runtime.go), the  *)
(* dispatchers that execute the item, and the Cloud Run workers they       *)
(* launch (cmd/document_import_worker).                                    *)
(*                                                                         *)
(* Requests, dispatchers and workers are processes that may die between    *)
(* any two steps; each step is one read, one transaction or one call.      *)
(* Durations count down: a timer is the time left, a lease is live while   *)
(* its timer is positive, and Tick lets one unit pass.  The commit of the  *)
(* source goes through the journal, of which only the event's state is     *)
(* kept here (SourceJournal has the rest); a document's raw path is its    *)
(* own.                                                                    *)
(***************************************************************************)
EXTENDS Integers, FiniteSets

CONSTANTS
    Documents,
    Requests,       \* submissions: an upload and its client's retries
    Dispatchers,    \* concurrent sweeps of the work queue
    Workers,        \* concurrent executions of the worker job
    NoOne,          \* no lease token
    Minute,         \* the unit of the queue's delays
    RecordLease,    \* conversionLease, and the worker's own deadline
    ExecutionTimeout,
    WorkLease,      \* profileruntime.LeaseDuration
    Grace,          \* sourceCommitReconcileGrace
    MaxAttempts

ASSUME ImportAssumption ==
    /\ IsFiniteSet(Documents)
    /\ NoOne \notin Dispatchers \cup Workers
    /\ Minute \in Nat \ {0} /\ RecordLease \in Nat \ {0}
    /\ ExecutionTimeout \in Nat \ {0} /\ WorkLease \in Nat
    /\ ExecutionTimeout < WorkLease
    /\ Grace \in Nat /\ RecordLease < Grace
    /\ MaxAttempts \in Nat \ {0}

VARIABLES
    rec,        \* the document record
    work,       \* its work item
    failed,     \* the project's document_import_failed_count
    latest,     \* the project's document_import_latest_failure_sequence
    original,   \* the original object exists
    raw,        \* the raw object exists
    event,      \* the journal's event for the document
    intent,     \* a pipeline intent covers the document's source revision
    req, disp, run  \* the processes

vars == <<rec, work, failed, latest, original, raw, event, intent, req, disp, run>>

-----------------------------------------------------------------------------
Unconverted == {"accepted", "converting"}
Timers == Nat

RecordType ==
    [conv : {"none", "receiving", "failed", "succeeded"} \cup Unconverted,
     src : {"not_started", "saving", "saved", "failed", "unknown"},
     assoc : {"none", "pending", "linked"},
     del : {"present", "deleting", "complete", "failed"},
     stage : {"none", "conversion", "dispatch", "source_save"},
     started : BOOLEAN, token : Workers \cup {NoOne}, lease : Timers, seq : Nat]
WorkType ==
    [status : {"none", "pending", "complete", "exhausted"},
     attempts : -1..MaxAttempts, token : Dispatchers \cup {NoOne},
     lease : Timers, due : Timers]
EventType ==
    [state : {"none", "prepared", "committed", "aborted"}, grace : Timers]
RequestType ==
    [doc : Documents,
     pc : {"idle", "storing", "accepting", "starting", "started", "refused", "done"}]
DispatcherType ==
    [doc : Documents, timer : Timers,
     pc : {"idle", "read", "associate", "start", "started", "refused",
           "cleanup", "cleaned", "uncleaned", "finish"},
     cause : {"none", "waiting", "accepted", "error"}]
RunType ==
    [doc : Documents, timer : Timers,
     pc : {"idle", "launched", "convert", "save", "write", "confirm",
           "reconcile", "saved", "failed", "unknown"}]

TypeOK ==
    /\ rec \in [Documents -> RecordType]
    /\ work \in [Documents -> WorkType]
    /\ failed \in Nat /\ latest \in Nat
    /\ original \in [Documents -> BOOLEAN] /\ raw \in [Documents -> BOOLEAN]
    /\ event \in [Documents -> EventType]
    /\ intent \in [Documents -> BOOLEAN]
    /\ req \in [Requests -> RequestType]
    /\ disp \in [Dispatchers -> DispatcherType]
    /\ run \in [Workers -> RunType]

NewWork == [status |-> "none", attempts |-> 0, token |-> NoOne, lease |-> 0, due |-> 0]

Init ==
    /\ rec = [d \in Documents |->
         [conv |-> "none", src |-> "not_started", assoc |-> "none",
          del |-> "present", stage |-> "none", started |-> FALSE,
          token |-> NoOne, lease |-> 0, seq |-> 0]]
    /\ work = [d \in Documents |-> NewWork]
    /\ failed = 0 /\ latest = 0
    /\ original = [d \in Documents |-> FALSE]
    /\ raw = [d \in Documents |-> FALSE]
    /\ event = [d \in Documents |-> [state |-> "none", grace |-> 0]]
    /\ intent = [d \in Documents |-> FALSE]
    /\ \E d \in Documents :
         /\ req = [q \in Requests |-> [doc |-> d, pc |-> "idle"]]
         /\ disp = [k \in Dispatchers |-> [doc |-> d, timer |-> 0, pc |-> "idle",
                                           cause |-> "none"]]
         /\ run = [w \in Workers |-> [doc |-> d, timer |-> 0, pc |-> "idle"]]

\* What a step that only concerns the records, the queue or the objects leaves.
counters == <<failed, latest>>
objects == <<original, raw, event, intent>>

-----------------------------------------------------------------------------
(* What the record calls for.                                              *)

\* documentImportWorkRecoverable.
Recoverable(r) ==
    /\ r.del = "present"
    /\ \/ r.conv \in Unconverted
       \/ r.conv = "succeeded" /\ r.src \notin {"saved", "failed"}

\* documentImportPipelineAssociationRecoverable.
AssociationRecoverable(r) ==
    /\ r.conv = "succeeded" /\ r.src = "saved" /\ r.del = "present"
    /\ r.assoc = "pending"

FailedCounted(r) == r.conv = "failed" /\ r.del # "complete"

\* profileruntime.Enqueue.
Enqueued == [NewWork EXCEPT !.status = "pending"]

\* profileruntime.Requeue: it keeps the attempts and an active lease.
Requeued(w, due) ==
    IF w.status = "pending" /\ w.lease > 0 THEN w
    ELSE [NewWork EXCEPT !.status = "pending", !.attempts = w.attempts, !.due = due]

Unleased(r) == [r EXCEPT !.token = NoOne, !.lease = 0]

\* The record failed, in the next place of the project's failure sequence.
CountFailure(d, r, stage) ==
    /\ rec' = [rec EXCEPT ![d] = [Unleased(r) EXCEPT
                 !.conv = "failed", !.stage = stage, !.seq = latest + 1]]
    /\ failed' = failed + 1 /\ latest' = latest + 1

-----------------------------------------------------------------------------
(* Submission (Service.Accept).  Every request ends, one way or another.   *)

At(q, d, pc) == req' = [req EXCEPT ![q] = [doc |-> d, pc |-> pc]]

\* What is left for a request that finds r accepted already.
Startable(r) ==
    \/ r.conv \in Unconverted /\ ~r.started
    \/ r.conv = "succeeded" /\ r.src \in {"saving", "unknown"}

\* Begin: one record per submission key.
Submit(q, d) ==
    /\ req[q].pc = "idle"
    /\ rec' = IF rec[d].conv = "none" THEN [rec EXCEPT ![d].conv = "receiving"] ELSE rec
    /\ At(q, d, IF rec'[d].conv = "receiving" THEN "storing"
                ELSE IF rec[d].del # "complete" /\ original[d] /\ Startable(rec[d])
                THEN "starting" ELSE "done")
    /\ UNCHANGED <<work, counters, objects, disp, run>>

\* ensureOriginal.
StoreOriginal(q) ==
    /\ req[q].pc = "storing"
    /\ original' = [original EXCEPT ![req[q].doc] = TRUE]
    /\ At(q, req[q].doc, "accepting")
    /\ UNCHANGED <<rec, work, counters, raw, event, intent, disp, run>>

\* CompleteAcceptance, and the readback of the original.
Accept(q) ==
    LET d == req[q].doc IN
    /\ req[q].pc = "accepting"
    /\ IF rec[d].conv = "receiving"
       THEN /\ rec' = [rec EXCEPT ![d].conv = "accepted"]
            /\ work' = [work EXCEPT ![d] = Enqueued]
       ELSE UNCHANGED <<rec, work>>
    /\ At(q, d, IF original[d] /\ Startable(rec'[d]) THEN "starting" ELSE "done")
    /\ UNCHANGED <<counters, objects, disp, run>>

\* A launch of the worker job for d: it may be accepted without an answer.
Launch(d, launched) ==
    IF launched
    THEN \E w \in Workers :
           /\ run[w].pc = "idle"
           /\ run' = [run EXCEPT ![w] = [doc |-> d, timer |-> 0, pc |-> "launched"]]
    ELSE UNCHANGED run

RequestStart(q, launched, ok) ==
    /\ req[q].pc = "starting" /\ (ok => launched)
    /\ Launch(req[q].doc, launched)
    /\ At(q, req[q].doc, IF ok THEN "started" ELSE "refused")
    /\ UNCHANGED <<rec, work, counters, objects, disp>>

\* SetDispatchState.
Markable(r) == r.conv # "receiving" /\ r.del = "present"
Marked(d, started) ==
    rec' = IF Markable(rec[d]) THEN [rec EXCEPT ![d].started = started] ELSE rec

RequestMark(q) ==
    /\ req[q].pc \in {"started", "refused"}
    /\ Marked(req[q].doc, req[q].pc = "started")
    /\ At(q, req[q].doc, "done")
    /\ UNCHANGED <<work, counters, objects, disp, run>>

RequestEnds(q) ==
    /\ req[q].pc \notin {"idle", "done"}
    /\ At(q, req[q].doc, "done")
    /\ UNCHANGED <<rec, work, counters, objects, disp, run>>

\* MarkDeleting: the user deletes a document that has no source.
Delete(d) ==
    /\ \/ rec[d].conv = "failed"
       \/ rec[d].src = "failed"
    /\ rec[d].del # "complete"
    /\ rec' = [rec EXCEPT ![d].del = "deleting", ![d].token = NoOne]
    /\ work' = [work EXCEPT ![d] = Enqueued]
    /\ UNCHANGED <<counters, objects, req, disp, run>>

-----------------------------------------------------------------------------
(* The work queue and its dispatchers.                                     *)

Claimable(w) == w.status = "pending" /\ w.due = 0 /\ w.lease = 0

\* (bug) the record is not read again before it is failed.
FailDispatchAnyway(d) ==
    IF rec[d].del = "present" THEN CountFailure(d, Unleased(rec[d]), "dispatch")
    ELSE UNCHANGED <<rec, counters>>

\* FailDispatch: the queue gives the document up.
FailDispatch(d) ==
    LET r == [Unleased(rec[d]) EXCEPT !.started = FALSE]
        Becomes(s) == rec' = [rec EXCEPT ![d] = s] /\ UNCHANGED counters
    IN
    IF r.del = "deleting" THEN Becomes([r EXCEPT !.del = "failed"])
    ELSE IF Recoverable(rec[d]) /\ r.conv \in Unconverted
    THEN CountFailure(d, r, "dispatch")
    ELSE IF Recoverable(rec[d])
    THEN Becomes([r EXCEPT !.src = "unknown", !.stage = "source_save"])
    ELSE IF AssociationRecoverable(rec[d]) THEN Becomes([r EXCEPT !.stage = "none"])
    ELSE UNCHANGED <<rec, counters>>

OutOfAttempts(w) == w.attempts >= MaxAttempts

ExhaustWork(d) ==
    /\ Claimable(work[d]) /\ OutOfAttempts(work[d])
    /\ FailDispatch(d)
    /\ work' = [work EXCEPT ![d].status = "exhausted"]
    /\ UNCHANGED <<objects, req, disp, run>>

ClaimWork(k, d) ==
    /\ disp[k].pc = "idle"
    /\ Claimable(work[d]) /\ ~OutOfAttempts(work[d])
    /\ work' = [work EXCEPT ![d].attempts = @ + 1, ![d].token = k,
                            ![d].lease = WorkLease, ![d].due = WorkLease]
    /\ disp' = [disp EXCEPT ![k] =
         [doc |-> d, timer |-> ExecutionTimeout, pc |-> "read", cause |-> "none"]]
    /\ UNCHANGED <<rec, counters, objects, req, run>>

Step(k, pc, cause) == disp' = [disp EXCEPT ![k].pc = pc, ![k].cause = cause,
                                ![k].timer = IF pc = "idle" THEN 0 ELSE @]

\* executeDocumentImport up to its first effect; any of its reads may fail.
ReadRecord(k, fails) ==
    LET r == rec[disp[k].doc] IN
    /\ disp[k].pc = "read"
    /\ IF fails THEN Step(k, "finish", "error")
       ELSE IF r.del = "deleting" THEN Step(k, "cleanup", "none")
       ELSE IF AssociationRecoverable(r) THEN Step(k, "associate", "none")
       ELSE IF ~Recoverable(r) THEN Step(k, "finish", "none")
       ELSE IF r.lease > 0 THEN Step(k, "finish", "waiting")
       ELSE Step(k, "start", "none")
    /\ UNCHANGED <<rec, work, counters, objects, req, run>>

StartJob(k, launched, ok) ==
    /\ disp[k].pc = "start" /\ (ok => launched)
    /\ Launch(disp[k].doc, launched)
    /\ Step(k, IF ok THEN "started" ELSE "refused", "none")
    /\ UNCHANGED <<rec, work, counters, objects, req>>

MarkJob(k, fails) ==
    LET d == disp[k].doc IN
    /\ disp[k].pc \in {"started", "refused"}
    /\ IF fails THEN UNCHANGED rec ELSE Marked(d, disp[k].pc = "started")
    /\ Step(k, "finish", IF disp[k].pc = "started" /\ ~fails /\ Markable(rec[d])
                         THEN "accepted" ELSE "error")
    /\ UNCHANGED <<work, counters, objects, req, run>>

\* associateDocumentImportsWithPipeline and SetPipelineAssociation, for d.
Associated(d) ==
    rec' = IF intent[d] /\ AssociationRecoverable(rec[d])
           THEN [rec EXCEPT ![d].assoc = "linked"] ELSE rec

Associate(k, fails) ==
    LET d == disp[k].doc IN
    /\ disp[k].pc = "associate"
    /\ IF fails THEN UNCHANGED rec ELSE Associated(d)
    /\ Step(k, "finish", IF fails THEN "error"
                         ELSE IF AssociationRecoverable(rec'[d]) THEN "waiting" ELSE "none")
    /\ UNCHANGED <<work, counters, objects, req, run>>

\* FinishDelete: the objects first, then the record.
Cleanup(k, done) ==
    /\ disp[k].pc = "cleanup"
    /\ original' = IF done THEN [original EXCEPT ![disp[k].doc] = FALSE] ELSE original
    /\ Step(k, IF done THEN "cleaned" ELSE "uncleaned", "none")
    /\ UNCHANGED <<rec, work, counters, raw, event, intent, req, run>>

FinishDeletion(k) ==
    LET d == disp[k].doc
        done == disp[k].pc = "cleaned"
        open == rec[d].del \in {"deleting", "failed"}
    IN
    /\ disp[k].pc \in {"cleaned", "uncleaned"}
    /\ rec' = IF open THEN [rec EXCEPT ![d].del = IF done THEN "complete" ELSE "failed"]
              ELSE rec
    /\ failed' = IF open /\ done /\ FailedCounted(rec[d]) /\ failed > 0
                 THEN failed - 1 ELSE failed
    /\ Step(k, "finish", IF open \/ (done /\ rec[d].del = "complete") THEN "none" ELSE "error")
    /\ UNCHANGED <<work, latest, objects, req, run>>

\* What finish makes of the work item: it is due again after a wait, or done.
Wait(w, due) == [w EXCEPT !.due = due]
Refunded(w) == [w EXCEPT !.attempts = @ - 1]
Completed(w) == [w EXCEPT !.status = "complete"]

\* (bug) an accepted launch is all there is to do.
SettledWhenAccepted(w, r, cause) ==
    IF cause = "waiting" THEN Wait(Refunded(w), Minute) ELSE Completed(w)

\* (bug) a launch that came to nothing does not use up an attempt.
SettledRefunded(w, r, cause) ==
    IF Recoverable(r) THEN [Wait(Refunded(w), WorkLease) EXCEPT !.status = "pending"]
    ELSE Completed(w)

Settled(w, r, cause) ==
    IF cause = "waiting"
    THEN Wait(Refunded(w), IF r.lease > 0 THEN r.lease ELSE Minute)
    ELSE IF AssociationRecoverable(r) THEN [Wait(w, Minute) EXCEPT !.status = "pending"]
    ELSE IF ~Recoverable(r) THEN Completed(w)
    ELSE IF r.lease = 0 THEN [Wait(w, WorkLease) EXCEPT !.status = "pending"]
    ELSE [Wait(IF cause = "none" THEN Refunded(w) ELSE w, r.lease)
            EXCEPT !.status = "pending"]

Finish(k) ==
    LET d == disp[k].doc
        w == [work[d] EXCEPT !.token = NoOne, !.lease = 0]
        cause == disp[k].cause
    IN
    /\ disp[k].pc = "finish"
    /\ Step(k, "idle", "none")
    /\ IF work[d].token # k THEN UNCHANGED <<rec, work, counters>>
       ELSE IF cause # "error"
       THEN work' = [work EXCEPT ![d] = Settled(w, rec[d], cause)] /\ UNCHANGED <<rec, counters>>
       ELSE IF OutOfAttempts(w)
       THEN FailDispatch(d) /\ work' = [work EXCEPT ![d] = [w EXCEPT !.status = "exhausted"]]
       ELSE work' = [work EXCEPT ![d] = Wait(w, w.attempts * Minute)] /\ UNCHANGED <<rec, counters>>
    /\ UNCHANGED <<objects, req, run>>

DispatcherEnds(k) ==
    /\ disp[k].pc # "idle"
    /\ Step(k, "idle", "none")
    /\ UNCHANGED <<rec, work, counters, objects, req, run>>

-----------------------------------------------------------------------------
(* The worker (Processor.Process).                                         *)

Go(w, pc) == run' = [run EXCEPT ![w].pc = pc,
                                ![w].timer = IF pc = "idle" THEN 0 ELSE @]

\* Claim: an execution that started late finds what has become of the record.
ClaimRecord(w) ==
    LET d == run[w].doc IN
    /\ run[w].pc = "launched"
    /\ IF Recoverable(rec[d]) /\ rec[d].lease = 0
       THEN /\ rec' = [rec EXCEPT
                 ![d].conv = IF @ = "succeeded" THEN @ ELSE "converting",
                 ![d].token = w, ![d].lease = RecordLease]
            /\ run' = [run EXCEPT ![w].timer = RecordLease,
                 ![w].pc = IF rec[d].conv = "succeeded" THEN "save" ELSE "convert"]
       ELSE Go(w, "idle") /\ UNCHANGED rec
    /\ UNCHANGED <<work, counters, objects, req, disp>>

\* (bug) the token is not compared.
HoldsAnyLease(w, d, conv) == rec[d].conv = conv /\ rec[d].del = "present"

Holds(w, d, conv) ==
    rec[d].conv = conv /\ rec[d].token = w /\ rec[d].del = "present"

\* CompleteConversion.
CompleteConversion(w) ==
    LET d == run[w].doc IN
    /\ run[w].pc = "convert"
    /\ IF Holds(w, d, "converting")
       THEN /\ rec' = [rec EXCEPT ![d].conv = "succeeded", ![d].src = "saving",
                                  ![d].stage = "none"]
            /\ work' = [work EXCEPT ![d] = Requeued(@, RecordLease)]
            /\ Go(w, "save")
       ELSE Go(w, "idle") /\ UNCHANGED <<rec, work>>
    /\ UNCHANGED <<counters, objects, req, disp>>

FailConversion(w) ==
    LET d == run[w].doc IN
    /\ run[w].pc = "convert"
    /\ IF Holds(w, d, "converting") THEN CountFailure(d, rec[d], "conversion")
       ELSE UNCHANGED <<rec, counters>>
    /\ Go(w, "idle")
    /\ UNCHANGED <<work, objects, req, disp>>

\* saveSource up to PrepareSourceCommit, which accepts an event it finds; its
\* answer may be lost, and the markdown may not be readable.
PrepareSource(w, landed, ok) ==
    LET d == run[w].doc IN
    /\ run[w].pc = "save" /\ (ok => landed)
    /\ event' = IF landed /\ event[d].state = "none"
                THEN [event EXCEPT ![d] = [state |-> "prepared", grace |-> Grace]]
                ELSE event
    /\ Go(w, IF ok THEN "write" ELSE "failed")
    /\ UNCHANGED <<rec, work, counters, original, raw, intent, req, disp>>

\* ensureRawSource.
WriteRaw(w, landed, ok) ==
    /\ run[w].pc = "write" /\ (ok => landed)
    /\ raw' = IF landed THEN [raw EXCEPT ![run[w].doc] = TRUE] ELSE raw
    /\ Go(w, IF ok THEN "confirm" ELSE "reconcile")
    /\ UNCHANGED <<rec, work, counters, original, event, intent, req, disp>>

Committed(d) ==
    event' = IF event[d].state = "prepared"
             THEN [event EXCEPT ![d].state = "committed"] ELSE event

ConfirmSource(w, landed, ok) ==
    LET d == run[w].doc IN
    /\ run[w].pc = "confirm" /\ (ok => landed)
    /\ IF landed THEN Committed(d) ELSE UNCHANGED event
    /\ Go(w, IF ok /\ event'[d].state = "committed" THEN "saved" ELSE "reconcile")
    /\ UNCHANGED <<rec, work, counters, original, raw, intent, req, disp>>

\* ReconcileSourceCommit: what is stored decides, or the end of the grace.
Reconciled(d) ==
    IF raw[d] THEN Committed(d)
    ELSE event' = IF event[d].state = "prepared" /\ event[d].grace = 0
                  THEN [event EXCEPT ![d].state = "aborted"] ELSE event

\* (bug) an event that is not aborted counts as committed.
OutcomeUnlessAborted(e) == IF e.state = "aborted" THEN "failed" ELSE "saved"

\* reconcileSourceFailure's reading of the event.
OutcomeOf(e) ==
    IF e.state = "committed" THEN "saved"
    ELSE IF e.state = "aborted" THEN "failed" ELSE "unknown"

ReconcileSource(w, fails) ==
    LET d == run[w].doc IN
    /\ run[w].pc = "reconcile"
    /\ IF fails THEN UNCHANGED event ELSE Reconciled(d)
    /\ Go(w, IF fails THEN "unknown" ELSE OutcomeOf(event'[d]))
    /\ UNCHANGED <<rec, work, counters, original, raw, intent, req, disp>>

\* The queue's own reconcile of the event.
JournalReconciles(d) ==
    /\ event[d].state = "prepared"
    /\ Reconciled(d)
    /\ UNCHANGED <<rec, work, counters, original, raw, intent, req, disp, run>>

\* SetSourceOutcome: work for the outcome src whose association is assoc.
WorkAfter(w, src, assoc) ==
    LET fresh == [w EXCEPT !.attempts = 0] IN
    IF src = "unknown" THEN Requeued(w, RecordLease)
    ELSE IF src = "failed" THEN w
    ELSE IF assoc = "none"
    THEN IF w.status = "pending" /\ w.token = NoOne THEN Completed(w) ELSE w
    ELSE IF w.status = "pending" /\ w.token # NoOne /\ w.lease > 0 THEN fresh
    ELSE [Enqueued EXCEPT !.due = Minute]

SetSourceOutcome(w, assoc) ==
    LET d == run[w].doc
        src == run[w].pc
    IN
    /\ src \in {"saved", "failed", "unknown"}
    /\ assoc = "none" \/ src = "saved"
    /\ IF Holds(w, d, "succeeded") /\ ~(rec[d].src = "saved" /\ src = "saved")
       THEN /\ rec' = [rec EXCEPT ![d] = [Unleased(rec[d]) EXCEPT !.src = src,
                 !.stage = IF src = "saved" THEN "none" ELSE "source_save",
                 !.assoc = IF src = "saved" THEN assoc ELSE rec[d].assoc]]
            /\ work' = [work EXCEPT ![d] = WorkAfter(@, src, assoc)]
       ELSE UNCHANGED <<rec, work>>
    /\ Go(w, "idle")
    /\ UNCHANGED <<counters, objects, req, disp>>

WorkerEnds(w) ==
    /\ run[w].pc # "idle"
    /\ Go(w, "idle")
    /\ UNCHANGED <<rec, work, counters, objects, req, disp>>

-----------------------------------------------------------------------------
\* The automation reserves an intent for the committed revision, and its own
\* dispatch associates the documents it covers.
ReserveIntent(d) ==
    /\ event[d].state = "committed" /\ ~intent[d]
    /\ intent' = [intent EXCEPT ![d] = TRUE]
    /\ UNCHANGED <<rec, work, counters, original, raw, event, req, disp, run>>

AssociateByPipeline(d) ==
    /\ intent[d] /\ AssociationRecoverable(rec[d])
    /\ Associated(d)
    /\ UNCHANGED <<work, counters, objects, req, disp, run>>

Less(t) == IF t > 0 THEN t - 1 ELSE 0

\* (bug) a worker outlives the time its lease is for.
EndsLate(p) == FALSE

\* A process ends with its deadline.
Ends(p) == p.timer = 1

\* Time passes.
Tick ==
    /\ rec' = [d \in Documents |-> [rec[d] EXCEPT !.lease = Less(@)]]
    /\ work' = [d \in Documents |-> [work[d] EXCEPT !.lease = Less(@), !.due = Less(@)]]
    /\ event' = [d \in Documents |-> [event[d] EXCEPT !.grace = Less(@)]]
    /\ disp' = [k \in Dispatchers |-> [disp[k] EXCEPT !.timer = Less(@),
                  !.pc = IF Ends(disp[k]) THEN "idle" ELSE @,
                  !.cause = IF Ends(disp[k]) THEN "none" ELSE @]]
    /\ run' = [w \in Workers |-> [run[w] EXCEPT !.timer = Less(@),
                  !.pc = IF Ends(run[w]) THEN "idle" ELSE @]]
    /\ UNCHANGED <<counters, original, raw, intent, req>>

RequestNext(q) ==
    \/ \E d \in Documents : Submit(q, d)
    \/ StoreOriginal(q) \/ Accept(q)
    \/ \E launched, ok \in BOOLEAN : RequestStart(q, launched, ok)
    \/ RequestMark(q) \/ RequestEnds(q)

DispatchNext(k) ==
    \/ \E d \in Documents : ClaimWork(k, d)
    \/ \E launched, ok \in BOOLEAN : StartJob(k, launched, ok)
    \/ \E fails \in BOOLEAN : ReadRecord(k, fails) \/ MarkJob(k, fails) \/ Associate(k, fails)
    \/ \E done \in BOOLEAN : Cleanup(k, done)
    \/ FinishDeletion(k) \/ Finish(k) \/ DispatcherEnds(k)

WorkerNext(w) ==
    \/ ClaimRecord(w) \/ CompleteConversion(w) \/ FailConversion(w)
    \/ \E landed, ok \in BOOLEAN :
         PrepareSource(w, landed, ok) \/ WriteRaw(w, landed, ok) \/ ConfirmSource(w, landed, ok)
    \/ \E fails \in BOOLEAN : ReconcileSource(w, fails)
    \/ \E assoc \in {"none", "pending"} : SetSourceOutcome(w, assoc)
    \/ WorkerEnds(w)

DocumentNext(d) ==
    Delete(d) \/ ExhaustWork(d) \/ JournalReconciles(d) \/ ReserveIntent(d) \/ AssociateByPipeline(d)

Next ==
    \/ \E q \in Requests : RequestNext(q)
    \/ \E k \in Dispatchers : DispatchNext(k)
    \/ \E w \in Workers : WorkerNext(w)
    \/ \E d \in Documents : DocumentNext(d)
    \/ Tick

Spec == Init /\ [][Next]_vars

\* Time passes and the queue is swept: a due item is claimed or given up.  No
\* request, dispatcher or worker is fair: each may die where it stands.
Sweep(d) == ExhaustWork(d) \/ \E k \in Dispatchers : ClaimWork(k, d)

FairSpec ==
    Spec /\ WF_vars(Tick) /\ \A d \in Documents : SF_vars(Sweep(d))

-----------------------------------------------------------------------------
(* Properties.                                                             *)

\* The project's failure count is the number of its failed documents that have
\* not been deleted, although failures, retries and deletions of several
\* documents interleave; each failure has a place of its own in the sequence a
\* reminder is dismissed by.
FailuresCounted ==
    /\ failed = Cardinality({d \in Documents : FailedCounted(rec[d])})
    /\ \A d, e \in Documents :
         rec[d].conv = "failed" =>
           /\ rec[d].seq \in 1..latest
           /\ (rec[e].conv = "failed" /\ d # e) => rec[d].seq # rec[e].seq

\* A document is converted by one execution at a time, although launches are
\* repeated, their answers get lost and leases run out.
OneConversion ==
    \A v, w \in Workers :
      (run[v].pc = "convert" /\ run[w].pc = "convert" /\ run[v].doc = run[w].doc) => v = w

\* A document reported as saved is a committed source, and one reported as
\* not converted has no source.
OutcomeIsTrue ==
    \A d \in Documents :
      /\ rec[d].src = "saved" => raw[d] /\ event[d].state = "committed"
      /\ rec[d].conv = "failed" => ~raw[d] /\ event[d].state = "none"

\* A document that still has something to do is not forgotten: its work item
\* is pending, unless all its attempts were used up.
WorkRemembered ==
    \A d \in Documents :
      (\/ Recoverable(rec[d])
       \/ AssociationRecoverable(rec[d])
       \/ rec[d].del = "deleting") => work[d].status \in {"pending", "exhausted"}

\* An outcome is final: a failed conversion, a saved source and a source that
\* could not be saved stay what they are, and a deleted document stays deleted.
OutcomeStays ==
    [][\A d \in Documents :
         /\ rec[d].conv = "failed" => (rec'[d].conv = "failed" /\ rec'[d].seq = rec[d].seq)
         /\ rec[d].src \in {"saved", "failed"} => rec'[d].src = rec[d].src
         /\ rec[d].del = "complete" => rec'[d] = rec[d]]_vars

\* What the record, the workers and the journal say of a document is a life of
\* DocumentLife: an execution converts it only while no other does, nothing that
\* failed becomes a source, and each failure is counted once until its removal.
PhaseOf(r) ==
    CASE r.conv \in {"none", "receiving"} -> "new"
      [] r.conv \in Unconverted           -> "accepted"
      [] r.conv = "failed"                -> "failed"
      [] r.conv = "succeeded"             -> IF r.src = "saved"  THEN "saved"
                                             ELSE IF r.src = "failed" THEN "unsaved"
                                             ELSE "converted"

Life == INSTANCE DocumentLife WITH
            Executions <- Workers,
            phase      <- [d \in Documents |-> PhaseOf(rec[d])],
            busy       <- [d \in Documents |->
                             {w \in Workers : run[w].pc = "convert" /\ run[w].doc = d}],
            sources    <- {d \in Documents : event[d].state = "committed"},
            removed    <- {d \in Documents : rec[d].del = "complete"},
            failures   <- failed,
            sequence   <- latest

ImplementsLife == Life!LifeSpec

\* An accepted document comes to an end whatever dies on the way: a failed
\* conversion, a source that is saved or is not, or a work item that has used
\* all its attempts and says so on the record.
AcceptedEnds ==
    \A d \in Documents :
      rec[d].conv \in Unconverted ~>
        \/ rec[d].conv = "failed" \/ rec[d].src \in {"saved", "failed"}
        \/ rec[d].src = "unknown" /\ work[d].status = "exhausted"

\* A deletion is completed or reported as failed, unless the user keeps asking
\* for it again: each request renews the work item and its attempts.
DeletionEnds ==
    <>[][\A d \in Documents : ~Delete(d)]_vars =>
      \A d \in Documents : rec[d].del = "deleting" ~> rec[d].del \in {"complete", "failed"}
=============================================================================
