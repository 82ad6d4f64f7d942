------------------------- MODULE PipelineAutomation -------------------------
(***************************************************************************)
(* Automatic processing of one project: how a confirmed change of its      *)
(* sources becomes a source_commit run.                                    *)
(*                                                                         *)
(* SourceJournal promises that every change of the stored sources is       *)
(* confirmed once, counted in the project's source revision and queued;    *)
(* PipelineQuota promises that the runs of a project hold its slot one at  *)
(* a time, that an accepted intent is started or failed, and that an ended *)
(* run is settled.  This module starts from both promises and models what  *)
(* lies between them: the two switches (handler/v1/pipeline_automation.go),*)
(* the queue's work (pipeline_automation_runtime.go) and the source_commit *)
(* parts of the quota transactions (firestore/quota.go).                   *)
(*                                                                         *)
(* Every write brings a content the path never had, so an inventory is     *)
(* named by the number of writes it holds, and so is its fingerprint.      *)
(***************************************************************************)
EXTENDS Integers, FiniteSets

CONSTANTS
    Dispatchers,   \* instances working on the durable queue
    MaxAttempts,   \* profileruntime.MaxAttempts
    MaxWrites, MaxSwitches,   \* bounds of the model
    MaxDisturbed,  \* crashes, failures, cancellations and manual runs together
    None, OtherRun

Inventories == 0 .. MaxWrites
Revisions   == 1 .. MaxSwitches + 1
Items == {<<"source", 0, n>> : n \in 1 .. MaxWrites}
         \cup {<<"toggle", 0, n>> : n \in Revisions}
         \cup {<<"backlog", a, n>> : a \in Revisions, n \in Inventories}

\* pipelineAutomationReservationID: fingerprint, project and admin revision.
Names == Inventories \X Revisions \X Revisions

ASSUME AutomationAssumption ==
    /\ IsFiniteSet(Dispatchers) /\ None # OtherRun
    /\ {None, OtherRun} \cap (Dispatchers \cup Inventories \cup Names) = {}
    /\ MaxAttempts \in Nat \ {0}
    /\ MaxWrites \in Nat /\ MaxSwitches \in Nat /\ MaxDisturbed \in Nat
    /\ MaxDisturbed < MaxAttempts   \* crashes alone do not use up a work's attempts

VARIABLES
    raw,      \* the stored inventory: how many writes it holds
    built,    \* the inventory the published wiki was compiled from
    project,  \* the project document
    admin,    \* system/pipeline_automation
    scans,    \* the scans that are not complete, by admin revision
    work,     \* the queue's pipeline_automation work
    res,      \* the source_commit reservations
    slot,     \* the reservation that holds the project's run slot
    manual,   \* a manual run that holds the slot in between
    disp,     \* what each dispatcher has read
    disturbed,\* how often something failed or came in between
    raced     \* auxiliary: an item was finished that would have been admitted by then

vars == <<raw, built, project, admin, scans, work, res, slot, manual, disp, disturbed, raced>>

Statuses == {"not_started_disabled", "pending", "preparing", "running",
             "published", "failed", "cancelled", "paused"}
Backlogs == {"pending", "paused", "complete"}

Project == [on : BOOLEAN, rev : Revisions, src : Inventories, status : Statuses,
            blocked : Inventories \cup {None}, blockedAdmin : Revisions \cup {0},
            consumed : Inventories \cup {None}, consumedSrc : Inventories,
            backlog : Backlogs]
Work == [pending : BOOLEAN, attempts : 0 .. MaxAttempts, holder : Dispatchers \cup {None}]
Reservation == [src : Inventories,
                intent : {"none", "ready", "invoking", "compiling", "succeeded", "failed",
                          "cancelled"},
                exec : {"none", "running", "SUCCEEDED", "FAILED", "CANCELLED"},
                taken : Inventories]
Reading == [pc : {"idle", "admin", "fingerprint", "reserve", "refused", "busy", "backlog",
                  "finish", "wait", "error"},
            item : Items \cup {None}, on : BOOLEAN, rev : Revisions,
            src : Inventories, admin : Revisions, fp : Inventories]

TypeOK ==
    /\ raw \in Inventories /\ built \in Inventories
    /\ project \in Project
    /\ admin \in [on : BOOLEAN, rev : Revisions, backlog : Backlogs]
    /\ scans \subseteq Revisions
    /\ work \in [Items -> Work]
    /\ res \in [Names -> Reservation]
    /\ slot \in Names \cup {None, OtherRun}
    /\ manual \in [phase : {"none", "accepted", "running"}, taken : Inventories]
    /\ disp \in [Dispatchers -> Reading]
    /\ disturbed \in 0 .. MaxDisturbed /\ raced \in BOOLEAN

Idle == [pc |-> "idle", item |-> None, on |-> FALSE, rev |-> 1, src |-> 0,
         admin |-> 1, fp |-> 0]

NoRun == [src |-> 0, intent |-> "none", exec |-> "none", taken |-> 0]

\* Of an ended reservation only its name and how it ended are read again.
Over(intent) == [NoRun EXCEPT !.intent = intent]

\* Both switches have been put on, and the project has no sources yet.
Init ==
    /\ raw = 0 /\ built = 0
    /\ project = [on |-> TRUE, rev |-> 1, src |-> 0, status |-> "pending",
                  blocked |-> None, blockedAdmin |-> 0, consumed |-> None,
                  consumedSrc |-> 0, backlog |-> "complete"]
    /\ admin = [on |-> TRUE, rev |-> 1, backlog |-> "complete"]
    /\ scans = {}
    /\ work = [i \in Items |-> [pending |-> FALSE, attempts |-> 0, holder |-> None]]
    /\ res = [n \in Names |-> NoRun]
    /\ slot = None
    /\ manual = [phase |-> "none", taken |-> 0]
    /\ disp = [d \in Dispatchers |-> Idle]
    /\ disturbed = 0 /\ raced = FALSE

\* Bound: both switches together.
Switchable == admin.rev + project.rev < MaxSwitches + 2

\* Bound: something fails, or a manual run comes in between.
Disturb == disturbed < MaxDisturbed /\ disturbed' = disturbed + 1

On == project.on /\ admin.on

\* profileruntime.Enqueue writes the whole item: attempts and lease start anew.
Queued == [pending |-> TRUE, attempts |-> 0, holder |-> None]

-----------------------------------------------------------------------------
(* Sources: a write, and later its confirmation by the journal.            *)

Write ==
    /\ raw < MaxWrites
    /\ raw' = raw + 1
    /\ UNCHANGED <<built, project, admin, scans, work, res, slot, manual, disp, disturbed, raced>>

Confirm ==
    /\ project.src < raw
    /\ project' = [project EXCEPT !.src = @ + 1,
                                  !.status = IF On THEN "pending" ELSE "not_started_disabled"]
    /\ work' = [work EXCEPT ![<<"source", 0, project.src + 1>>] = Queued]
    /\ UNCHANGED <<raw, built, admin, scans, res, slot, manual, disp, disturbed, raced>>

-----------------------------------------------------------------------------
(* The switches.  A request names the revision it saw; one that lost the   *)
(* race changes nothing, so a switch that changes goes the other way.      *)

SwitchAdmin ==
    /\ Switchable
    /\ admin' = [on |-> ~admin.on, rev |-> admin.rev + 1,
                 backlog |-> IF admin.on THEN "paused" ELSE "pending"]
    /\ scans' = IF admin.on THEN scans ELSE scans \cup {admin.rev + 1}
    /\ UNCHANGED <<raw, built, project, work, res, slot, manual, disp, disturbed, raced>>

\* (bug) switching on queues nothing: what changed meanwhile waits for a write.
SwitchProjectSilently ==
    /\ Switchable
    /\ IF project.on
       THEN project' = [project EXCEPT !.on = FALSE, !.rev = @ + 1, !.backlog = "paused"]
       ELSE project' = [project EXCEPT !.on = TRUE, !.rev = @ + 1, !.backlog = "pending",
                                       !.blocked = None, !.blockedAdmin = 0,
                                       !.status = "pending"]
    /\ UNCHANGED <<raw, built, admin, scans, work, res, slot, manual, disp, disturbed, raced>>

SwitchProject ==
    /\ Switchable
    /\ IF project.on
       THEN /\ project' = [project EXCEPT !.on = FALSE, !.rev = @ + 1, !.backlog = "paused"]
            /\ UNCHANGED work
       ELSE /\ project' = [project EXCEPT !.on = TRUE, !.rev = @ + 1, !.backlog = "pending",
                                          !.blocked = None, !.blockedAdmin = 0,
                                          !.status = "pending"]
            /\ work' = [work EXCEPT ![<<"toggle", 0, project.rev + 1>>] = Queued]
    /\ UNCHANGED <<raw, built, admin, scans, res, slot, manual, disp, disturbed, raced>>

\* The scan of an admin revision reaches the project.  A scan that was
\* overtaken by another revision is dropped and its document stays pending.
Scan(a) ==
    /\ a \in scans
    /\ scans' = scans \ {a}
    /\ IF admin.on /\ admin.rev = a
       THEN /\ admin' = [admin EXCEPT !.backlog = "complete"]
            /\ IF project.on
               THEN /\ work' = [work EXCEPT ![<<"backlog", a, project.src>>] = Queued]
                    /\ project' = [project EXCEPT
                                     !.backlog = IF @ = "pending" THEN "complete" ELSE @]
               ELSE UNCHANGED <<work, project>>
       ELSE UNCHANGED <<admin, work, project>>
    /\ UNCHANGED <<raw, built, res, slot, manual, disp, disturbed, raced>>

-----------------------------------------------------------------------------
(* A dispatcher and one work item (executePipelineAutomation).             *)

Goto(d, pc) == disp' = [disp EXCEPT ![d].pc = pc]

\* The item is claimed and the project document read; an item whose attempts
\* are used up is given up instead.
Claim(d, i) ==
    /\ disp[d].pc = "idle" /\ work[i].pending /\ work[i].holder = None
    /\ IF work[i].attempts >= MaxAttempts
       THEN /\ work' = [work EXCEPT ![i].pending = FALSE]
            /\ UNCHANGED disp
       ELSE /\ work' = [work EXCEPT ![i].attempts = @ + 1, ![i].holder = d]
            /\ disp' = [disp EXCEPT ![d] = [Idle EXCEPT !.pc = "admin", !.item = i,
                           !.on = project.on, !.rev = project.rev, !.src = project.src]]
    /\ UNCHANGED <<raw, built, project, admin, scans, res, slot, manual, disturbed, raced>>

\* The admin's document is another read: the two need not be of one moment.
\* Nothing is left to do for a project that is off; one whose sources are all
\* in the published wiki (pendingWorkForProject) has its backlog completed.
ReadAdmin(d) ==
    /\ disp[d].pc = "admin"
    /\ disp' = [disp EXCEPT ![d].admin = admin.rev,
                            ![d].pc = IF ~(disp[d].on /\ admin.on) THEN "finish"
                                      ELSE IF raw = built THEN "backlog" ELSE "fingerprint"]
    /\ UNCHANGED <<raw, built, project, admin, scans, work, res, slot, manual, disturbed, raced>>

\* The fingerprint is of the inventory as it is now, and is only used if no
\* run holds the slot.
ReadFingerprint(d) ==
    /\ disp[d].pc = "fingerprint"
    /\ disp' = [disp EXCEPT ![d].fp = raw,
                            ![d].pc = IF slot # None THEN "wait" ELSE "reserve"]
    /\ UNCHANGED <<raw, built, project, admin, scans, work, res, slot, manual, disturbed, raced>>

NameOf(d) == <<disp[d].fp, disp[d].rev, disp[d].admin>>

Blocked(fp) == project.blocked = fp /\ project.blockedAdmin = admin.rev

\* What was read still holds, and the inventory was neither processed nor
\* failed under these switches.
Admits(d) ==
    /\ On /\ ~Blocked(disp[d].fp) /\ project.consumed # disp[d].fp
    /\ project.rev = disp[d].rev /\ admin.rev = disp[d].admin
    /\ project.src = disp[d].src

\* The reservation is created under its name, so a name that was used is an
\* error.
Reserve(d) ==
    /\ disp[d].pc = "reserve"
    /\ IF ~Admits(d) THEN Goto(d, "refused") /\ UNCHANGED <<res, slot, project>>
       ELSE IF slot # None THEN Goto(d, "busy") /\ UNCHANGED <<res, slot, project>>
       ELSE IF res[NameOf(d)].intent # "none"
            THEN Goto(d, "error") /\ UNCHANGED <<res, slot, project>>
       ELSE /\ res' = [res EXCEPT ![NameOf(d)] = [NoRun EXCEPT !.src = project.src,
                                                               !.intent = "ready"]]
            /\ slot' = NameOf(d)
            /\ project' = [project EXCEPT !.status = "preparing"]
            /\ Goto(d, "backlog")
    /\ UNCHANGED <<raw, built, admin, scans, work, manual, disturbed, raced>>

\* Nothing was reserved: the item waits while another run holds the slot, and
\* is finished otherwise, whatever the refusal was for.
Refused(d) ==
    /\ disp[d].pc \in {"refused", "busy"}
    /\ Goto(d, IF slot # None THEN "wait" ELSE "backlog")
    /\ raced' = (raced \/ (slot = None /\ Admits(d)))
    /\ UNCHANGED <<raw, built, project, admin, scans, work, res, slot, manual, disturbed>>

\* completeProjectAutomationBacklog, for the item that switching on queued.
BacklogLookedAt(d) ==
    /\ disp[d].pc = "backlog" /\ disp[d].item[1] = "toggle"
    /\ project.on /\ project.rev = disp[d].rev /\ project.backlog = "pending"

\* (bug) a wait ends the item.
AfterWaitNot(w, pc) ==
    CASE pc \in {"finish", "backlog", "wait"} -> [w EXCEPT !.pending = FALSE, !.holder = None]
      [] pc = "error"  -> [w EXCEPT !.pending = w.attempts < MaxAttempts, !.holder = None]

\* What finish makes of a work item: a wait gives its attempt back, an error
\* keeps it and may be the last.
After(w, pc) ==
    CASE pc \in {"finish", "backlog"} -> [w EXCEPT !.pending = FALSE, !.holder = None]
      [] pc = "wait"   -> [w EXCEPT !.attempts = @ - 1, !.holder = None]
      [] pc = "error"  -> [w EXCEPT !.pending = w.attempts < MaxAttempts, !.holder = None]

\* An item that was enqueued again meanwhile has lost its token and stays as
\* it is.
Finish(d) ==
    /\ disp[d].pc \in {"finish", "backlog", "wait", "error"}
    /\ project' = IF BacklogLookedAt(d) THEN [project EXCEPT !.backlog = "complete"] ELSE project
    /\ work' = IF work[disp[d].item].holder = d
               THEN [work EXCEPT ![disp[d].item] = After(@, disp[d].pc)] ELSE work
    /\ disp' = [disp EXCEPT ![d] = Idle]
    /\ UNCHANGED <<raw, built, admin, scans, res, slot, manual, disturbed, raced>>

\* A read fails or the instance dies: the item is due again with one attempt
\* less.
Crash(d) ==
    /\ disp[d].pc # "idle" /\ Disturb
    /\ work' = IF work[disp[d].item].holder = d
               THEN [work EXCEPT ![disp[d].item].holder = None] ELSE work
    /\ disp' = [disp EXCEPT ![d] = Idle]
    /\ UNCHANGED <<raw, built, project, admin, scans, res, slot, manual, raced>>

Step(d) ==
    \/ ReadAdmin(d) \/ ReadFingerprint(d) \/ Reserve(d) \/ Refused(d) \/ Finish(d)

-----------------------------------------------------------------------------
(* The run of a reservation, as far as PipelineQuota leaves it open.       *)

\* Why a ready intent is not started; "source" if only the sources changed.
PauseReason(n) ==
    IF ~On \/ n[2] # project.rev \/ n[3] # admin.rev THEN "switch"
    ELSE IF project.src # res[n].src THEN "source"
    ELSE IF project.blocked = n[1] /\ project.blockedAdmin = n[3] THEN "failure"
    ELSE "none"

\* The intent's start (BeginPipelineIntentInvocation), or its pause.
Begin(n) ==
    /\ res[n].intent = "ready" /\ slot = n
    /\ IF PauseReason(n) = "none"
       THEN /\ res' = [res EXCEPT ![n].intent = "invoking"]
            /\ project' = [project EXCEPT !.status = "running"]
            /\ UNCHANGED <<slot, work>>
       ELSE /\ res' = [res EXCEPT ![n] = Over("cancelled")]
            /\ slot' = None
            /\ IF PauseReason(n) = "source"
               THEN /\ work' = [work EXCEPT ![<<"source", 0, project.src>>] = Queued]
                    /\ project' = [project EXCEPT !.status = "pending"]
               ELSE /\ project' = [project EXCEPT !.status = "paused"]
                    /\ UNCHANGED work
    /\ UNCHANGED <<raw, built, admin, scans, manual, disp, disturbed, raced>>

\* A preparation or a start that failed for certain.
FailIntent(n) ==
    /\ res[n].intent \in {"ready", "invoking"} /\ Disturb
    /\ res' = [res EXCEPT ![n] = Over("failed")]
    /\ slot' = IF slot = n THEN None ELSE slot
    /\ project' = [project EXCEPT !.status = "failed", !.blocked = n[1],
                                  !.blockedAdmin = n[3]]
    /\ UNCHANGED <<raw, built, admin, scans, work, manual, disp, raced>>

\* The provider starts a worker, which takes the sources as they are then.
Start(n) ==
    /\ res[n].intent = "invoking"
    /\ res' = [res EXCEPT ![n].intent = "compiling", ![n].exec = "running", ![n].taken = raw]
    /\ UNCHANGED <<raw, built, project, admin, scans, work, slot, manual, disp, disturbed, raced>>

Succeed(n) ==
    /\ res[n].exec = "running"
    /\ res' = [res EXCEPT ![n].exec = "SUCCEEDED"]
    /\ built' = res[n].taken
    /\ UNCHANGED <<raw, project, admin, scans, work, slot, manual, disp, disturbed, raced>>

Abort(n, status) ==
    /\ res[n].exec = "running" /\ Disturb
    /\ res' = [res EXCEPT ![n].exec = status]
    /\ UNCHANGED <<raw, built, project, admin, scans, work, slot, manual, disp, raced>>

Ended == {"SUCCEEDED", "FAILED", "CANCELLED"}
IntentOf(status) == CASE status = "SUCCEEDED" -> "succeeded"
                      [] status = "FAILED"    -> "failed"
                      [] status = "CANCELLED" -> "cancelled"

\* (bug) the project is told the revision it has now, not the one that ran.
OutcomeNow(n, p) ==
    CASE res[n].exec = "SUCCEEDED" ->
           [p EXCEPT !.consumed = n[1], !.consumedSrc = p.src, !.status = "published",
                     !.blocked = None, !.blockedAdmin = 0]
      [] res[n].exec = "FAILED" ->
           [p EXCEPT !.blocked = n[1], !.blockedAdmin = n[3], !.status = "failed"]
      [] res[n].exec = "CANCELLED" -> [p EXCEPT !.status = "cancelled"]

\* What the project is told of an ended run.
Outcome(n, p) ==
    CASE res[n].exec = "SUCCEEDED" ->
           [p EXCEPT !.consumed = n[1], !.consumedSrc = res[n].src, !.status = "published",
                     !.blocked = None, !.blockedAdmin = 0]
      [] res[n].exec = "FAILED" ->
           [p EXCEPT !.blocked = n[1], !.blockedAdmin = n[3], !.status = "failed"]
      [] res[n].exec = "CANCELLED" -> [p EXCEPT !.status = "cancelled"]

\* SettleQuotaReservationInTransactionWithResult: changes that were confirmed
\* while the run was on are queued again.
Settle(n) ==
    /\ res[n].intent = "compiling" /\ res[n].exec \in Ended
    /\ res' = [res EXCEPT ![n] = Over(IntentOf(res[n].exec))]
    /\ slot' = IF slot = n THEN None ELSE slot
    /\ IF project.src > res[n].src /\ On /\ res[n].exec # "CANCELLED"
       THEN /\ project' = [Outcome(n, project) EXCEPT !.status = "pending"]
            /\ work' = [work EXCEPT ![<<"source", 0, project.src>>] = Queued]
       ELSE /\ project' = Outcome(n, project)
            /\ UNCHANGED work
    /\ UNCHANGED <<raw, built, admin, scans, manual, disp, disturbed, raced>>

Run(n) ==
    \/ Begin(n) \/ Start(n) \/ Succeed(n) \/ Settle(n)

-----------------------------------------------------------------------------
(* A manual or scheduled run of the project takes the same slot.           *)

ManualReserve ==
    /\ slot = None /\ Disturb
    /\ slot' = OtherRun
    /\ manual' = [manual EXCEPT !.phase = "accepted"]
    /\ UNCHANGED <<raw, built, project, admin, scans, work, res, disp, raced>>

ManualMaterialize ==
    /\ manual.phase = "accepted"
    /\ manual' = [manual EXCEPT !.phase = "running", !.taken = raw]
    /\ UNCHANGED <<raw, built, project, admin, scans, work, res, slot, disp, disturbed, raced>>

\* It was never started, failed, or published what it took.
ManualEnd ==
    /\ manual.phase # "none"
    /\ manual' = [manual EXCEPT !.phase = "none", !.taken = 0]
    /\ slot' = None
    /\ \/ UNCHANGED built
       \/ manual.phase = "running" /\ built' = manual.taken
    /\ UNCHANGED <<raw, project, admin, scans, work, res, disp, disturbed, raced>>

-----------------------------------------------------------------------------
Manual == ManualReserve \/ ManualMaterialize \/ ManualEnd

Next ==
    \/ Write \/ Confirm \/ SwitchAdmin \/ SwitchProject
    \/ \E a \in scans : Scan(a)
    \/ \E d \in Dispatchers :
         (\E i \in Items : Claim(d, i)) \/ Step(d) \/ Crash(d)
    \/ \E n \in Names :
         Run(n) \/ FailIntent(n) \/ \E s \in {"FAILED", "CANCELLED"} : Abort(n, s)
    \/ Manual

Spec == Init /\ [][Next]_vars

\* The scheduler keeps sweeping the queue, in whatever order, and its scans; a
\* ready intent is taken (IntentIsTaken of PipelineQuota); the provider ends
\* what it has started, at its task timeout at the latest; and an ended run is
\* settled (EndedRunSettles of PipelineQuota).  Nobody has to write or to use a
\* switch, a write need not be confirmed, and an invocation need not reach the
\* provider: one that is lost holds the slot for good.
FairSpec ==
    /\ Spec
    /\ WF_vars(\E a \in scans : Scan(a))
    /\ WF_vars(\E d \in Dispatchers, i \in Items : Claim(d, i))
    /\ \A d \in Dispatchers : WF_vars(Step(d))
    /\ WF_vars(\E n \in Names : Begin(n))
    /\ WF_vars(\E n \in Names :
                 Succeed(n) \/ \E s \in {"FAILED", "CANCELLED"} : Abort(n, s))
    /\ WF_vars(\E n \in Names : Settle(n))
    /\ WF_vars(manual.phase = "running" /\ ManualEnd)

-----------------------------------------------------------------------------
(* Properties.                                                             *)

\* What the project is told was processed is in the published wiki, although
\* the sources change while a run is prepared, started and settled, and runs
\* of other kinds publish in between.
ProcessedIsBuilt ==
    /\ built >= project.consumedSrc
    /\ project.consumed # None => built >= project.consumed

\* The stored sources are not what the wiki was compiled from, although every
\* change is confirmed and both switches are on, and nothing is on its way to
\* process them.
Forgotten ==
    /\ On /\ project.src = raw /\ built # raw
    /\ slot = None /\ scans = {}
    /\ \A i \in Items : ~work[i].pending

\* The user is shown a failure of just this inventory, or the name its
\* reservation would have is that of one that was cancelled or failed, or an
\* item was given up as refused when the reason of its refusal had gone.
Excused ==
    \/ Blocked(raw)
    \/ res[<<raw, project.rev, admin.rev>>].intent \in {"cancelled", "failed"}
    \/ raced

\* A confirmed change is queued, running, processed or excused, whatever the
\* order of its confirmation, the switches, the scan and the run it meets.
ChangeIsKept == Forgotten => Excused

\* "When both auto-pipeline switches are on, changed content is processed
\* automatically" (messages/en.json), with no excuse but a failure or a
\* cancelled execution the user is shown.
ChangeIsProcessedAutomatically ==
    Forgotten => Blocked(raw) \/ project.status \in {"failed", "cancelled"}

\* Automation's runs and the manual and scheduled ones in between share the
\* slot that PipelineQuota implements, and rely on nothing else of it: a ready
\* intent is invoked, cancelled, failed or settled without a second execution,
\* and without one that goes on after the slot was given back.
Slot == INSTANCE RunSlot WITH
            Runs    <- Names \cup {OtherRun},
            Nobody  <- None,
            holder  <- slot,
            spent   <- IF slot \in Names THEN res[slot].exec # "none"
                                         ELSE manual.phase = "running",
            running <- {n \in Names : res[n].exec = "running"}
                       \cup {n \in {OtherRun} : manual.phase = "running"}

ImplementsRunSlot == Slot!SlotSpec

\* A run was invoked, and whether the provider has it nobody knows (yet).
Unheard == (\E n \in Names : res[n].intent = "invoking") \/ manual.phase = "accepted"

\* With the switches left on, every confirmed change is in the wiki in the end,
\* unless it is excused or an invocation nobody hears of holds the slot: the
\* work items that wait for a run, the retries and the dispatchers that die
\* do not lose it, and it does not wait for a run that has ended.
ChangeIsProcessed ==
    []<>(~On \/ project.src # raw \/ built = raw \/ Excused \/ Unheard)

=============================================================================
