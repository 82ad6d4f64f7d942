# A verification of llm-wiki-cloud

TLA+ modules of the parts of llm-wiki-cloud in which concurrent requests,
workers, retries and crashes meet on shared state; the TLC configurations that
check them on small instances; and theorems, checked by TLAPS, that hold for
every size. `src/` below is the root of the repository.

Contents: the system (1), the plan (2), the eight modelled parts (3-10), the
fairness they assume (11), the disagreements found (12), the proofs (13), what is
left out (14).

## 1. The system

llm-wiki-cloud turns a user's documents into a wiki. A Go service (`bff`) serves
the web application, a command line and MCP clients; Cloud Run jobs do the long
work; Firestore holds the state and Cloud Storage the objects. Several instances
of the service run at once, so nothing that matters is in memory: correctness
rests on Firestore transactions, on generation preconditions of objects, on
leases, and on reconcilers that finish what a dead process began.

| Part | State | Operations | What is hard | Modelled in |
|---|---|---|---|---|
| Export jobs (`internal/exportjob`, `cmd/export_worker`) | job documents, a project's state document, idempotency keys, temporary and ready archives | create, start, claim, promote, complete, fail, list; bucket lifecycle | a start that fails and runs all the same, a second execution, a lost commit, deadlines | `ExportJob`, `ExportSlot`, `ExportJobProofs` |
| Source journal (`internal/sourceautomation/journal.go` and all writers of raw objects) | events, a path's watermark, the project's source revision, object generations | prepare, write, confirm, reconcile, record no change | reads before transactions, confirmations out of order, crashes between the steps | `SourceJournal`, `ChangeFeed`, `SourceJournalProofs` |
| Document import (`internal/documentimport`, `cmd/document_import_worker`, its work in `profile_runtime.go`) | record, work item, counters, objects, event | submit, dispatch, claim, convert, save, associate, delete | two leases (record, work item), attempts, a slow worker, partial saves | `DocumentImport`, `DocumentLife`, `DocumentImportProofs` |
| Pipeline admission (`internal/firestore/quota.go`, `pipeline_intent.go`, `scheduled_pipeline.go`, `pipeline_quota_reconciler.go`) | a quota document with the run slot, reservations, daily entitlement, failure markers, work, executions | run, retry, trigger, sweep, begin, invoke, link, release, settle | an invocation of unknown outcome, late acceptance, reuse of a day's reservation id, refunds in any order | `PipelineQuota`, `RunSlot`, `PipelineQuotaProofs` |
| Pipeline automation (`pipeline_automation*.go`, its part of `quota.go`) | two switches with revisions, scans, backlog, failure block, source_commit reservations | switch, scan, admit, begin or cancel, settle | a change that arrives while an earlier one is admitted, started or settled | `PipelineAutomation`, `RunSlot`, `PipelineAutomationProofs` |
| Cloud publication (`cmd/olw_worker`, `internal/generation`, the evidence the service reads) | lease object, manifest, receipts, diagnostics | acquire, probe, reclaim, commit, read back, record, release | reclaim races, lost commit answers, writes that land after their sender has died | `CloudPublication`, `PublishedChain`, `CloudPublicationProofs` |
| Command line sessions (`internal/auth/refresh_session.go`, `cli_auth.go`, `cmd/sync`) | sessions, the machine's credentials file and its locks | log in, refresh, retry, save, clear, log out, revoke | several commands and one file, lost answers, rotation of a token in use | `CliSession`, `CliSessionProofs` |
| MCP protection (`internal/mcpquota`, `mcp_preflight.go`) | three admission records per call, the slots and the gate of a process | admit, look back, work, release | late commits, retries, clocks that differ, two policies at once | `MCPAdmission`, `MCPAdmissionProofs` |
| The native manager, queries, profiles, ... | see `PROJECT.json`, "components" | | | not modelled, section 14 |

How they interact. Every writer of a raw object goes through the source
journal. A document import's worker is one of those writers. A committed change
queues automation's work, which becomes a run. All pipeline runs of a project,
whoever asks for them, pass the one slot of the quota document and are settled by
one reconciler, on the evidence that the worker's publication leaves. The durable
queue of `internal/profileruntime` drives document imports, journal reconciles,
automation and pipeline intents: it claims an item under a lease, executes it and
finishes it in a transaction, and gives it up after a number of attempts. Exports,
sessions and the protection of MCP calls are independent of the rest.

The modules meet where the parts do, by promise: `PipelineAutomation` starts from
what `SourceJournal` and `PipelineQuota` are checked to promise (a confirmed change is
queued; a ready intent is invoked or failed, an ended run is settled), and
`PipelineQuota` takes from `CloudPublication` that what is said of an execution is
true. Two composed modules would multiply state spaces that are in the
millions each. Where the promise is a behaviour it is a module of its own: `RunSlot` is
implemented by `PipelineQuota`, with its callers and its reconciler, and by the coarser
slot that `PipelineAutomation` works with, so automation uses the slot in no way that
admission was not shown to allow.

`PROJECT.json` lists the hazards of the code by line, each with the properties
that would notice it going wrong, or with the reason why none does.

## 2. The plan

Done, in this order: exports with their abstract slot and proofs; the source
journal; document imports; pipeline admission; automation; cloud publication with
its abstract chain; sessions of the command line; proofs of the journal, of
publication, of the sessions, of pipeline admission, of automation and of
document imports; protection of MCP calls with its proof; the abstract run slot
and the two modules that implement it; the abstract life of a document, the abstract
feed of changes, and their refinements.

Left:

1. The native manager (`internal/localpipeline/manager.go`): its executions, locks and
   results that are retried.

Runs that ask one question of one module are joined where their bounds agree, so
the number of runs stays small. What is proved and shown by no other run is left
to the proof.

Conventions. Each Firestore transaction, object operation or provider call is one
action, and what a process read stays in its local variables until it acts on it.
A process may crash between any two of its steps. A call that changes state may
fail before it, or lose its answer after it. Time is either a clock with a bound,
or timers that count down. Operators marked "(bug)" are mutations: each changes
one definition the way a plausible mistake would, and the property named beside
it in `PROJECT.json` then fails; no specification uses them.

## 3. Export jobs

`ExportJob` is one project. `status`, `deadline` and `completed` are the job
documents; `active`, `latest`, `current`, `previous` and `lastSuccess` the project's
state document; `idem` and `keyOf` the idempotency keys; `wpc` and the other `w`
variables what each execution holds in memory; `ready` the bucket. `Admit`, `Claim`,
`Complete` and `Fail` are the four transactions of `firestore.go`; `WriteTmp`,
`StampTmp` and `CopyReady` the steps of `publish.go`; `ExpireReady` and `ExpireTmp` the
bucket's rules. `ExportSlot` is what the API promises: one slot, held until a
deadline, and publications a cooldown apart.

`export_races`: two exports, two executions of each start, a clock of six ticks.
Two exports are enough for every race there is between an old export and its
successor; a third repeats them, and the proofs have no bound. The durations keep
the order the code has (22 h of work < 23 h deadline < 24 h cooldown and temporary
objects < 72 h retention). It checks that live jobs and the state document agree
(`LiveIsActive`), the exclusive claim (`OneWorkerPerExport`), archives behind ready
jobs (`ReadyHasArchive`), that `GET` and `POST` decide alike (`EligibilityAgrees`), the
bucket's rule against slow workers (`TmpOutlivesCopy`), `ListsNewest`, and that
`ExportJob` implements `ExportSlot`. Without keys, which only repeat an answer: that a
key names one export (`KeyNamesOneExport`) is proved, like the distance of two
successes (`SuccessSpacing`) and the finality of outcomes (`FinishedStays`).

## 4. Source journal

`SourceJournal` is one path of one project: `stored` its generations, `event` one
document per operation, `current` the watermark, `revision` and `announced` the
counter and what it last stood for, `writer` the operations, `held` what each
confirmer has read. `Prepare`, `Look`, `Write`, `ConfirmRead`, `Commit`, `Leave` are an operation's
steps; `ReconcileNow`, `Answer`, `Settle` and `ReconcileQueued` the ways an unfinished
one is settled. Any of its reads and transactions may fail (`StoreFails`): a confirmation
is then followed by one reconcile, a reconcile by nothing, except that `add_raw` ignores
the error and looks for itself (`AfterReconcile`).

`journal_fresh`: three operations with different contents: an MCP `add_raw` (it
settles by equivalence), a document import's save, which is re-run under its id
after a crash, and a CLI sync (its precondition comes from the client). Three
writers are what a confirmation that is overtaken twice needs.
`NamesStoredContent`: the watermark and each committed event name a generation that
had that content. `ChangeIsQueued`: when all is settled, the last content was
announced, unless it is that of an operation that took its own write for one that was there
before: an import in its second run, or an `add_raw` whose write landed without an answer
and whose reconcile failed (`TookOwnForOld`, section 12). `ImplementsFeed`: all of it
implements `ChangeFeed`, which is what the pipeline is promised: an operation is closed
once, with a generation that had its content or without one, at the revision the project
has then; and each revision stands for one content that was really stored, differs from
the one before and is not older. That the watermark never goes back (`WatermarkAdvances`)
is part of it and also proved by itself.

Assumed: one process at a time works for an operation, a write does not land after
its process has left, nothing deletes raw objects, and generations are numbered
from 1. A queued reconcile may be tried any number of times.

## 5. Document import

`DocumentImport` has the record (`rec`), its work item (`work`), the project's
counters, the requests, dispatchers and workers, and timers for the two leases.
The journal's event is reduced to its state. Each record transaction of
`documentimport/firestore.go` is an action or an operator of one; `ClaimWork`,
`Finish` and `ExhaustWork` are the queue's.

- `document_one`: one document, two dispatchers and two workers: `OneConversion`
  (two workers never convert at once, whichever lease ran out), `OutcomeIsTrue`
  (what the record says of the source is what the journal decided),
  `WorkRemembered`, `FailuresCounted` (the project's failures are those of its
  documents, through retries and deletions), and `ImplementsLife`. Leases of one or
  two units and two attempts let each lease run out in each phase and let the
  attempts be used up. A second document shares only the counter, which
  transactions keep.
- `document_live`: an accepted document ends (`AcceptedEnds`), a deletion that was
  asked for is carried out (`DeletionEnds`), with every process free to die.

`DocumentLife` is what the user is promised: a document is accepted, converted by one
execution at a time, and failed or converted once; only what was converted becomes a
source, even if the answer was lost and the user was told that it is not one; what has
no source can be removed, and a failure counts until then. Queue, leases, attempts and
crashes are steps that change nothing in it, or end executions. That outcomes stay
(`OutcomeStays`, with the place of a failure and all of a deleted document) is proved.

Assumed: a document's raw path is its own, a worker is gone by the platform's task
timeout, which is its record lease, and a request is one attempt (a client's retry
is another).

## 6. Pipeline admission

`PipelineQuota` is one project of one user, as deployed on Cloud Run. `quota` is the
quota document: the slot `active`, the day's `runs` and the cooldown clock `last`.
`res` are the reservations with their settlement, attempt, intent status and
execution; `used` the scheduled entitlement of a day; `marker` the objects that say
an invocation never started; `work` the queue's items; `call` the step of each
request, sweep and dispatcher; `sent` invocations the provider has yet to decide;
`execs` its executions; `rec` what a reconciler has read.

A manual run is admitted (`Run`, `Retry`), its work is queued and a ready intent
is started by the request (`Continue`); a dispatcher prepares the guidance and starts
it otherwise (`Claim`, `Prepared`). `Begin` lets one continuation cross the boundary.
An admin trigger (`Trigger`) and a scheduled sweep (`SweepStart`, `SweepReserve`)
have no intent. `Invoke` may be refused for good, answered, or left without an
answer, and the provider may accept an invocation its caller has given up. A
refused one is released (`Rejected`) or marked (`Mark`). The reconciler reads a pending
reservation (`RecRead`), then a marker or an execution, and releases, links or settles
from what it read, whatever has happened since.

- `pipeline_races`: two manual runs, an admin trigger and two sweeps, of which any two
  are asked for (the constraint `Pairs`), one reconciler, three ticks over a midnight,
  a limit and a cooldown of one. A conflict on the slot is between the run that holds
  it and the next, so pairs show each; that the budget also adds up over more runs
  is left to the proof. Checked: the slot is held by the one unsettled reservation
  (`SlotIsPending`); running and possibly starting executions hold it
  (`RunsHoldSlot`); the document is what the reservations add up to
  (`BudgetIsExact`); refunds and charges are deserved (`ChargeIsDeserved`); and all of
  it is one slot that is taken, started once and given back when nothing runs
  (`ImplementsRunSlot`).
- `pipeline_live`: one intent with its request, a dispatcher and a reconciler, no clock:
  `InvokedOnce`, `EndedRunSettles`, `IntentIsTaken`.
- `pipeline_marker` (a violation): see section 12.

Abstracted: checks that can only refuse more (a running execution found at the
provider, pending work, demo users) are left out; the queue's attempts may be used up
at any time (`Exhaust`), and its lease may run out under a slow dispatcher; a
request's clock and its transaction share a tick, a sweep's do not; an execution that
failed after its publication was committed is the status `cleanup_failed`; the
status documents of schedules and the diagnostics are not kept.

## 7. Pipeline automation

`PipelineAutomation` is one project. `raw` is the stored inventory and `built` the one
the published wiki was compiled from; `project` and `admin` the two documents with the
switches, their revisions, the source revision and what was last processed or
failed; `scans` the scans of an admin revision that are not complete; `work` the queue's
items, which are named by what queued them; `res` the source_commit reservations,
named, like the code's, by fingerprint and both switches' revisions; `slot` the run
slot; `disp` what a dispatcher has read. Every write brings a new content, so an
inventory and its fingerprint are the number of writes it holds.

`SwitchAdmin`, `SwitchProject` and `Scan` are the handlers of the switches and of the
scan; `Claim`, `ReadAdmin`, `ReadFingerprint`, `Reserve`, `Refused` and `Finish` the steps
of a work item, each read a step of its own; `Begin` starts an intent or pauses it, and
`Settle` tells the project how the run ended and queues what was confirmed meanwhile. A
manual run may hold the slot, and publish, in between.

- `automation_live`: two writes, two uses of the switches, one disturbance (a crash, a
  failed or cancelled run, a manual run), one dispatcher and two attempts. Two writes
  give the change that is processed and the one that arrives meanwhile.
  `ProcessedIsBuilt`: what the project is told was processed is in the published wiki.
  `ChangeIsKept`: when all is quiet with both switches on, an unprocessed inventory has
  one of the excuses of `Excused`: its failure is shown; a reservation of its name
  failed or was cancelled before (section 12); or a run that held the slot gave it back
  between the refusal and the second look at it, so that the item took the refusal for
  another one and gave up. `ChangeIsProcessed`: with the switches left on, each
  confirmed change is in the wiki in the end, with the same excuses and one more: an
  invocation that nobody has heard of (`Unheard`) may hold the slot for ever.
- `automation_lost` (a violation): see section 12.

`ImplementsRunSlot` says of the slot of this module what it says of `PipelineQuota`'s; it
is proved (section 13).

One disturbance less than attempts: what several failures in a row use up is the
queue's rule, checked in `DocumentImport`.

## 8. Cloud publication

`CloudPublication` has one project's `lease` object, its manifest (`top`, and `commit`,
the generation of each execution's own), `receipt` and `diagnostic` per execution, the
workers' steps and what they have read (`worker`), the manifest writes on their way
(`inflight`), and a request of the service that reads the evidence (`reader`). An
execution creates the lease, or inspects who holds it, asks Cloud Run whether that one
still lives (`Probe`), deletes the lease of a dead one at the generation it read and
creates its own. It reads the manifest it starts from, compiles, and replaces the
manifest on condition that it is still that one; an answer that is lost is looked for by
reading back (`Confirm`). `Land` may come after its sender has died. The service looks
at the receipt, the manifest and the diagnostic, in this order.

`PublishedChain` is what all this is for: generations form one unbroken chain in
which an execution has one place at most, and whoever was told "committed" or
"absent" was told the truth, for ever.

`publication_races`: three executions, three faults (a death, a lost answer or a failed
call each), which is what two reclaims of the same dead holder need, and one lost
answer on top. `LeaseIsExclusive`; `RefusedByTheLiving` (a lease left behind stops
nobody: a refused run met one that ran after it arrived, or its own lease);
`ConflictNeedsFault` (without a fault nobody compiles in vain); `ImplementsChain`.

Not in it: the local content context, which is written after the lease is released,
and the time between a lease create that lands late and its caller's end.

## 9. Sessions of the command line

`CliSession` is one machine and the server's sessions of its user. `session` holds the
number of the current refresh token and whether the one before it is still good for
a retry; `file` the credentials file; `lock` the refresh lock; `command` what each
running command has read; `requests` what is on its way, some of it for nobody. A
command loads the file, is told that its access token is no good, takes the lock,
looks at the file again, asks the server, saves if the file is still what it began
with, and at its end clears or restores what it began with (`withStoredCredentials`). A
logout sends the token and tries once more with what is stored by then. Logins
overwrite. The server's `RotateCLISession` and `RevokeCLISessionWithRefreshToken` are
the transactions `Refreshed` and `LoggedOut`.

`session_races`: two commands at a time, two sessions, two rotations of each, one fault.
`StoredIsUsable`: what is stored is never of a session the user was told is logged out,
and while its session is active the server renews it, by a rotation or by a retry and
always to the same successor, or a command is about to store that successor. It is lost
in one case: a fault kept a rotation's answer from being stored, and the retry window (30 s,
`refresh_session.go:130`) has closed; the user then logs in again.
`StaysLoggedIn`: without a fault or a revocation no command costs another the login.

## 10. Protection of MCP calls

`MCPAdmission` has the shared records (`record`: a bucket of tokens, the limits it was
last given, and a lease per call, as the time it expires), and per call its step and
the clock and the real time it began at. A record belongs to a project of an account, to
an account, or to the fleet. A call takes a slot of its process (`Enter`), waits for the
process's gate (`PassGate`), and its transaction (`Commit`) prunes, limits and refills
the three records, decides, and writes a lease and a lower bucket into each. The answer
may be lost and the transaction tried again under the same id (`Unanswered`,
`TryAgain`); at the end the leases are looked for (`LookBack`), and without them the call
is turned away (`GiveUp`) while its transaction may still commit. `Close`, `Release`,
`Closed` and `CloseFails` are the end. A transaction carries the clock its call
began with, a release any clock up to the one furthest ahead.

`admission_skew`: three calls of one account in two projects, on two processes of which
one has a newer policy, tighter for the account and the fleet and looser for a project;
clocks that differ by the margin between a call's work and its lease (10 s in
`ValidateMCPProtection`, one unit here), and one fault. Three calls are what one that is
left behind, one that works and one that comes between them need.
`HoldsLease`: work within its time has leases that no process prunes.
`WithinEveryPolicy`: work in flight is within the policy of every call in flight.
`WithinRate`: admissions are bounded by one bucket and the refill of the time since.
`CountsItsCalls`, `LeavesNothing`, `LeasesEnd`: what ends a call gives back its slot and
its leases, what a fault leaves behind ends with the lease, and a process's gate is held
by the one call that is at it, on every path by which a call leaves it.

Abstracted: the two classes share nothing, and one of them is modelled; the bytes that a
call may hold in memory are left out (`Lease.ReserveBytes`: one counter, two locks); waits and
timeouts may take any time; a transaction that was given up may commit on what the
records hold by then, which allows more than Firestore does.

## 11. Fairness

- Exports, the journal, publication, sessions and MCP calls: none is assumed. What they
  are checked for is safety; an export's deadline and a call's lease end without
  anybody acting.
- Documents: time passes, and the scheduler's sweep keeps coming
  (`profile_runtime.go`, `Dispatch`). Nothing that a sweep starts has to succeed.
  `DeletionEnds` holds if the user stops asking for the deletion again.
- Pipeline: each instance's reconciler runs on a ticker and its lookups succeed at some
  time; dispatchers do not all crash for ever; a caller takes its next step or
  crashes. Nobody has to ask for a run and a lost invocation stays lost: for those
  the code promises nothing, see the hazards.
- Automation: the queue and the scans are swept and a dispatcher takes its next step; a
  ready intent is taken and an ended run settled, as `IntentIsTaken` and
  `EndedRunSettles` say of `PipelineQuota`; and a worker that runs ends, at the task timeout
  of its job at the latest. Not assumed: that a write is confirmed (the journal is checked
  for safety, and the property is about confirmed changes), that an invocation reaches
  the provider (the property excuses it), that anybody writes or uses a switch.

## 12. Disagreements

- `automation_lost`, `ChangeIsProcessedAutomatically`: a reservation's id is made of the
  fingerprint and the switches' revisions, not of the source revision
  (`pipeline_automation_runtime.go:79`). If the inventory already holds a write that is
  confirmed before the intent starts, the reservation is cancelled, the new
  revision computes the same id, and its creation fails until the work is given up,
  although "When both auto-pipeline switches are on, changed content is processed
  automatically" (`en.json:1523`).
- `pipeline_marker`, `MarkedIsReleased`: the marker of a refused intent carries the
  intent's attempt id (`pipeline_intent.go:222`), while a marker confirms a reservation
  that is not scheduled only without one (`invoke_failure.go:58`, and the comment at
  line 13). The marker of an intent confirms nothing, and the slot stays taken. With
  the comparison replaced by one of the attempt ids the property holds.

Two more, without a run of their own:

- `apps/bff/cmd/olw_worker/DESIGN.md:136-142` and `207-211` say that a worker whose
  manifest write or readback is ambiguous "writes no failed diagnostic object".
  `recordCloudAmbiguousManifestFailure` (`cloud_publish.go:1723`) writes one. It names the
  publication stage, which a reader takes for "unknown" (`PublicationOutcomeForStage`), so
  no outcome is falsified: `ImplementsChain` holds with it (`Confirm` in
  `CloudPublication`).
- An `add_raw` whose write landed without an answer, and whose reconcile fails, finds its own
  write, takes it for one that was there before and confirms that nothing changed
  (`mcp_raw.go:144-149`, `164-167`, `journal.go:208`), although the tool says that "a
  changed source file is queued for incremental processing" (`mcp_raw.go:96`).
  `ChangeIsQueued` has to except it (`TookOwnForOld`); without the exception `journal_fresh`
  finds it.

Noted, since nothing in the repository says otherwise:

- a journal reconcile takes any object of the expected content for the operation's own
  write (`journal.go:475`), so that content that comes back may be announced too early
  and not again;
- a re-run of an operation takes its own first write for one that was there before
  (`journal.go:208`);
- a document's save that is tried again ends as not saved on a transient error before it
  looks at the event its first try committed (`documentimport/worker.go:86`);
- a start that times out may have launched the job of a document that is then given up
  (`profile_runtime.go:768`);
- one reservation whose lookup keeps failing ends every pass of the reconciler before the
  ones after it (`pipeline_quota_reconciler.go:47`);
- the lease of an MCP call is closed by a plain call, so that a recovered panic keeps it
  (`mcp_preflight.go:120`);
- a committed run whose receipt is missing is "unknown" for ever once its manifest is
  replaced (`localcloud/publication.go:12`);
- a refresh whose commit fails is answered with 401, on which the client clears
  credentials that are good (`cli_auth.go:600`), and one that is killed before it stores
  the answer leaves a token that is refused once the retry window has closed
  (`refresh_session.go:356`).

## 13. Proofs

All safety properties the passing runs check are proved for every value of the
constants. Each proof has an inductive invariant, one lemma per
action or per kind of step, and one theorem per property.

`ExportJobProofs` assumes the order of the durations (`ConstantsAssumption`). `IndInv`
adds what the documents and the workers know of one another: the active export is
live and was admitted a cooldown after the last success (`ActiveIsLive`: without it
`Complete` might publish too early); a worker that holds a stamp works on an export
admitted before that stamp, and its temporary object is as old as its own start at
most (`WorkersKnow`); successes are not newer than `lastSuccess` (`SuccessesPast`); the
two slots of the list hold the last two successes (`SlotsHoldLast`). The refinement of
`ExportSlot` needs `IndInv` at each step: a `Complete` is a `Publish` because the
invariant says who holds the slot and since when.

`SourceJournalProofs`: `IndInv` says that whatever an operation or a reconciler has read
was so (`Known`): the generation it will commit had the operation's content. That
gives `NamesStoredContent`, `WatermarkAdvances` and the refinement of `ChangeFeed`: a
transaction closes its operation with what was read before it began, and only the
comparison with the watermark decides whether that is announced. `ChangeIsQueued` is proved
(`NothingLeftBehind`) for operations that write contents of their own (`Distinct`, in the
theorem's statement), and is false without it (section 12). `QueueInv` follows each
operation that is not re-run: before its write nothing of its content is stored; after it,
the event is still open, or the watermark reached that generation, or the operation is an
`add_raw` that took its own write for an older one (`Queued`). That no other operation
confirms its own write as one that was there is part of it (`Progress`).

`CloudPublicationProofs` has four invariants, each resting on the one before.
`LeaseInv`: a worker under the lease is the one the lease object names, at the
generation it remembers, and a delete is only ever prepared against a holder that has
ended, which stays ended. `EvidenceInv`: what receipt, diagnostic and the worker's step
say of its manifest; a diagnostic "before" excludes a write on its way. It gives the
refinement of `PublishedChain`. `AloneInv` follows an execution nobody else disturbed,
`CalmInv` a system without faults.

`CliSessionProofs`: `IndInv` relates what each command holds to what the server has issued
(`Holds`, `CommandInv`), what is on its way to who sent it (`RequestInv`), and the file to
both (`FileInv`). The idea is that within a session the file only gets newer, so a
command that finds it different from what it began with finds something better, and
that the one request that may be ahead of the file belongs to the holder of the lock. So
the session is one rotation ahead of the file at most, and `StoredIsUsable` follows from
what the server does with the current token and with the one before it.
`Calm` is the part about runs without faults.

`PipelineQuotaProofs` covers any number of runs, sweeps, dispatchers and reconcilers,
any day length, limit and cooldown. `IndInv` is `TypeOK` and `ControlInv`: the slot is
the pending reservation (`SlotInv`); each caller works on what it reserved
(`CallerInv`); a reservation is invoked by one caller, once (`OnceInv`, `UnsentInv`); a
settled one keeps its settlement (`ResInv`); what a marker or a reconciler's reading
lets it release is an attempt that is over and started nothing (`MarkInv`, `RecInv`);
what runs is pending (`RunInv`). The heart is that nothing that was started is ever
released: a sweep that reserves a day again has another attempt id, and a release names
the attempt it read. One lemma (`GoOn`) serves all steps that start nothing and free
nothing for another, one (`Take`) the admissions; `Begin`, `Invoke`, `Accept` and `End`
have their own. It uses that a marker of an intent confirms nothing (section 12); if it
did, it would have to be shown of intents, too, that a refused start stays refused.

`BudgetIsExact` has an invariant of its own, `BudgetInv`, on top of `IndInv`. The document's
clock is the time of the newest run that counts, and a refund puts back the clock the
run found when it was admitted. This is right for one reason only: the run in the slot is
the only one that is not settled, so nothing was admitted since (`SlotInv`), and what it
found is still the newest of the others. Every step leaves the budget alone, charges a
run, returns it or admits one (`StepEffect`); there is one lemma for each. The count of a day
holds because a day that was left never comes back (`DayInv`).

The refinement of `RunSlot` splits the steps in two kinds (`StepMoves`): one moves the slot
and no execution (`SlotMoves`: it is taken when free, or given back by what settles its
reservation), the other moves an execution and no slot. The first is a `Take` or a
`GiveBack` because of `SlotInv` and `RunInv`: a reservation that is released has no execution,
one that is settled has none that runs. The second is a `Start` because an invocation is
accepted once, and while its reservation holds the slot.

`PipelineAutomationProofs` covers any number of dispatchers, writes, uses of the
switches and attempts, as long as there are fewer disturbances than attempts
(`AutomationAssumption`). `IndInv` adds to the types that a live reservation holds the
slot and its worker took what was stored by then (`RunInv`), what a dispatcher has read
(`ReadingOf`) and who holds an item (`HolderOf`); it gives `ProcessedIsBuilt`. `KeptInv`
is `ChangeIsKept` at every moment instead of only when all is quiet: while the published
wiki is behind, somebody answers for the stored inventory. That is an item with attempts
left which nobody holds, or which a dispatcher holds whose reading is still true
(`InCharge`, `Promising`); the scan of the current revision; the run of just this
inventory; or an excuse. For `RunSlot`, `HoldersWork` says that whatever runs, of either
kind, is the holder of the slot.

`DocumentImportProofs` covers any number of documents, requests, dispatchers and
workers, and any durations in the code's order (`ImportAssumption`). `RecInv` relates a
record to the journal and says that whatever is settled has no lease; `RunInv` that a
converting worker has the record's lease and is gone before it runs out, or works
in vain for a document that was given up; `DispInv` the same of a dispatcher and its
item, and that a deletion that is asked for takes the item from whoever held it.
From the two leases follow `OneConversion` and `WorkRemembered`; from the absence of a
lease, that no late worker touches an outcome (`OutcomeStays`). `FailuresCounted`
needs that a record is counted in the transaction that makes it fail, and is shown
with the cardinality of the set of failed records.

The refinement of `DocumentLife` goes by what a step may touch: the phase of a document,
its executions, its source, its removal (`PhaseKept`, `BusyKept`, `SourceKept`,
`RemovedKept`). A step leaves all of them alone for all documents (`LifeRests`), or moves one
document (`PhaseMoves`); only time ends executions of several at once. It needs `IndInv`
three times: a conversion begins where no other is (`OneConversion`), a commit finds a
converted document (`RunInv`, or the raw object behind the event), and "saved" is only
reported after the commit.

`MCPAdmissionProofs` covers any number of calls, processes and policies, any rates, and
any difference of clocks that the margin of the leases covers (`PolicyAssumption`).
`RecordInv`: a record's limits are within the policy of each lease it holds, its leases
within its limits, its times within the clock that is furthest ahead (`Sound`), and what
was paid plus what is left is at most what the rate has given (`Paid`). `CallInv`: leases that
were granted to a call that is not closed last longer than its work, by the difference of
the clocks. So no commit prunes a lease that is needed (`WrittenStep`), and the limits
that a record keeps while it holds leases count all the work there is. `LuckyInv` is the
part about calls no fault has hit. `GateInv` says who is at a process's gate, and gives its
part of `CountsItsCalls` (`SlotsCounted`).

Model-checked only: liveness, which the prover cannot do. That every
variable keeps its type (`TypeOK` of each module) is proved for each module, so the runs
do not repeat it. Proved without a run of their own, because a run that states more shows
them or because they are cheap to prove: the keys and the spacing of exports (section 3),
`WatermarkAdvances` (4), `OutcomeStays` (5), and `ImplementsRunSlot` of the automation (7).

## 14. What is not modelled

What a ZIP, a page, a prompt or an answer contains; parsing, rendering and wording; the
converter; the query side, which keeps no state; the frontend; configuration, deployment
and one-time commands. These are data, pure I/O or run by one operator. The worker's
reconciliation of sources and concepts is a transformation of one workspace under one
lease: its algorithms may be worth checking against reference definitions. Browser
sessions are single transactions over one session and one replay record. The native
manager and native publication are the counterparts, for a single host, of the pipeline
and of publication as modelled here. The vault bindings of the command line, which tie a
directory to a project, are left out. `PROJECT.json` gives the reason for each part.
