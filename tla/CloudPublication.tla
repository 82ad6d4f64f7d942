--------------------------- MODULE CloudPublication ---------------------------
(***************************************************************************)
(* Publication of a project's wiki by Cloud Run executions of the worker   *)
(* (cmd/olw_worker): the lease object and its reclaim, the manifest that   *)
(* is replaced on condition of its generation, the read-back of a write    *)
(* whose answer is lost, the receipt and the failure diagnostic, and what  *)
(* the BFF makes of them (handler/v1/endpoints.go).                        *)
(*                                                                         *)
(* An execution publishes once at most, so its generation is named after   *)
(* it; the n-th manifest object that is committed has generation n.        *)
(***************************************************************************)
EXTENDS Integers

CONSTANTS
    Executions,
    NoOne,
    MaxFaults    \* bound: deaths, lost answers and failed calls together

ASSUME PublicationAssumption == NoOne \notin Executions /\ MaxFaults \in Nat

VARIABLES
    lease,     \* the lease object: its holder and its generation
    leases,    \* how many lease objects there have been
    worker,    \* a worker's control state and what it has read
    inflight,  \* executions whose manifest write is on its way
    top,       \* the generation of the current manifest, 0 for none
    commit,    \* the generation of an execution's manifest, 0 for none
    receipt,   \* the publication receipt: the generation it names, 0 for none
    diagnostic,\* the stage named by an execution's failure diagnostic
    reader,    \* a BFF request that looks for the evidence of an execution
    told,      \* auxiliary: what was ever said of an execution but "unknown"
    alone,     \* auxiliary: nobody else ran since the execution arrived
    faults

vars == <<lease, leases, worker, inflight, top, commit, receipt, diagnostic, reader,
          told, alone, faults>>
leaseVars == <<lease, leases>>
storeVars == <<top, commit, receipt, diagnostic>>
auxVars   == <<reader, told, alone>>

Acquiring == {"create", "inspect", "probe", "delete", "recreate"}
Holding   == {"read", "build", "sent", "confirm", "receipt", "sources", "release",
              "release_failed"}
Verdicts  == {"committed", "absent"}
Stages    == {"none", "before", "publish", "receipt", "cleanup"}

Lease  == [holder : Executions \cup {NoOne}, gen : Nat]
Worker == [pc : Acquiring \cup Holding \cup {"new", "ended", "refused"},
           mine : Nat, seen : Lease, base : Nat]

TypeOK ==
    /\ lease \in Lease /\ leases \in Nat
    /\ worker \in [Executions -> Worker]
    /\ inflight \subseteq Executions
    /\ top \in Nat /\ commit \in [Executions -> Nat] /\ receipt \in [Executions -> Nat]
    /\ diagnostic \in [Executions -> Stages]
    /\ reader \in [pc : {"idle", "receipt", "manifest", "diagnostic"},
                   of : Executions \cup {NoOne}]
    /\ told \in [Executions -> SUBSET Verdicts]
    /\ alone \in [Executions -> BOOLEAN]
    /\ faults \in 0 .. MaxFaults

NoLease == [holder |-> NoOne, gen |-> 0]

Init ==
    /\ lease = NoLease /\ leases = 0
    /\ worker = [e \in Executions |-> [pc |-> "new", mine |-> 0, seen |-> NoLease, base |-> 0]]
    /\ inflight = {} /\ top = 0
    /\ commit = [e \in Executions |-> 0] /\ receipt = [e \in Executions |-> 0]
    /\ diagnostic = [e \in Executions |-> "none"]
    /\ reader = [pc |-> "idle", of |-> NoOne]
    /\ told = [e \in Executions |-> {}]
    /\ alone = [e \in Executions |-> FALSE]
    /\ faults = 0

Running(e) == worker[e].pc \notin {"new", "ended", "refused"}

\* Bound: a call that goes wrong.
Well(ok) == IF ok THEN UNCHANGED faults
            ELSE faults < MaxFaults /\ faults' = faults + 1

Goto(e, pc) == worker' = [worker EXCEPT ![e].pc = pc]

\* A worker goes on with other knowledge of leases, or without any.
Become(e, pc, mine, seen) ==
    worker' = [worker EXCEPT ![e] = [pc |-> pc, mine |-> mine, seen |-> seen, base |-> @.base]]

Stop(e, pc) == Become(e, pc, 0, NoLease)

\* The create-only diagnostic of a failure, if its write succeeds.
Record(e, stage, written) ==
    diagnostic' = IF written THEN [diagnostic EXCEPT ![e] = stage] ELSE diagnostic

-----------------------------------------------------------------------------
(* The lease.                                                              *)

\* Cloud Run starts the execution.
Arrive(e) ==
    /\ worker[e].pc = "new"
    /\ Goto(e, "create")
    /\ alone' = [f \in Executions |-> f = e /\ ~\E g \in Executions : Running(g)]
    /\ UNCHANGED <<leaseVars, inflight, storeVars, reader, told, faults>>

\* The lease object is written if there is none.  If the answer is lost, the
\* call fails, or the client's own retry meets the lease that it wrote.
CreateLease(e, next, heard) ==
    /\ IF lease = NoLease
       THEN /\ lease' = [holder |-> e, gen |-> leases + 1]
            /\ leases' = leases + 1
            /\ IF heard
               THEN Become(e, "read", leases + 1, NoLease)
               ELSE Stop(e, "ended") \/ Stop(e, next)
            /\ Well(heard)
       ELSE /\ heard
            /\ Stop(e, next)
            /\ UNCHANGED <<leaseVars, faults>>
    /\ UNCHANGED <<inflight, storeVars, auxVars>>

Create(e, heard)   == worker[e].pc = "create" /\ CreateLease(e, "inspect", heard)
Recreate(e, heard) == worker[e].pc = "recreate" /\ CreateLease(e, "refused", heard)

\* Whose lease is it?  One that is gone may be created again.
Inspect(e) ==
    /\ worker[e].pc = "inspect"
    /\ Become(e, IF lease = NoLease THEN "recreate" ELSE "probe", 0, lease)
    /\ UNCHANGED <<leaseVars, inflight, storeVars, auxVars, faults>>

\* (bug) only the holder itself takes its lease back.
ReclaimableOwn(e) == worker[e].seen.holder = e

\* (bug) any holder but the requester is taken for dead.
ReclaimableOthers(e) == worker[e].seen.holder # e

\* allowLeaseReclaim: Cloud Run says that the holder has ended, or never was.
Reclaimable(e) == ~Running(worker[e].seen.holder)

Probe(e) ==
    /\ worker[e].pc = "probe"
    /\ IF Reclaimable(e) THEN Goto(e, "delete") ELSE Stop(e, "refused")
    /\ UNCHANGED <<leaseVars, inflight, storeVars, auxVars, faults>>

\* (bug) whatever lease is there is deleted.
DeletesAny(gen) == TRUE

\* A delete names the generation it means.
Deletes(gen) == lease.gen = gen

\* The lease of a dead holder is deleted; if somebody else was faster, the
\* create will tell.
DeleteLease(e) ==
    /\ worker[e].pc = "delete"
    /\ lease' = IF Deletes(worker[e].seen.gen) THEN NoLease ELSE lease
    /\ Stop(e, "recreate")
    /\ UNCHANGED <<leases, inflight, storeVars, auxVars, faults>>

\* A create, read, probe or delete on the way to the lease gives no answer.
AcquireFails(e) ==
    /\ worker[e].pc \in Acquiring /\ Well(FALSE)
    /\ lease' \in {lease, IF worker[e].pc = "delete" /\ Deletes(worker[e].seen.gen)
                          THEN NoLease ELSE lease}
    /\ Stop(e, "ended")
    /\ UNCHANGED <<leases, inflight, storeVars, auxVars>>

\* The project's inputs are read before the lease is asked for.
FailInputs(e, written) ==
    /\ worker[e].pc = "create" /\ Well(FALSE)
    /\ Record(e, "before", written)
    /\ Stop(e, "ended")
    /\ UNCHANGED <<leaseVars, inflight, top, commit, receipt, auxVars>>

-----------------------------------------------------------------------------
(* The generation.                                                         *)

\* materializeCloudWorkspace reads the manifest the run starts from.
ReadManifest(e) ==
    /\ worker[e].pc = "read"
    /\ worker' = [worker EXCEPT ![e] = [pc |-> "build", mine |-> @.mine, seen |-> @.seen,
                                         base |-> top]]
    /\ UNCHANGED <<leaseVars, inflight, storeVars, auxVars, faults>>

\* The generation is compiled, its objects and its archived manifest are written
\* under names of their own; then the manifest is, if it is still the one that
\* was read at the start.
SendManifest(e) ==
    /\ worker[e].pc = "build"
    /\ inflight' = inflight \cup {e}
    /\ Goto(e, "sent")
    /\ UNCHANGED <<leaseVars, storeVars, auxVars, faults>>

\* (bug) the manifest is written unconditionally.
ReplacesAny(e) == TRUE

Replaces(e) == worker[e].base = top

\* The write takes effect or is refused, possibly after its sender is dead.
Land(e) ==
    /\ e \in inflight
    /\ inflight' = inflight \ {e}
    /\ IF Replaces(e)
       THEN /\ top' = top + 1
            /\ commit' = [commit EXCEPT ![e] = top + 1]
       ELSE UNCHANGED <<top, commit>>
    /\ UNCHANGED <<leaseVars, worker, receipt, diagnostic, auxVars, faults>>

\* The answer is heard, or the call ends in an error: a refusal, a time-out of
\* a write that took effect, or of one that still may.
Answer(e, heard) ==
    /\ worker[e].pc = "sent"
    /\ heard => e \notin inflight
    /\ Goto(e, IF heard /\ commit[e] # 0 THEN "receipt" ELSE "confirm")
    /\ Well(heard)
    /\ UNCHANGED <<leaseVars, inflight, storeVars, auxVars>>

\* A failure before publication begins, of the success it records in its
\* workspace, or of an upload before the manifest is written.
FailBuild(e, stage, written) ==
    /\ worker[e].pc \in {"read", "build"} /\ Well(FALSE)
    /\ worker[e].pc = "read" => stage = "before"
    /\ Record(e, stage, written)
    /\ Goto(e, "release_failed")
    /\ UNCHANGED <<leaseVars, inflight, top, commit, receipt, auxVars>>

\* confirmManifestCommit: the manifest is read back.  It is this run's, another
\* one, or cannot be read; the last two prove nothing.
Confirm(e, readable, written) ==
    /\ worker[e].pc = "confirm"
    /\ Well(readable /\ written)
    /\ IF readable /\ top # 0 /\ commit[e] = top
       THEN Goto(e, "receipt") /\ UNCHANGED diagnostic
       ELSE Goto(e, "release_failed") /\ Record(e, "publish", written)
    /\ UNCHANGED <<leaseVars, inflight, top, commit, receipt, auxVars>>

\* The receipt names the generation of the committed manifest.  A run whose
\* receipt fails ends without a diagnostic.
WriteReceipt(e, stored, heard) ==
    /\ worker[e].pc = "receipt" /\ (heard => stored)
    /\ receipt' = IF stored THEN [receipt EXCEPT ![e] = commit[e]] ELSE receipt
    /\ Goto(e, IF heard THEN "sources" ELSE "release_failed")
    /\ Well(heard)
    /\ UNCHANGED <<leaseVars, inflight, top, commit, diagnostic, auxVars>>

\* The source receipts are merged into the project's (mergeCloudSuccess), and the
\* compile receipt is written, whose failure leaves no diagnostic.
WriteSources(e, ok, written) ==
    /\ worker[e].pc = "sources"
    /\ Goto(e, IF ok THEN "release" ELSE "release_failed")
    /\ Record(e, "receipt", written /\ ~ok)
    /\ Well(ok)
    /\ UNCHANGED <<leaseVars, inflight, top, commit, receipt, auxVars>>

\* The lease is deleted.  A committed run that hears of no success says that
\* only the clean-up failed.
Release(e, deleted, heard, written) ==
    /\ worker[e].pc \in {"release", "release_failed"} /\ (heard => deleted)
    /\ lease' = IF deleted /\ Deletes(worker[e].mine) THEN NoLease ELSE lease
    /\ Record(e, "cleanup", written /\ ~heard /\ worker[e].pc = "release")
    /\ Stop(e, "ended")
    /\ Well(heard)
    /\ UNCHANGED <<leases, inflight, top, commit, receipt, auxVars>>

\* The execution ends wherever it is; its manifest write may still arrive.
Die(e) ==
    /\ Running(e) /\ Well(FALSE)
    /\ Stop(e, "ended")
    /\ UNCHANGED <<leaseVars, inflight, storeVars, auxVars>>

-----------------------------------------------------------------------------
(* The BFF: cloudRunPublicationOutcome.                                    *)

Tell(e, verdict) ==
    /\ told' = [told EXCEPT ![e] = @ \cup ({verdict} \ {"unknown"})]
    /\ reader' = [pc |-> "idle", of |-> NoOne]

Ask(e) ==
    /\ reader.pc = "idle" /\ worker[e].pc # "new"
    /\ reader' = [pc |-> "receipt", of |-> e]
    /\ UNCHANGED <<leaseVars, worker, inflight, storeVars, told, alone, faults>>

LookAtReceipt ==
    /\ reader.pc = "receipt"
    /\ IF receipt[reader.of] # 0
       THEN Tell(reader.of, "committed")
       ELSE reader' = [reader EXCEPT !.pc = "manifest"] /\ UNCHANGED told
    /\ UNCHANGED <<leaseVars, worker, inflight, storeVars, alone, faults>>

LookAtManifest ==
    /\ reader.pc = "manifest"
    /\ IF top # 0 /\ commit[reader.of] = top
       THEN Tell(reader.of, "committed")
       ELSE reader' = [reader EXCEPT !.pc = "diagnostic"] /\ UNCHANGED told
    /\ UNCHANGED <<leaseVars, worker, inflight, storeVars, alone, faults>>

\* PublicationOutcomeForStage: what the stage of a failure proves.
PublicationOutcomeForStage(stage) ==
    CASE stage = "before"  -> "absent"
      [] stage = "cleanup" -> "committed"
      [] OTHER             -> "unknown"

LookAtDiagnostic ==
    /\ reader.pc = "diagnostic"
    /\ Tell(reader.of, PublicationOutcomeForStage(diagnostic[reader.of]))
    /\ UNCHANGED <<leaseVars, worker, inflight, storeVars, alone, faults>>

\* A read fails: nothing can be said.
LookFails ==
    /\ reader.pc # "idle"
    /\ Tell(reader.of, "unknown")
    /\ UNCHANGED <<leaseVars, worker, inflight, storeVars, alone, faults>>

Look == LookAtReceipt \/ LookAtManifest \/ LookAtDiagnostic \/ LookFails
-----------------------------------------------------------------------------
Work(e) ==
    \/ \E heard \in BOOLEAN : Create(e, heard) \/ Recreate(e, heard)
    \/ Inspect(e) \/ Probe(e) \/ DeleteLease(e)
    \/ ReadManifest(e) \/ SendManifest(e)
    \/ \E heard \in BOOLEAN : Answer(e, heard)
    \/ \E readable, written \in BOOLEAN : Confirm(e, readable, written)
    \/ \E stored, heard \in BOOLEAN : WriteReceipt(e, stored, heard)
    \/ \E ok, written \in BOOLEAN : WriteSources(e, ok, written)
    \/ \E deleted, heard, written \in BOOLEAN : Release(e, deleted, heard, written)

Fail(e) ==
    \/ AcquireFails(e)
    \/ \E written \in BOOLEAN :
         \/ FailInputs(e, written)
         \/ \E stage \in {"before", "receipt", "publish"} : FailBuild(e, stage, written)
    \/ Die(e)

Next ==
    \/ \E e \in Executions : Arrive(e) \/ Work(e) \/ Fail(e) \/ Land(e) \/ Ask(e)
    \/ Look

Spec == Init /\ [][Next]_vars

-----------------------------------------------------------------------------
(* Properties.                                                             *)

\* Of all that run, one at most works under the lease, and the lease is its
\* own: a reclaim never takes it from a living holder, however the reads,
\* probes and deletes of several requesters are interleaved.
LeaseIsExclusive ==
    \A e \in Executions :
        worker[e].pc \in Holding => lease = [holder |-> e, gen |-> worker[e].mine]

\* A lease that a dead execution left behind stops nobody: a run is only
\* refused if another one ran after it arrived, or was running then, or if the
\* lease it met is its own.
RefusedByTheLiving ==
    \A e \in Executions : worker[e].pc = "refused" => ~alone[e] \/ lease.holder = e

\* The lease spares the work: as long as nothing fails, no run compiles a
\* generation only to find that another manifest was published meanwhile.
ConflictNeedsFault ==
    faults = 0 => \A e \in Executions : worker[e].pc \notin {"confirm", "release_failed"}

\* The generations form one unbroken chain, each compiled from the one before
\* it, and what the BFF says of an execution is true and stays true, although
\* manifest writes may arrive after their sender has died.
Chain == INSTANCE PublishedChain WITH
            last   <- top,
            place  <- commit,
            parent <- [e \in Executions |-> IF commit[e] = 0 THEN 0 ELSE worker[e].base]

ImplementsChain == Chain!ChainSpec
=============================================================================
