--------------------------- MODULE ExportJobProofs ---------------------------
(***************************************************************************)
(* Machine-checked proofs about ExportJob: its inductive invariant, the    *)
(* safety properties it implies for any number of exports and executions   *)
(* and any durations that meet ConstantsAssumption, and the refinement of  *)
(* ExportSlot.                                                             *)
(***************************************************************************)
EXTENDS ExportJob, TLAPS

USE ConstantsAssumption DEF NoTime, Live, Terminal, Statuses, Working,
    jobVars, stateVars, idemVars, apiVars, wkVars

(***************************************************************************)
(* Each action preserves the inductive invariant.                          *)
(***************************************************************************)

\* While the project cools down no export is active, so a denied Admit has
\* nothing to time out.  An admission leaves the finished exports alone and
\* makes the new one the only live one.
LEMMA AdmitInv ==
    ASSUME IndInv, NEW j \in Jobs, NEW k \in Keys \cup {NoKey}, Admit(j, k)
    PROVE  IndInv'
<1>1. CASE CoolingDown
  <2>1. active = NoJob
    BY <1>1 DEF IndInv, TypeOK, ActiveIsLive, CoolingDown
  <2>2. status' = status
    BY <1>1, <2>1 DEF IndInv, TypeOK, Admit, TimedOut
  <2>3. UNCHANGED vars
    BY <1>1, <2>2 DEF Admit, vars
  <2> QED
    BY <2>3 DEF vars, IndInv, TypeOK, LiveIsActive, ActiveIsLive, WorkersKnow,
                WorkerKnows, OneWorkerPerExport, SuccessesPast,
                SuccessSpacing, ReadyHasArchive, SlotsHoldLast
<1>2. CASE ~CoolingDown
  <2>1. /\ status' = [i \in Jobs |->
                        IF i = j THEN "queued"
                        ELSE IF i = active /\ status[i] \in Live THEN "failed"
                        ELSE status[i]]
        /\ status[j] = "none"
        /\ deadline' = [deadline EXCEPT ![j] = now + JobDeadline]
        /\ active' = j /\ latest' = j
        /\ UNCHANGED <<now, completed, current, previous, lastSuccess, runs,
                       wkVars, ready>>
    BY <1>2 DEF IndInv, TypeOK, Admit, TimedOut
  <2>2. TypeOK'
    <3>1. idem' \in [Keys -> Jobs \cup {NoJob}]
      BY <1>2 DEF IndInv, TypeOK, Admit, TimedOut
    <3>2. keyOf' \in [Jobs -> Keys \cup {NoKey}]
      BY <1>2 DEF IndInv, TypeOK, Admit, TimedOut
    <3>3. api' \in [Jobs -> {"idle", "admitted", "start_failed"}]
      BY <1>2 DEF IndInv, TypeOK, Admit, TimedOut
    <3>4. status' \in [Jobs -> Statuses]
      BY <2>1 DEF IndInv, TypeOK
    <3>5. deadline' \in [Jobs -> Nat]
      BY <2>1 DEF IndInv, TypeOK
    <3> QED
      BY <2>1, <3>1, <3>2, <3>3, <3>4, <3>5 DEF IndInv, TypeOK
  <2>3. \A i \in Jobs : /\ status'[i] \in Live => i = j
                        /\ status'[i] = "ready" <=> status[i] = "ready"
    BY <2>1 DEF IndInv, LiveIsActive
  <2>4. LiveIsActive'
    BY <2>1, <2>3 DEF LiveIsActive
  <2>5. ActiveIsLive'
    BY <1>2, <2>1 DEF IndInv, TypeOK, ActiveIsLive, CoolingDown
  <2>6. WorkersKnow'
    BY <2>1 DEF IndInv, TypeOK, WorkersKnow, WorkerKnows
  <2>7. OneWorkerPerExport'
    BY <2>1 DEF IndInv, OneWorkerPerExport
  <2>8. SuccessesPast' /\ SuccessSpacing' /\ ReadyHasArchive'
    BY <2>1, <2>3 DEF IndInv, SuccessesPast, SuccessSpacing, ReadyHasArchive
  <2>9. SlotsHoldLast'
    BY <2>1, <2>3 DEF IndInv, TypeOK, SlotsHoldLast
  <2> QED
    BY <2>2, <2>4, <2>5, <2>6, <2>7, <2>8, <2>9 DEF IndInv
<1> QED
  BY <1>1, <1>2

\* The start call touches no document and no object.
LEMMA StartInv ==
    ASSUME IndInv, NEW j \in Jobs, NEW launched \in BOOLEAN, NEW ok \in BOOLEAN, Start(j, launched, ok)
    PROVE  IndInv'
<1>1. TypeOK'
  BY DEF IndInv, TypeOK, Start
<1>2. LiveIsActive' /\ ActiveIsLive' /\ WorkersKnow' /\ OneWorkerPerExport'
      /\ SuccessesPast' /\ SuccessSpacing' /\ ReadyHasArchive' /\
      SlotsHoldLast'
  BY DEF IndInv, LiveIsActive, ActiveIsLive, WorkersKnow, WorkerKnows,
    OneWorkerPerExport, SuccessesPast, SuccessSpacing, ReadyHasArchive,
    SlotsHoldLast, Start
<1> QED
  BY <1>1, <1>2 DEF IndInv

\* A failed start ends the export, unless a worker already finished it.
LEMMA FailStartInv ==
    ASSUME IndInv, NEW j \in Jobs, FailStart(j)
    PROVE  IndInv'
<1>1. TypeOK'
  BY DEF IndInv, TypeOK, FailStart, Fail
<1>2. LiveIsActive'
  BY DEF IndInv, TypeOK, LiveIsActive, FailStart, Fail
<1>3. ActiveIsLive'
  BY DEF IndInv, TypeOK, ActiveIsLive, FailStart, Fail
<1>4. WorkersKnow'
  BY DEF IndInv, TypeOK, WorkersKnow, WorkerKnows, FailStart, Fail
<1>5. SuccessesPast' /\ SuccessSpacing'
  BY DEF IndInv, TypeOK, SuccessesPast, SuccessSpacing, FailStart, Fail
<1>6. ReadyHasArchive'
  BY DEF IndInv, TypeOK, ReadyHasArchive, FailStart, Fail
<1>7. SlotsHoldLast'
  BY DEF IndInv, TypeOK, SlotsHoldLast, FailStart, Fail
<1>8. OneWorkerPerExport'
  BY DEF IndInv, OneWorkerPerExport, FailStart, Fail
<1> QED
  BY <1>1, <1>2, <1>3, <1>4, <1>5, <1>6, <1>7, <1>8 DEF IndInv

\* A dying request leaves the documents as they are.
LEMMA HandlerCrashInv ==
    ASSUME IndInv, NEW j \in Jobs, HandlerCrash(j)
    PROVE  IndInv'
<1>1. TypeOK'
  BY DEF IndInv, TypeOK, HandlerCrash
<1>2. LiveIsActive' /\ ActiveIsLive' /\ WorkersKnow' /\ OneWorkerPerExport'
      /\ SuccessesPast' /\ SuccessSpacing' /\ ReadyHasArchive' /\
      SlotsHoldLast'
  BY DEF IndInv, LiveIsActive, ActiveIsLive, WorkersKnow, WorkerKnows,
    OneWorkerPerExport, SuccessesPast, SuccessSpacing, ReadyHasArchive,
    SlotsHoldLast, HandlerCrash
<1> QED
  BY <1>1, <1>2 DEF IndInv

\* So does an execution that never claims the export.
LEMMA RunLostInv ==
    ASSUME IndInv, NEW j \in Jobs, RunLost(j)
    PROVE  IndInv'
<1>1. TypeOK'
  BY DEF IndInv, TypeOK, RunLost
<1>2. LiveIsActive' /\ ActiveIsLive' /\ WorkersKnow' /\ OneWorkerPerExport'
      /\ SuccessesPast' /\ SuccessSpacing' /\ ReadyHasArchive' /\
      SlotsHoldLast'
  BY DEF IndInv, LiveIsActive, ActiveIsLive, WorkersKnow, WorkerKnows,
    OneWorkerPerExport, SuccessesPast, SuccessSpacing, ReadyHasArchive,
    SlotsHoldLast, RunLost
<1> QED
  BY <1>1, <1>2 DEF IndInv

\* Only a queued export is claimed, and no execution works on a queued one.
LEMMA ClaimInv ==
    ASSUME IndInv, NEW w \in Workers, NEW j \in Jobs, NEW heard \in BOOLEAN, Claim(w, j, heard)
    PROVE  IndInv'
<1>1. TypeOK'
  BY DEF IndInv, TypeOK, Claim, ClaimError, Overdue
<1>2. LiveIsActive'
  BY DEF IndInv, TypeOK, LiveIsActive, Claim, ClaimError, Overdue
<1>3. ActiveIsLive'
  BY DEF IndInv, TypeOK, ActiveIsLive, LiveIsActive, Claim, ClaimError,
    Overdue
<1>4. WorkersKnow'
  BY DEF IndInv, TypeOK, WorkersKnow, WorkerKnows, ActiveIsLive, LiveIsActive,
    Claim, ClaimError, Overdue
<1>5. OneWorkerPerExport'
  BY DEF IndInv, TypeOK, OneWorkerPerExport, WorkersKnow, WorkerKnows, Claim,
    ClaimError, Overdue
<1>6. SuccessesPast' /\ SuccessSpacing'
  BY DEF IndInv, TypeOK, SuccessesPast, SuccessSpacing, Claim, ClaimError,
    Overdue
<1>7. ReadyHasArchive'
  BY DEF IndInv, TypeOK, ReadyHasArchive, Claim, ClaimError, Overdue
<1>8. SlotsHoldLast'
  BY DEF IndInv, TypeOK, SlotsHoldLast, Claim, ClaimError, Overdue
<1> QED
  BY <1>1, <1>2, <1>3, <1>4, <1>5, <1>6, <1>7, <1>8 DEF IndInv

\* The temporary object is written after the claim and before its timeout.
LEMMA WriteTmpInv ==
    ASSUME IndInv, NEW w \in Workers, WriteTmp(w)
    PROVE  IndInv'
<1>1. TypeOK'
  BY DEF IndInv, TypeOK, WriteTmp, InTime
<1>2. WorkersKnow'
  BY DEF IndInv, TypeOK, WorkersKnow, WorkerKnows, WriteTmp, InTime
<1>3. OneWorkerPerExport'
  BY DEF IndInv, TypeOK, OneWorkerPerExport, WriteTmp, InTime
<1>4. LiveIsActive' /\ ActiveIsLive' /\ SuccessesPast' /\ SuccessSpacing' /\
      ReadyHasArchive' /\ SlotsHoldLast'
  BY DEF IndInv, LiveIsActive, ActiveIsLive, SuccessesPast, SuccessSpacing,
    ReadyHasArchive, SlotsHoldLast, WriteTmp, InTime
<1> QED
  BY <1>1, <1>2, <1>3, <1>4 DEF IndInv

\* The completion time is taken after the export was admitted.
LEMMA StampTmpInv ==
    ASSUME IndInv, NEW w \in Workers, StampTmp(w)
    PROVE  IndInv'
<1>1. TypeOK'
  BY DEF IndInv, TypeOK, StampTmp, InTime
<1>2. WorkersKnow'
  BY DEF IndInv, TypeOK, WorkersKnow, WorkerKnows, StampTmp, InTime
<1>3. OneWorkerPerExport'
  BY DEF IndInv, TypeOK, OneWorkerPerExport, StampTmp, InTime
<1>4. LiveIsActive' /\ ActiveIsLive' /\ SuccessesPast' /\ SuccessSpacing' /\
      ReadyHasArchive' /\ SlotsHoldLast'
  BY DEF IndInv, LiveIsActive, ActiveIsLive, SuccessesPast, SuccessSpacing,
    ReadyHasArchive, SlotsHoldLast, StampTmp, InTime
<1> QED
  BY <1>1, <1>2, <1>3, <1>4 DEF IndInv

\* The execution's own export is not ready yet, so no finished archive is
\* overwritten.
LEMMA CopyReadyInv ==
    ASSUME IndInv, NEW w \in Workers, CopyReady(w)
    PROVE  IndInv'
<1>1. TypeOK'
  BY DEF IndInv, TypeOK, WorkersKnow, WorkerKnows, CopyReady, PromotedTime,
    InTime
<1>2. WorkersKnow'
  BY DEF IndInv, TypeOK, WorkersKnow, WorkerKnows, OneWorkerPerExport,
    CopyReady, PromotedTime, InTime
<1>3. OneWorkerPerExport'
  BY DEF IndInv, TypeOK, OneWorkerPerExport, CopyReady, PromotedTime, InTime
<1>4. ReadyHasArchive'
  BY DEF IndInv, TypeOK, ReadyHasArchive, WorkersKnow, WorkerKnows, CopyReady,
    PromotedTime, InTime
<1>5. LiveIsActive' /\ ActiveIsLive' /\ SuccessesPast' /\ SuccessSpacing' /\
      SlotsHoldLast'
  BY DEF IndInv, LiveIsActive, ActiveIsLive, SuccessesPast, SuccessSpacing,
    SlotsHoldLast, CopyReady, PromotedTime, InTime
<1> QED
  BY <1>1, <1>2, <1>3, <1>4, <1>5 DEF IndInv

\* The new success is a cooldown after the last one, because the export was
\* admitted a cooldown after it and stamped after its admission.
LEMMA CompleteInv ==
    ASSUME IndInv, NEW w \in Workers, NEW heard \in BOOLEAN, Complete(w, heard)
    PROVE  IndInv'
<1>1. TypeOK'
  BY DEF IndInv, TypeOK, WorkersKnow, WorkerKnows, Complete, InTime,
    Completable, Demoted, Exit
<1>2. LiveIsActive'
  BY DEF IndInv, TypeOK, LiveIsActive, WorkersKnow, WorkerKnows, Complete,
    InTime, Completable, Demoted, Exit
<1>3. ActiveIsLive'
  BY DEF IndInv, TypeOK, ActiveIsLive, Complete, InTime, Completable, Demoted,
    Exit
<1>4. WorkersKnow'
  BY DEF IndInv, TypeOK, WorkersKnow, WorkerKnows, OneWorkerPerExport,
    Complete, InTime, Completable, Demoted, Exit
<1>5. OneWorkerPerExport'
  BY DEF IndInv, TypeOK, OneWorkerPerExport, Complete, InTime, Completable,
    Demoted, Exit
<1>6. SuccessesPast'
  BY DEF IndInv, TypeOK, SuccessesPast, WorkersKnow, WorkerKnows,
    ActiveIsLive, Complete, InTime, Completable, Demoted, Exit
<1>7. SuccessSpacing'
  BY DEF IndInv, TypeOK, SuccessSpacing, WorkersKnow, WorkerKnows,
    ActiveIsLive, SuccessesPast, Complete, InTime, Completable, Demoted, Exit
<1>8. ReadyHasArchive'
  BY DEF IndInv, TypeOK, ReadyHasArchive, WorkersKnow, WorkerKnows, Complete,
    InTime, Completable, Demoted, Exit
<1>9. SlotsHoldLast'
  BY DEF IndInv, TypeOK, SlotsHoldLast, WorkersKnow, WorkerKnows,
    SuccessesPast, SuccessSpacing, ActiveIsLive, Complete, InTime,
    Completable, Demoted, Exit
<1> QED
  BY <1>1, <1>2, <1>3, <1>4, <1>5, <1>6, <1>7, <1>8, <1>9 DEF IndInv

\* After an error the execution only fails its export.
LEMMA StepErrorInv ==
    ASSUME IndInv, NEW w \in Workers, StepError(w)
    PROVE  IndInv'
<1>1. TypeOK'
  BY DEF IndInv, TypeOK, StepError
<1>2. WorkersKnow'
  BY DEF IndInv, TypeOK, WorkersKnow, WorkerKnows, StepError
<1>3. OneWorkerPerExport'
  BY DEF IndInv, TypeOK, OneWorkerPerExport, StepError
<1>4. LiveIsActive' /\ ActiveIsLive' /\ SuccessesPast' /\ SuccessSpacing' /\
      ReadyHasArchive' /\ SlotsHoldLast'
  BY DEF IndInv, LiveIsActive, ActiveIsLive, SuccessesPast, SuccessSpacing,
    ReadyHasArchive, SlotsHoldLast, StepError
<1> QED
  BY <1>1, <1>2, <1>3, <1>4 DEF IndInv

\* Failing an export that finished meanwhile changes nothing.
LEMMA FailRunInv ==
    ASSUME IndInv, NEW w \in Workers, FailRun(w)
    PROVE  IndInv'
<1>1. TypeOK'
  BY DEF IndInv, TypeOK, WorkersKnow, WorkerKnows, FailRun, Fail, Exit
<1>2. LiveIsActive'
  BY DEF IndInv, TypeOK, LiveIsActive, WorkersKnow, WorkerKnows, FailRun,
    Fail, Exit
<1>3. ActiveIsLive'
  BY DEF IndInv, TypeOK, ActiveIsLive, WorkersKnow, WorkerKnows, FailRun,
    Fail, Exit
<1>4. WorkersKnow'
  BY DEF IndInv, TypeOK, WorkersKnow, WorkerKnows, FailRun, Fail, Exit
<1>5. OneWorkerPerExport'
  BY DEF IndInv, TypeOK, OneWorkerPerExport, FailRun, Fail, Exit
<1>6. SuccessesPast' /\ SuccessSpacing'
  BY DEF IndInv, TypeOK, SuccessesPast, WorkersKnow, WorkerKnows,
    SuccessSpacing, FailRun, Fail, Exit
<1>7. ReadyHasArchive'
  BY DEF IndInv, TypeOK, ReadyHasArchive, WorkersKnow, WorkerKnows, FailRun,
    Fail, Exit
<1>8. SlotsHoldLast'
  BY DEF IndInv, TypeOK, SlotsHoldLast, WorkersKnow, WorkerKnows, FailRun,
    Fail, Exit
<1> QED
  BY <1>1, <1>2, <1>3, <1>4, <1>5, <1>6, <1>7, <1>8 DEF IndInv

\* A dead execution holds no export.
LEMMA WorkerCrashInv ==
    ASSUME IndInv, NEW w \in Workers, WorkerCrash(w)
    PROVE  IndInv'
<1>1. TypeOK'
  BY DEF IndInv, TypeOK, WorkerCrash, Exit
<1>2. WorkersKnow'
  BY DEF IndInv, TypeOK, WorkersKnow, WorkerKnows, WorkerCrash, Exit
<1>3. OneWorkerPerExport'
  BY DEF IndInv, TypeOK, OneWorkerPerExport, WorkerCrash, Exit
<1>4. LiveIsActive' /\ ActiveIsLive' /\ SuccessesPast' /\ SuccessSpacing' /\
      ReadyHasArchive' /\ SlotsHoldLast'
  BY DEF IndInv, LiveIsActive, ActiveIsLive, SuccessesPast, SuccessSpacing,
    ReadyHasArchive, SlotsHoldLast, WorkerCrash, Exit
<1> QED
  BY <1>1, <1>2, <1>3, <1>4 DEF IndInv

\* Every comparison with the clock in the invariant survives its advance.
LEMMA TickInv ==
    ASSUME IndInv, Tick
    PROVE  IndInv'
<1>1. TypeOK'
  BY DEF IndInv, TypeOK, Tick
<1>2. ActiveIsLive'
  BY DEF IndInv, TypeOK, ActiveIsLive, Tick
<1>3. WorkersKnow'
  BY DEF IndInv, TypeOK, WorkersKnow, WorkerKnows, Tick
<1>4. SuccessesPast'
  BY DEF IndInv, TypeOK, SuccessesPast, Tick
<1>5. ReadyHasArchive'
  BY DEF IndInv, TypeOK, ReadyHasArchive, Tick
<1>6. LiveIsActive' /\ OneWorkerPerExport' /\ SuccessSpacing' /\
      SlotsHoldLast'
  BY DEF IndInv, LiveIsActive, OneWorkerPerExport, SuccessSpacing,
    SlotsHoldLast, Tick
<1> QED
  BY <1>1, <1>2, <1>3, <1>4, <1>5, <1>6 DEF IndInv

\* An archive is deleted only after its retention.
LEMMA ExpireReadyInv ==
    ASSUME IndInv, NEW j \in Jobs, ExpireReady(j)
    PROVE  IndInv'
<1>1. TypeOK'
  BY DEF IndInv, TypeOK, ExpireReady
<1>2. WorkersKnow'
  BY DEF IndInv, TypeOK, WorkersKnow, WorkerKnows, ExpireReady
<1>3. ReadyHasArchive'
  BY DEF IndInv, TypeOK, ReadyHasArchive, ExpireReady
<1>4. LiveIsActive' /\ ActiveIsLive' /\ OneWorkerPerExport' /\
      SuccessesPast' /\ SuccessSpacing' /\ SlotsHoldLast'
  BY DEF IndInv, LiveIsActive, ActiveIsLive, OneWorkerPerExport,
    SuccessesPast, SuccessSpacing, SlotsHoldLast, ExpireReady
<1> QED
  BY <1>1, <1>2, <1>3, <1>4 DEF IndInv

\* A temporary object outlives the execution that may read it.
LEMMA ExpireTmpInv ==
    ASSUME IndInv, NEW w \in Workers, ExpireTmp(w)
    PROVE  IndInv'
<1>1. TypeOK'
  BY DEF IndInv, TypeOK, ExpireTmp
<1>2. WorkersKnow'
  BY DEF IndInv, TypeOK, WorkersKnow, WorkerKnows, ExpireTmp
<1>3. LiveIsActive' /\ ActiveIsLive' /\ OneWorkerPerExport' /\
      SuccessesPast' /\ SuccessSpacing' /\ ReadyHasArchive' /\
      SlotsHoldLast'
  BY DEF IndInv, LiveIsActive, ActiveIsLive, OneWorkerPerExport,
    SuccessesPast, SuccessSpacing, ReadyHasArchive, SlotsHoldLast, ExpireTmp
<1> QED
  BY <1>1, <1>2, <1>3 DEF IndInv

-----------------------------------------------------------------------------
(***************************************************************************)
(* Safety.                                                                 *)
(***************************************************************************)

LEMMA InitInv == Init => IndInv
BY DEF Init, IndInv, TypeOK, LiveIsActive, ActiveIsLive, WorkersKnow,
       WorkerKnows, OneWorkerPerExport, SuccessesPast, SuccessSpacing,
       ReadyHasArchive, SlotsHoldLast

LEMMA StutterInv ==
    ASSUME IndInv, UNCHANGED vars
    PROVE  IndInv'
BY DEF vars, IndInv, TypeOK, LiveIsActive, ActiveIsLive, WorkersKnow,
       WorkerKnows, OneWorkerPerExport, SuccessesPast, SuccessSpacing,
       ReadyHasArchive, SlotsHoldLast

\* Every step of the export system preserves the inductive invariant.
LEMMA StepInv == IndInv /\ [Next]_vars => IndInv'
<1> SUFFICES ASSUME IndInv, [Next]_vars PROVE IndInv'
  OBVIOUS
<1>1. CASE UNCHANGED vars
  BY <1>1, StutterInv
<1>2. ASSUME NEW j \in Jobs, CreateNext(j)
      PROVE  IndInv'
  BY <1>2, AdmitInv, StartInv, FailStartInv, HandlerCrashInv, RunLostInv
     DEF CreateNext
<1>3. ASSUME NEW w \in Workers, WorkerNext(w)
      PROVE  IndInv'
  BY <1>3, ClaimInv, WriteTmpInv, StampTmpInv, CopyReadyInv, CompleteInv,
     StepErrorInv, FailRunInv, WorkerCrashInv
     DEF WorkerNext
<1> QED
  BY <1>1, <1>2, <1>3, TickInv, ExpireReadyInv, ExpireTmpInv DEF Next

\* The inductive invariant holds in every reachable state.
THEOREM IndInvHolds == Spec => []IndInv
BY InitInv, StepInv, PTL DEF Spec

\* The database and the executions keep the types the model gives them.
THEOREM TypeCorrect == Spec => []TypeOK
<1>1. IndInv => TypeOK
  BY DEF IndInv
<1> QED
  BY <1>1, IndInvHolds, PTL

\* At most one export is live, and the state document names it.
THEOREM SlotIsExclusive == Spec => []LiveIsActive
<1>1. IndInv => LiveIsActive
  BY DEF IndInv
<1> QED
  BY <1>1, IndInvHolds, PTL

\* No two executions work on the same export, however often one is started.
THEOREM ClaimIsExclusive == Spec => []OneWorkerPerExport
<1>1. IndInv => OneWorkerPerExport
  BY DEF IndInv
<1> QED
  BY <1>1, IndInvHolds, PTL

\* Two successful exports are a cooldown apart.
THEOREM RateLimit == Spec => []SuccessSpacing
<1>1. IndInv => SuccessSpacing
  BY DEF IndInv
<1> QED
  BY <1>1, IndInvHolds, PTL

\* A ready job has its archive until the retention has passed.
THEOREM ArchiveBacksReady == Spec => []ReadyHasArchive
<1>1. IndInv => ReadyHasArchive
  BY DEF IndInv
<1> QED
  BY <1>1, IndInvHolds, PTL

\* GET and POST /exports agree on whether a new export is admissible.
THEOREM ListAgreesWithAdmit == Spec => []EligibilityAgrees
<1>1. IndInv => EligibilityAgrees
  BY DEF IndInv, TypeOK, ActiveIsLive, EligibilityAgrees, ListedEligible,
         ListedActive, Admissible, InProgress, PublicStatus, Overdue
<1> QED
  BY <1>1, IndInvHolds, PTL

\* The temporary object outlives the execution that copies it.
THEOREM TmpLifecycleIsSafe == Spec => []TmpOutlivesCopy
<1>1. IndInv => TmpOutlivesCopy
  BY DEF IndInv, TypeOK, WorkersKnow, WorkerKnows, TmpOutlivesCopy, InTime
<1> QED
  BY <1>1, IndInvHolds, PTL

\* The two archive slots show the newest and the next newest archive that is
\* within its retention.
THEOREM ListIsNewest == Spec => []ListsNewest
<1>1. ASSUME IndInv PROVE ListsNewest
  <2>1. /\ now \in Nat /\ lastSuccess \in Nat \cup {NoTime}
        /\ completed \in [Jobs -> Nat \cup {NoTime}]
        /\ current \in Jobs \cup {NoJob} /\ previous \in Jobs \cup {NoJob}
    BY <1>1 DEF IndInv, TypeOK
  <2>2. ASSUME NEW j \in Jobs PROVE Shown(j) <=> j \in Unexpired
    <3>1. status[j] = "ready" =>
             /\ completed[j] \in Nat
             /\ \/ ready[j] = completed[j]
                \/ ready[j] = NoTime /\ completed[j] + Retention <= now
      BY <1>1, <2>1 DEF IndInv, ReadyHasArchive, SuccessesPast
    <3> QED
      BY <2>1, <3>1 DEF Shown, Unexpired
  <2>3. ~Shown(NoJob) /\ NoJob \notin Unexpired /\ Unexpired \subseteq Jobs
    BY DEF Shown, Unexpired
  <2>4. ASSUME NEW j \in Unexpired
        PROVE  current \in Unexpired /\ completed[j] <= completed[current]
    <3>1. j \in Jobs /\ status[j] = "ready" /\ completed[j] + Retention > now
      BY DEF Unexpired
    <3>2. /\ current \in Jobs /\ status[current] = "ready"
          /\ completed[j] <= completed[current]
          /\ completed[j] \in Nat /\ completed[current] \in Nat
      BY <1>1, <2>1, <3>1 DEF IndInv, SuccessesPast, SlotsHoldLast
    <3> QED
      BY <2>1, <3>1, <3>2 DEF Unexpired
  <2>5. ASSUME NEW j \in Unexpired, j # current
        PROVE  /\ previous \in Unexpired /\ previous # current
               /\ completed[j] <= completed[previous]
    <3>1. j \in Jobs /\ status[j] = "ready" /\ completed[j] + Retention > now
      BY DEF Unexpired
    <3>2. /\ previous \in Jobs /\ status[previous] = "ready"
          /\ previous # current
          /\ completed[j] <= completed[previous]
          /\ completed[j] \in Nat /\ completed[previous] \in Nat
      BY <1>1, <2>1, <2>5, <3>1 DEF IndInv, SuccessesPast, SlotsHoldLast
    <3> QED
      BY <2>1, <3>1, <3>2 DEF Unexpired
  <2>6. IsNewestOf(ListedCurrent, Unexpired)
    <3>1. CASE Unexpired = {}
      BY <2>1, <2>2, <2>3, <3>1 DEF IsNewestOf, ListedCurrent
    <3>2. CASE Unexpired # {}
      <4>1. ListedCurrent = current /\ current \in Unexpired
        BY <2>1, <2>2, <2>3, <2>4, <3>2 DEF ListedCurrent
      <4> QED
        BY <2>4, <3>2, <4>1 DEF IsNewestOf
    <3> QED
      BY <3>1, <3>2
  <2>7. IsNewestOf(ListedPrevious, Unexpired \ {ListedCurrent})
    <3>1. CASE Unexpired \ {ListedCurrent} = {}
      <4>1. ~(Shown(current) /\ Shown(previous))
        <5> SUFFICES ASSUME Shown(current), Shown(previous) PROVE FALSE
          OBVIOUS
        <5>1. previous \in Unexpired /\ ListedCurrent = current
          BY <2>1, <2>2, <2>3 DEF ListedCurrent
        <5>2. previous # current
          BY <1>1, <5>1, <2>3 DEF IndInv, SlotsHoldLast
        <5> QED
          BY <3>1, <5>1, <5>2
      <4> QED
        BY <3>1, <4>1 DEF IsNewestOf, ListedPrevious
    <3>2. CASE Unexpired \ {ListedCurrent} # {}
      <4>1. ListedCurrent = current /\ Shown(current)
        BY <2>1, <2>2, <2>3, <2>4, <3>2 DEF ListedCurrent
      <4>2. previous \in Unexpired \ {ListedCurrent}
        BY <2>5, <3>2, <4>1
      <4>3. ListedPrevious = previous
        BY <2>1, <2>2, <2>3, <4>1, <4>2 DEF ListedPrevious
      <4> QED
        BY <2>5, <3>2, <4>1, <4>2, <4>3 DEF IsNewestOf
    <3> QED
      BY <3>1, <3>2
  <2> QED
    BY <2>6, <2>7 DEF ListsNewest
<1> QED
  BY <1>1, IndInvHolds, PTL

-----------------------------------------------------------------------------
(***************************************************************************)
(* Steps: what no action may do, and the refinement of the abstract slot.  *)
(***************************************************************************)

\* A finished export, its completion time and its archive stay as they are.
THEOREM FinishedIsFinal == Spec => FinishedStays
<1>1. ASSUME IndInv, Next, NEW j \in Jobs
      PROVE  Finished(j)
  <2> USE <1>1 DEF IndInv, TypeOK, Finished
  <2>1. ASSUME NEW i \in Jobs, CreateNext(i) PROVE Finished(j)
    <3>1. ASSUME NEW k \in Keys \cup {NoKey}, Admit(i, k) PROVE Finished(j)
      <4>1. status[j] \in Terminal => status'[j] = status[j]
        <5>1. CASE CoolingDown
          BY <3>1, <5>1 DEF Admit, TimedOut
        <5>2. CASE ~CoolingDown
          BY <3>1, <5>2 DEF Admit, TimedOut
        <5> QED
          BY <5>1, <5>2
      <4> QED
        BY <3>1, <4>1 DEF Admit
    <3>2. ASSUME FailStart(i) PROVE Finished(j)
      BY <3>2 DEF FailStart, Fail
    <3> QED
      BY <2>1, <3>1, <3>2 DEF CreateNext, Start, HandlerCrash, RunLost
  <2>2. ASSUME NEW w \in Workers, WorkerNext(w) PROVE Finished(j)
    <3>1. ASSUME CopyReady(w) PROVE Finished(j)
      BY <3>1 DEF CopyReady, InTime, WorkersKnow, WorkerKnows
    <3>2. ASSUME NEW heard \in BOOLEAN, Complete(w, heard) PROVE Finished(j)
      BY <3>2 DEF Complete, InTime, Completable, WorkersKnow, WorkerKnows
    <3>3. ASSUME FailRun(w) PROVE Finished(j)
      BY <3>3 DEF FailRun, Fail, WorkersKnow, WorkerKnows
    <3>4. ASSUME NEW i \in Jobs, NEW heard \in BOOLEAN, Claim(w, i, heard)
          PROVE  Finished(j)
      BY <3>4 DEF Claim, ClaimError
    <3> QED
      BY <2>2, <3>1, <3>2, <3>3, <3>4
         DEF WorkerNext, WriteTmp, StampTmp, StepError, WorkerCrash
  <2>3. ASSUME NEW i \in Jobs, ExpireReady(i) PROVE Finished(j)
    BY <2>3 DEF ExpireReady
  <2>4. ASSUME NEW w \in Workers, ExpireTmp(w) PROVE Finished(j)
    BY <2>4 DEF ExpireTmp
  <2>5. ASSUME Tick PROVE Finished(j)
    BY <2>5 DEF Tick
  <2> QED
    BY <2>1, <2>2, <2>3, <2>4, <2>5 DEF Next
<1>2. IndInv /\ [Next]_vars => [\A j \in Jobs : Finished(j)]_vars
  BY <1>1
<1> QED
  BY <1>2, IndInvHolds, PTL DEF Spec, FinishedStays

\* The keys of two exports differ: the idempotency document of a key, once
\* written, names the only export created with it.
THEOREM KeysAreUnique == Spec => []KeyNamesOneExport
<1> DEFINE KeyInv == /\ keyOf \in [Jobs -> Keys \cup {NoKey}]
                     /\ idem \in [Keys -> Jobs \cup {NoJob}]
                     /\ \A j \in Jobs : keyOf[j] # NoKey => idem[keyOf[j]] = j
<1>1. Init => KeyInv
  BY DEF Init
<1>2. KeyInv /\ [Next]_vars => KeyInv'
  <2> SUFFICES ASSUME KeyInv, [Next]_vars PROVE KeyInv'
    OBVIOUS
  <2>1. ASSUME NEW j \in Jobs, NEW k \in Keys \cup {NoKey}, Admit(j, k)
        PROVE  KeyInv'
    <3>1. CASE CoolingDown
      BY <2>1, <3>1 DEF Admit
    <3>2. CASE ~CoolingDown
      <4>1. /\ keyOf' = [keyOf EXCEPT ![j] = k]
            /\ idem' = IF k = NoKey THEN idem ELSE [idem EXCEPT ![k] = j]
            /\ k # NoKey => idem[k] = NoJob
        BY <2>1, <3>2 DEF Admit, FreshKey
      <4> QED
        BY <4>1
    <3> QED
      BY <3>1, <3>2
  <2>2. CASE UNCHANGED idemVars
    BY <2>2
  <2> QED
    BY <2>1, <2>2
       DEF Next, vars, CreateNext, Start, FailStart, HandlerCrash, RunLost,
           WorkerNext, Claim, WriteTmp, StampTmp, CopyReady, Complete,
           StepError, FailRun, WorkerCrash, Tick, ExpireReady, ExpireTmp
<1>3. KeyInv => KeyNamesOneExport
  BY DEF KeyNamesOneExport
<1> QED
  BY <1>1, <1>2, <1>3, PTL DEF Spec

\* The export system implements the abstract slot.
THEOREM Refinement == Spec => ImplementsSlot
<1> DEFINE Until == IF active = NoJob THEN 0 ELSE deadline[active]
<1> USE DEF Slot!HasPublished, Slot!Rested
<1>1. Init => Slot!SlotInit
  BY DEF Init, Slot!SlotInit, Published
<1>2. ASSUME IndInv, Published' = Published, UNCHANGED <<now, active, deadline>>
      PROVE  UNCHANGED Slot!slotVars
  BY <1>2 DEF Slot!slotVars
<1>3. ASSUME IndInv, UNCHANGED <<status, completed>>
      PROVE  Published' = Published
  BY <1>3 DEF Published
<1>4. ASSUME IndInv, UNCHANGED completed,
             \A j \in Jobs : status'[j] = "ready" <=> status[j] = "ready"
      PROVE  Published' = Published
  BY <1>4 DEF Published
<1>5. ASSUME IndInv, NEW j \in Jobs, NEW k \in Keys \cup {NoKey}, Admit(j, k)
      PROVE  [Slot!SlotNext]_Slot!slotVars
  <2>1. CASE CoolingDown
    <3>1. active = NoJob
      BY <1>5, <2>1 DEF IndInv, TypeOK, ActiveIsLive, CoolingDown
    <3>2. status' = status /\ UNCHANGED <<now, active, deadline, completed>>
      BY <1>5, <2>1, <3>1 DEF IndInv, TypeOK, Admit, TimedOut
    <3> QED
      BY <1>2, <1>3, <1>5, <3>2
  <2>2. CASE ~CoolingDown
    <3>1. /\ UNCHANGED <<now, completed>> /\ active' = j
          /\ deadline' = [deadline EXCEPT ![j] = now + JobDeadline]
          /\ status[j] = "none" /\ ~InProgress
      BY <1>5, <2>2 DEF Admit
    <3>2. \A i \in Jobs : status'[i] = "ready" <=> status[i] = "ready"
      BY <1>5, <2>2 DEF IndInv, TypeOK, Admit, TimedOut
    <3>3. Published' = Published
      BY <1>4, <1>5, <3>1, <3>2
    <3>4. Slot!Take(j)
      <4>1. active = NoJob \/ Until <= now
        BY <1>5, <3>1 DEF IndInv, TypeOK, ActiveIsLive, InProgress, Overdue
      <4>2. j # active
        BY <1>5, <3>1 DEF IndInv, TypeOK, ActiveIsLive
      <4>3. \A p \in Published : p[1] # j /\ p[2] + Cooldown <= now
        BY <1>5, <2>2, <3>1
           DEF IndInv, TypeOK, SuccessesPast, Published, CoolingDown
      <4>4. Until' = now + JobDeadline
        BY <1>5, <3>1 DEF IndInv, TypeOK
      <4> QED
        BY <3>1, <3>3, <4>1, <4>2, <4>3, <4>4 DEF Slot!Take
    <3> QED
      BY <3>4 DEF Slot!SlotNext
  <2> QED
    BY <2>1, <2>2
<1>6. ASSUME IndInv, NEW j \in Jobs, Fail(j), UNCHANGED <<now, deadline, completed>>
      PROVE  [Slot!SlotNext]_Slot!slotVars
  <2>1. Published' = Published
    BY <1>4, <1>6 DEF IndInv, TypeOK, Fail
  <2>2. CASE active' = active
    BY <1>2, <1>6, <2>1, <2>2
  <2>3. CASE active' # active
    <3>1. active' = NoJob
      BY <1>6, <2>3 DEF Fail
    <3>2. Slot!GiveUp
      BY <1>6, <2>1, <3>1 DEF Slot!GiveUp
    <3> QED
      BY <3>2 DEF Slot!SlotNext
  <2> QED
    BY <2>2, <2>3
<1>7. ASSUME IndInv, NEW w \in Workers, NEW heard \in BOOLEAN, Complete(w, heard)
      PROVE  [Slot!SlotNext]_Slot!slotVars
  <2>1. /\ active \in Jobs /\ wjob[w] = active /\ status[active] \in Live
        /\ wstamp[w] \in 0..now /\ wstamp[w] < deadline[active]
        /\ deadline[active] - JobDeadline <= wstamp[w]
    BY <1>7 DEF IndInv, TypeOK, WorkersKnow, WorkerKnows, Complete, InTime,
                Completable
  <2>2. /\ status' = [status EXCEPT ![active] = "ready"]
        /\ completed' = [completed EXCEPT ![active] = wstamp[w]]
        /\ active' = NoJob /\ UNCHANGED now
    BY <1>7, <2>1 DEF Complete
  <2>3. Published' = Published \cup {<<active, wstamp[w]>>}
    BY <1>7, <2>1, <2>2 DEF IndInv, TypeOK, Published
  <2>4. \A p \in Published : p[2] + Cooldown <= wstamp[w]
    BY <1>7, <2>1 DEF IndInv, TypeOK, SuccessesPast, ActiveIsLive, Published
  <2>5. Slot!Publish(wstamp[w])
    BY <2>1, <2>2, <2>3, <2>4 DEF Slot!Publish
  <2> QED
    BY <2>1, <2>5 DEF Slot!SlotNext
<1>8. ASSUME IndInv, Tick
      PROVE  [Slot!SlotNext]_Slot!slotVars
  BY <1>3, <1>8 DEF Tick, Slot!Pass, Slot!SlotNext
<1>9. ASSUME IndInv, NEW w \in Workers, NEW j \in Jobs, NEW heard \in BOOLEAN,
             Claim(w, j, heard)
      PROVE  UNCHANGED Slot!slotVars
  <2>1. Published' = Published
    BY <1>4, <1>9 DEF IndInv, TypeOK, Claim, ClaimError
  <2> QED
    BY <1>2, <1>9, <2>1 DEF Claim
<1>10. ASSUME IndInv, UNCHANGED <<now, status, completed, deadline, active>>
       PROVE  UNCHANGED Slot!slotVars
  BY <1>2, <1>3, <1>10
<1>11. IndInv /\ [Next]_vars => [Slot!SlotNext]_Slot!slotVars
  <2> SUFFICES ASSUME IndInv, [Next]_vars
               PROVE  [Slot!SlotNext]_Slot!slotVars
    OBVIOUS
  <2>1. ASSUME NEW j \in Jobs, CreateNext(j)
        PROVE  [Slot!SlotNext]_Slot!slotVars
    <3>1. CASE FailStart(j)
      BY <1>6, <3>1 DEF FailStart
    <3>2. CASE Start(j, TRUE, TRUE) \/ Start(j, TRUE, FALSE) \/ Start(j, FALSE, FALSE)
               \/ HandlerCrash(j) \/ RunLost(j)
      BY <1>10, <3>2 DEF Start, HandlerCrash, RunLost
    <3> QED
      BY <1>5, <2>1, <3>1, <3>2 DEF CreateNext, Start
  <2>2. ASSUME NEW w \in Workers, WorkerNext(w)
        PROVE  [Slot!SlotNext]_Slot!slotVars
    <3>1. CASE FailRun(w)
      <4>1. wjob[w] \in Jobs
        BY <3>1 DEF FailRun, IndInv, WorkersKnow, WorkerKnows
      <4> QED
        BY <1>6, <3>1, <4>1 DEF FailRun
    <3>2. CASE WriteTmp(w) \/ StampTmp(w) \/ CopyReady(w) \/ StepError(w)
               \/ WorkerCrash(w)
      BY <1>10, <3>2 DEF WriteTmp, StampTmp, CopyReady, StepError, WorkerCrash
    <3> QED
      BY <1>7, <1>9, <2>2, <3>1, <3>2 DEF WorkerNext
  <2>3. ASSUME NEW j \in Jobs, ExpireReady(j)
        PROVE  [Slot!SlotNext]_Slot!slotVars
    BY <1>10, <2>3 DEF ExpireReady
  <2>4. ASSUME NEW w \in Workers, ExpireTmp(w)
        PROVE  [Slot!SlotNext]_Slot!slotVars
    BY <1>10, <2>4 DEF ExpireTmp
  <2>5. CASE UNCHANGED vars
    BY <1>10, <2>5 DEF vars
  <2> QED
    BY <1>8, <2>1, <2>2, <2>3, <2>4, <2>5 DEF Next
<1> QED
  BY <1>1, <1>11, IndInvHolds, PTL DEF Spec, ImplementsSlot, Slot!SlotSpec

=============================================================================
