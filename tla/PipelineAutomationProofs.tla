----------------------- MODULE PipelineAutomationProofs -----------------------
(***************************************************************************)
(* Theorems of PipelineAutomation, for any number of dispatchers, writes,  *)
(* uses of the switches and disturbances.                                  *)
(***************************************************************************)
EXTENDS PipelineAutomation, TLAPS

USE AutomationAssumption

Live == {"ready", "invoking", "compiling"}

\* A live reservation holds the slot.  It was made of an inventory that is not
\* newer than the stored one, its worker took what was stored by then, and
\* nobody else publishes while it runs.
RunOf(n) ==
    /\ res[n].intent \in Live => slot = n /\ n[1] <= raw /\ res[n].src <= raw
    /\ res[n].exec # "none" =>
         /\ res[n].intent = "compiling"
         /\ n[1] <= res[n].taken /\ res[n].src <= res[n].taken /\ res[n].taken <= raw
    /\ res[n].exec = "running" => built <= res[n].taken
    /\ res[n].exec = "SUCCEEDED" => res[n].taken <= built
    /\ res[n].intent = "succeeded" => n[1] <= built

RunInv ==
    /\ built <= raw /\ project.src <= raw
    /\ \A n \in Names : RunOf(n)
    /\ manual.phase # "none" => slot = OtherRun
    /\ manual.phase = "running" => built <= manual.taken /\ manual.taken <= raw
    /\ ProcessedIsBuilt

\* A dispatcher at work has an item, and its switch is the one of the revision
\* it read.  Once it has a fingerprint, that is of all it saw confirmed.
ReadingOf(d) ==
    disp[d].pc # "idle" =>
      /\ disp[d].item \in Items
      /\ disp[d].rev <= project.rev /\ disp[d].src <= project.src
      /\ disp[d].rev = project.rev => disp[d].on = project.on
      /\ disp[d].pc \in {"reserve", "refused", "busy"} =>
           disp[d].src <= disp[d].fp /\ disp[d].fp <= raw

\* Who holds an item works on it, and has been charged an attempt.
HolderOf(i) ==
    work[i].holder # None =>
      /\ disp[work[i].holder].pc # "idle" /\ disp[work[i].holder].item = i
      /\ work[i].attempts > 0

IndInv ==
    /\ TypeOK
    /\ RunInv
    /\ \A d \in Dispatchers : ReadingOf(d)
    /\ \A i \in Items : HolderOf(i)

\* What a dispatcher has read is still so, or it will give the item back.
Promising(d) ==
    \/ disp[d].pc = "wait"
    \/ /\ disp[d].pc \in {"admin", "fingerprint", "reserve", "refused", "busy"}
       /\ disp[d].rev = project.rev /\ disp[d].src = project.src
       /\ disp[d].pc # "admin" => disp[d].admin = admin.rev

\* An item that is due with attempts left, or in good hands.
InCharge(i) ==
    /\ work[i].pending
    /\ IF work[i].holder = None THEN work[i].attempts <= disturbed
       ELSE work[i].attempts <= disturbed + 1 /\ Promising(work[i].holder)

Current == <<raw, project.rev, admin.rev>>

\* Who answers for the stored inventory: an item, a scan, the run of just this
\* inventory, or one of the excuses.
Kept ==
    \/ \E i \in Items : InCharge(i)
    \/ admin.rev \in scans
    \/ slot = Current /\ res[Current].intent \in Live /\ res[Current].src = project.src
    \/ Blocked(raw) /\ slot \notin Names
    \/ res[Current].intent \in {"cancelled", "failed"}
    \/ raced

Unprocessed == On /\ project.src = raw /\ built # raw

KeptInv == Unprocessed => Kept

-----------------------------------------------------------------------------
(* The inductive invariant.                                                *)

\* Stores start empty.
LEMMA InitInv == Init => IndInv /\ KeptInv
<1> SUFFICES ASSUME Init PROVE IndInv /\ KeptInv
  OBVIOUS
<1>1. TypeOK
  <2> USE DEF Init
  <2>1. raw \in Inventories /\ built \in Inventories /\ scans \subseteq Revisions
    BY DEF Inventories
  <2>2. project \in Project /\ admin \in [on : BOOLEAN, rev : Revisions, backlog : Backlogs]
    BY DEF Project, Inventories, Revisions, Statuses, Backlogs
  <2>3. work \in [Items -> Work]
    BY DEF Work
  <2>4. res \in [Names -> Reservation]
    BY DEF Reservation, NoRun, Inventories
  <2>5. manual \in [phase : {"none", "accepted", "running"}, taken : Inventories]
    BY DEF Inventories
  <2>6. disp \in [Dispatchers -> Reading]
    BY DEF Reading, Idle, Inventories, Revisions
  <2>7. slot \in Names \cup {None, OtherRun} /\ raced \in BOOLEAN
    OBVIOUS
  <2>8. disturbed \in 0 .. MaxDisturbed
    OBVIOUS
  <2> HIDE DEF Init
  <2> QED BY <2>1, <2>2, <2>3, <2>4, <2>5, <2>6, <2>7, <2>8 DEF TypeOK
<1>2. RunInv
  BY DEF Init, RunInv, RunOf, NoRun, Live, ProcessedIsBuilt
<1>3. \A d \in Dispatchers : ReadingOf(d)
  BY DEF Init, ReadingOf, Idle
<1>4. \A i \in Items : HolderOf(i)
  BY DEF Init, HolderOf
<1>5. KeptInv
  BY DEF Init, KeptInv, Unprocessed
<1> QED BY <1>1, <1>2, <1>3, <1>4, <1>5 DEF IndInv

\* No reservation has the name of a manual run.
LEMMA NamesApart ==
    /\ \A n \in Names : n # None /\ n # OtherRun
    /\ \A d \in Dispatchers : d # None
    /\ \A f \in Inventories : f # None
OBVIOUS

\* What is queued is queued anew.
LEMMA Requeued ==
    ASSUME TypeOK, NEW i, work' = [work EXCEPT ![i] = Queued]
    PROVE  work' \in [Items -> Work]
<1>1. Queued \in Work
  BY DEF Queued, Work
<1> QED BY <1>1 DEF TypeOK

\* The writes and their confirmations.
LEMMA WriteInv == IndInv /\ Write => IndInv'
<1> SUFFICES ASSUME IndInv, Write PROVE IndInv'
  OBVIOUS
<1> USE DEF IndInv, Write
<1>1. TypeOK'
  BY DEF TypeOK, Inventories
<1>2. RunInv'
  BY DEF TypeOK, RunInv, RunOf, ProcessedIsBuilt, Inventories, Reservation, Project, Names, Revisions
<1>3. \A d \in Dispatchers : ReadingOf(d)'
  BY DEF TypeOK, ReadingOf, Inventories, Reading
<1>4. \A i \in Items : HolderOf(i)'
  BY DEF HolderOf
<1> QED BY <1>1, <1>2, <1>3, <1>4

LEMMA ConfirmInv == IndInv /\ Confirm => IndInv'
<1> SUFFICES ASSUME IndInv, Confirm PROVE IndInv'
  OBVIOUS
<1> USE DEF IndInv, Confirm
<1>1. TypeOK'
  <2>1. work' \in [Items -> Work]
    BY Requeued
  <2>2. project' \in Project
    <3>1. project.src + 1 \in Inventories
      BY DEF TypeOK, Inventories, Project
    <3> QED BY <3>1 DEF TypeOK, Project, Statuses
  <2> QED BY <2>1, <2>2 DEF TypeOK
<1>2. RunInv'
  BY DEF TypeOK, RunInv, RunOf, ProcessedIsBuilt, Inventories, Project
<1>3. \A d \in Dispatchers : ReadingOf(d)'
  BY DEF TypeOK, ReadingOf, Inventories, Reading, Project
<1>4. \A i \in Items : HolderOf(i)'
  BY DEF TypeOK, HolderOf, Queued
<1> QED BY <1>1, <1>2, <1>3, <1>4

\* The switches and the scan.
LEMMA SwitchInv == IndInv /\ (SwitchAdmin \/ SwitchProject) => IndInv'
<1> SUFFICES ASSUME IndInv, SwitchAdmin \/ SwitchProject PROVE IndInv'
  OBVIOUS
<1> USE DEF IndInv, Switchable
<1>1. CASE SwitchAdmin
  <2> USE <1>1 DEF SwitchAdmin
  <2>1. TypeOK'
    <3>1. admin.rev + 1 \in Revisions
      BY DEF TypeOK, Project, Revisions
    <3>2. admin' \in [on : BOOLEAN, rev : Revisions, backlog : Backlogs]
      BY <3>1 DEF TypeOK, Backlogs
    <3>3. scans' \subseteq Revisions
      BY <3>1 DEF TypeOK
    <3> QED BY <3>2, <3>3 DEF TypeOK
  <2>2. RunInv'
    BY DEF RunInv, RunOf, ProcessedIsBuilt
  <2>3. \A d \in Dispatchers : ReadingOf(d)'
    BY DEF ReadingOf
  <2>4. \A i \in Items : HolderOf(i)'
    BY DEF HolderOf
  <2> QED BY <2>1, <2>2, <2>3, <2>4
<1>2. CASE SwitchProject
  <2> USE <1>2 DEF SwitchProject
  <2> DEFINE item == <<"toggle", 0, project.rev + 1>>
  <2>0. /\ project.rev \in Int /\ project.rev + 1 \in Revisions
        /\ project'.rev = project.rev + 1 /\ project'.src = project.src
        /\ project'.consumed = project.consumed /\ project'.consumedSrc = project.consumedSrc
        /\ project' \in Project
    <3>1. project.rev \in Int /\ project.rev + 1 \in Revisions
      BY DEF TypeOK, Project, Revisions
    <3>2. CASE project.on
      <4>1. project' = [project EXCEPT !.on = FALSE, !.rev = @ + 1, !.backlog = "paused"]
        BY <3>2
      <4> HIDE DEF SwitchProject
      <4> QED BY <3>1, <4>1 DEF TypeOK, Project, Backlogs
    <3>3. CASE ~project.on
      <4>1. project' = [project EXCEPT !.on = TRUE, !.rev = @ + 1, !.backlog = "pending",
                                       !.blocked = None, !.blockedAdmin = 0,
                                       !.status = "pending"]
        BY <3>3
      <4> HIDE DEF SwitchProject
      <4> QED BY <3>1, <4>1 DEF TypeOK, Project, Backlogs, Statuses
    <3> QED BY <3>2, <3>3
  <2>1. TypeOK'
    <3>1. work' \in [Items -> Work]
      BY Requeued, ~project.on => work' = [work EXCEPT ![item] = Queued],
         project.on => work' = work DEF TypeOK
    <3> QED BY <3>1, <2>0 DEF TypeOK
  <2>2. RunInv'
    BY <2>0 DEF RunInv, RunOf, ProcessedIsBuilt
  <2>3. \A d \in Dispatchers : ReadingOf(d)'
    BY <2>0 DEF TypeOK, ReadingOf, Reading, Revisions
  <2>4. \A i \in Items : HolderOf(i)'
    BY DEF TypeOK, HolderOf, Queued
  <2> QED BY <2>1, <2>2, <2>3, <2>4
<1> QED BY <1>1, <1>2

LEMMA ScanInv == ASSUME NEW a \in scans PROVE IndInv /\ Scan(a) => IndInv'
<1> SUFFICES ASSUME IndInv, Scan(a) PROVE IndInv'
  OBVIOUS
<1> USE DEF IndInv, Scan
<1>1. TypeOK'
  <2>1. project' \in Project
    BY DEF TypeOK, Project, Backlogs
  <2>2. admin' \in [on : BOOLEAN, rev : Revisions, backlog : Backlogs]
    BY DEF TypeOK, Backlogs
  <2>3. work' \in [Items -> Work]
    BY Requeued DEF TypeOK
  <2> QED BY <2>1, <2>2, <2>3 DEF TypeOK
<1>2. RunInv'
  BY DEF TypeOK, RunInv, RunOf, ProcessedIsBuilt, Project
<1>3. \A d \in Dispatchers : ReadingOf(d)'
  BY DEF TypeOK, ReadingOf, Project
<1>4. \A i \in Items : HolderOf(i)'
  BY DEF TypeOK, HolderOf, Queued
<1> QED BY <1>1, <1>2, <1>3, <1>4

-----------------------------------------------------------------------------
(* Dispatchers.                                                            *)

\* Steps that only move a dispatcher and its items leave the runs alone.
RunsRest == UNCHANGED <<raw, built, res, slot, manual, project>>

LEMMA RestingRuns == IndInv /\ RunsRest => RunInv'
BY DEF IndInv, RunsRest, RunInv, RunOf, ProcessedIsBuilt

LEMMA ClaimInv == ASSUME NEW d \in Dispatchers, NEW i \in Items
                  PROVE  IndInv /\ Claim(d, i) => IndInv'
<1> SUFFICES ASSUME IndInv, Claim(d, i) PROVE IndInv'
  OBVIOUS
<1> USE DEF IndInv, Claim
<1>0. /\ work[i] \in Work /\ disp[d] \in Reading /\ project \in Project
      /\ work[i].attempts \in Nat
  BY DEF TypeOK, Work
<1>1. RunInv'
  BY RestingRuns DEF RunsRest
<1>2. CASE work[i].attempts >= MaxAttempts
  <2>0. work' = [work EXCEPT ![i].pending = FALSE] /\ disp' = disp
    BY <1>2
  <2>1. work' \in [Items -> Work]
    BY <1>0, <2>0 DEF TypeOK, Work
  <2>2. TypeOK'
    BY <2>0, <2>1 DEF TypeOK
  <2>3. \A e \in Dispatchers : ReadingOf(e)'
    BY <2>0 DEF ReadingOf
  <2>4. \A j \in Items : HolderOf(j)'
    BY <2>0 DEF TypeOK, HolderOf, Work
  <2> QED BY <1>1, <2>2, <2>3, <2>4
<1>3. CASE work[i].attempts < MaxAttempts
  <2> DEFINE read == [pc |-> "admin", item |-> i, on |-> project.on, rev |-> project.rev,
                      src |-> project.src, admin |-> 1, fp |-> 0]
  <2>1. /\ disp' = [disp EXCEPT ![d] = read]
        /\ work' = [work EXCEPT ![i].attempts = @ + 1, ![i].holder = d]
    <3>1. ~(work[i].attempts >= MaxAttempts)
      BY <1>0, <1>3
    <3> QED BY <3>1 DEF Idle
  <2>2. read \in Reading
    BY <1>0 DEF Reading, Project, Revisions, Inventories
  <2>3. work' \in [Items -> Work]
    <3>1. work[i].attempts + 1 \in 0 .. MaxAttempts
      BY <1>0, <1>3
    <3> QED BY <1>0, <2>1, <3>1 DEF TypeOK, Work
  <2>4. TypeOK'
    BY <2>1, <2>2, <2>3 DEF TypeOK
  <2>5. \A e \in Dispatchers : ReadingOf(e)'
    BY <2>1, <1>0 DEF TypeOK, ReadingOf, Project, Revisions, Inventories
  <2>6. \A j \in Items : HolderOf(j)'
    BY <2>1, <1>0 DEF TypeOK, HolderOf
  <2> QED BY <1>1, <2>4, <2>5, <2>6
<1> QED BY <1>0, <1>2, <1>3

\* A step of a dispatcher that keeps its item.
Reads(d) ==
    /\ disp[d].pc # "idle"
    /\ disp'[d].pc # "idle" /\ disp'[d].item = disp[d].item
    /\ disp'[d].on = disp[d].on /\ disp'[d].rev = disp[d].rev /\ disp'[d].src = disp[d].src
    /\ disp' \in [Dispatchers -> Reading]
    /\ \A e \in Dispatchers : e # d => disp'[e] = disp[e]
    /\ disp'[d].pc \in {"reserve", "refused", "busy"} =>
         disp'[d].src <= disp'[d].fp /\ disp'[d].fp <= raw

LEMMA ReadsInv ==
    ASSUME IndInv, NEW d \in Dispatchers, Reads(d), UNCHANGED <<raw, work>>,
           project'.rev = project.rev, project'.on = project.on, project'.src = project.src
    PROVE  /\ \A e \in Dispatchers : ReadingOf(e)'
           /\ \A i \in Items : HolderOf(i)'
<1> USE DEF IndInv, Reads
<1>1. \A e \in Dispatchers : ReadingOf(e)'
  BY DEF ReadingOf
<1>2. \A i \in Items : HolderOf(i)'
  BY DEF HolderOf, TypeOK, Work
<1> QED BY <1>1, <1>2

LEMMA GotoReads ==
    ASSUME IndInv, NEW d \in Dispatchers, NEW pc, Goto(d, pc), disp[d].pc # "idle",
           pc \in {"refused", "busy", "backlog", "finish", "wait", "error"},
           pc \in {"refused", "busy"} => disp[d].pc \in {"reserve", "refused", "busy"}
    PROVE  Reads(d)
BY DEF IndInv, TypeOK, Reads, Goto, ReadingOf, Reading

LEMMA LookInv == ASSUME NEW d \in Dispatchers
                 PROVE  IndInv /\ (ReadAdmin(d) \/ ReadFingerprint(d)) => IndInv'
<1> SUFFICES ASSUME IndInv, ReadAdmin(d) \/ ReadFingerprint(d) PROVE IndInv'
  OBVIOUS
<1>1. UNCHANGED <<raw, built, project, admin, scans, work, res, slot, manual, disturbed, raced>>
  BY DEF ReadAdmin, ReadFingerprint
<1>2. Reads(d)
  <2>1. /\ disp[d] \in Reading /\ disp \in [Dispatchers -> Reading]
        /\ disp[d].src \in Int /\ project.src \in Int /\ raw \in Inventories /\ raw \in Int
        /\ admin.rev \in Revisions /\ project.src <= raw
    BY DEF IndInv, TypeOK, Reading, Inventories, Project, RunInv
  <2>2. CASE ReadAdmin(d)
    BY <2>1, <2>2 DEF ReadAdmin, Reads, Reading
  <2>3. CASE ReadFingerprint(d)
    BY <2>1, <2>3 DEF ReadFingerprint, Reads, Reading, IndInv, ReadingOf
  <2> QED BY <2>2, <2>3
<1>3. TypeOK'
  BY <1>1, <1>2 DEF IndInv, TypeOK, Reads
<1>4. RunInv'
  BY <1>1, RestingRuns DEF RunsRest
<1> QED BY <1>1, <1>2, <1>3, <1>4, ReadsInv DEF IndInv

LEMMA RefusedInv == ASSUME NEW d \in Dispatchers PROVE IndInv /\ Refused(d) => IndInv'
<1> SUFFICES ASSUME IndInv, Refused(d) PROVE IndInv'
  OBVIOUS
<1>1. UNCHANGED <<raw, built, project, admin, scans, work, res, slot, manual, disturbed>>
  BY DEF Refused
<1>2. Reads(d)
  BY GotoReads DEF Refused
<1>3. raced' \in BOOLEAN
  BY DEF Refused, IndInv, TypeOK
<1>4. TypeOK'
  BY <1>1, <1>2, <1>3 DEF IndInv, TypeOK, Reads
<1>5. RunInv'
  BY <1>1, RestingRuns DEF RunsRest
<1> QED BY <1>1, <1>2, <1>4, <1>5, ReadsInv DEF IndInv

LEMMA ReserveInv == ASSUME NEW d \in Dispatchers PROVE IndInv /\ Reserve(d) => IndInv'
<1> SUFFICES ASSUME IndInv, Reserve(d) PROVE IndInv'
  OBVIOUS
<1>1. UNCHANGED <<raw, built, admin, scans, work, manual, disturbed, raced>> /\ disp[d].pc = "reserve"
  BY DEF Reserve
<1>2. Reads(d)
  <2>1. \E pc \in {"refused", "busy", "error", "backlog"} : Goto(d, pc)
    BY DEF Reserve
  <2> QED BY <2>1, <1>1, GotoReads
<1>3. CASE UNCHANGED <<res, slot, project>>
  <2>1. TypeOK'
    BY <1>1, <1>2, <1>3 DEF IndInv, TypeOK, Reads
  <2>2. RunInv'
    BY <1>1, <1>3, RestingRuns DEF RunsRest
  <2> QED BY <1>1, <1>2, <1>3, <2>1, <2>2, ReadsInv DEF IndInv
<1>4. CASE ~UNCHANGED <<res, slot, project>>
  <2> DEFINE n == NameOf(d)
             new == [src |-> project.src, intent |-> "ready", exec |-> "none", taken |-> 0]
  <2>1. /\ Admits(d) /\ slot = None
        /\ res' = [res EXCEPT ![n] = new]
        /\ slot' = n
        /\ project' = [project EXCEPT !.status = "preparing"]
    BY <1>4 DEF Reserve, NoRun
  <2>2. /\ n \in Names /\ n[1] = disp[d].fp /\ n[1] <= raw
        /\ project.src \in Inventories /\ new \in Reservation
    BY <1>1 DEF IndInv, TypeOK, Reading, NameOf, Names, ReadingOf, Project, Reservation, Inventories
  <2>3. project' \in Project /\ project'.rev = project.rev /\ project'.on = project.on
        /\ project'.src = project.src /\ project'.consumed = project.consumed
        /\ project'.consumedSrc = project.consumedSrc
    BY <2>1 DEF IndInv, TypeOK, Project, Statuses
  <2>4. TypeOK'
    BY <1>1, <1>2, <2>1, <2>2, <2>3 DEF IndInv, TypeOK, Reads
  <2>5. RunInv'
    <3>1. \A m \in Names : RunOf(m)'
      BY <1>1, <2>1, <2>2, NamesApart DEF IndInv, RunInv, RunOf, Live, TypeOK
    <3> QED BY <3>1, <1>1, <2>1, <2>3 DEF IndInv, RunInv, ProcessedIsBuilt
  <2> QED BY <1>1, <1>2, <2>3, <2>4, <2>5, ReadsInv DEF IndInv
<1> QED BY <1>3, <1>4

\* A dispatcher lets go of its item.
LEMMA LetsGo ==
    ASSUME IndInv, NEW d \in Dispatchers, disp[d].pc # "idle",
           disp' = [disp EXCEPT ![d] = Idle],
           project'.rev = project.rev, project'.on = project.on, project'.src = project.src,
           raw' = raw, DOMAIN work' = Items,
           \A i \in Items : i # disp[d].item => work'[i] = work[i],
           work'[disp[d].item] # work[disp[d].item] => work'[disp[d].item].holder = None,
           work[disp[d].item].holder = d => work'[disp[d].item].holder = None
    PROVE  /\ disp' \in [Dispatchers -> Reading]
           /\ \A e \in Dispatchers : ReadingOf(e)'
           /\ \A i \in Items : HolderOf(i)'
<1>1. Idle \in Reading /\ Idle.pc = "idle"
  BY DEF Idle, Reading, Revisions, Inventories
<1>2. disp' \in [Dispatchers -> Reading]
  BY <1>1 DEF IndInv, TypeOK
<1>3. \A e \in Dispatchers : ReadingOf(e)'
  BY <1>1 DEF IndInv, TypeOK, ReadingOf
<1>4. ASSUME NEW i \in Items PROVE HolderOf(i)'
  <2>1. CASE work'[i] = work[i]
    BY <2>1 DEF IndInv, TypeOK, HolderOf, Work
  <2>2. CASE work'[i] # work[i]
    BY <2>2 DEF HolderOf
  <2> QED BY <2>1, <2>2
<1> QED BY <1>2, <1>3, <1>4

LEMMA FinishInv == ASSUME NEW d \in Dispatchers PROVE IndInv /\ Finish(d) => IndInv'
<1> SUFFICES ASSUME IndInv, Finish(d) PROVE IndInv'
  OBVIOUS
<1> DEFINE i == disp[d].item
           pc == disp[d].pc
<1>1. UNCHANGED <<raw, built, admin, scans, res, slot, manual, disturbed, raced>>
      /\ pc \in {"finish", "backlog", "wait", "error"} /\ disp' = [disp EXCEPT ![d] = Idle]
  BY DEF Finish
<1>2. i \in Items /\ work[i] \in Work
  BY <1>1 DEF IndInv, TypeOK, ReadingOf
<1>3. /\ project' \in Project /\ project'.rev = project.rev /\ project'.on = project.on
      /\ project'.src = project.src /\ project'.consumed = project.consumed
      /\ project'.consumedSrc = project.consumedSrc
  BY DEF Finish, IndInv, TypeOK, Project, Backlogs
<1>4. /\ work' \in [Items -> Work]
      /\ \A j \in Items : j # i => work'[j] = work[j]
      /\ work[i].holder = d => work'[i].holder = None
      /\ work[i].holder # d => work' = work
  <2>1. CASE work[i].holder # d
    BY <2>1 DEF Finish, IndInv, TypeOK
  <2>2. CASE work[i].holder = d
    <3>1. work' = [work EXCEPT ![i] = After(work[i], pc)]
      BY <2>2 DEF Finish
    <3>2. work[i].attempts > 0
      BY <1>2, <2>2, NamesApart DEF IndInv, HolderOf
    <3>3. After(work[i], pc) \in Work /\ After(work[i], pc).holder = None
      <4>1. work[i].attempts - 1 \in 0 .. MaxAttempts /\ (work[i].attempts < MaxAttempts) \in BOOLEAN
        BY <1>2, <3>2 DEF Work
      <4>2. CASE pc \in {"finish", "backlog"}
        BY <1>2, <4>2 DEF After, Work
      <4>3. CASE pc = "wait"
        BY <1>2, <4>1, <4>3 DEF After, Work
      <4>4. CASE pc = "error"
        BY <1>2, <4>1, <4>4 DEF After, Work
      <4> QED BY <1>1, <4>2, <4>3, <4>4
    <3> QED BY <2>2, <3>1, <3>3, <1>2 DEF IndInv, TypeOK
  <2> QED BY <2>1, <2>2
<1>5. disp' \in [Dispatchers -> Reading] /\ (\A e \in Dispatchers : ReadingOf(e)')
      /\ \A j \in Items : HolderOf(j)'
  BY <1>1, <1>2, <1>3, <1>4, LetsGo
<1>6. TypeOK'
  BY <1>1, <1>3, <1>4, <1>5 DEF IndInv, TypeOK
<1>7. RunInv'
  BY <1>1, <1>3 DEF IndInv, RunInv, RunOf, ProcessedIsBuilt
<1> QED BY <1>5, <1>6, <1>7 DEF IndInv

LEMMA CrashInv == ASSUME NEW d \in Dispatchers PROVE IndInv /\ Crash(d) => IndInv'
<1> SUFFICES ASSUME IndInv, Crash(d) PROVE IndInv'
  OBVIOUS
<1> DEFINE i == disp[d].item
<1>1. UNCHANGED <<raw, built, project, admin, scans, res, slot, manual, raced>>
      /\ disp[d].pc # "idle" /\ disp' = [disp EXCEPT ![d] = Idle]
  BY DEF Crash
<1>2. disturbed' \in 0 .. MaxDisturbed
  BY DEF Crash, Disturb, IndInv, TypeOK
<1>3. i \in Items /\ work[i] \in Work
  BY <1>1 DEF IndInv, TypeOK, ReadingOf
<1>4. /\ work' \in [Items -> Work]
      /\ \A j \in Items : j # i => work'[j] = work[j]
      /\ work[i].holder = d => work'[i].holder = None
      /\ work[i].holder # d => work' = work
  BY <1>3 DEF Crash, IndInv, TypeOK, Work
<1>5. disp' \in [Dispatchers -> Reading] /\ (\A e \in Dispatchers : ReadingOf(e)')
      /\ \A j \in Items : HolderOf(j)'
  BY <1>1, <1>3, <1>4, LetsGo
<1>6. TypeOK'
  BY <1>1, <1>2, <1>4, <1>5 DEF IndInv, TypeOK
<1>7. RunInv'
  BY <1>1, RestingRuns DEF RunsRest
<1> QED BY <1>5, <1>6, <1>7 DEF IndInv

-----------------------------------------------------------------------------
(* The run of a reservation.                                               *)

\* Dispatchers and items while a run goes on: an item may be queued again.
Aside ==
    /\ project' \in Project
    /\ project'.rev = project.rev /\ project'.on = project.on /\ project'.src = project.src
    /\ UNCHANGED <<raw, admin, scans, disp>>
    /\ \/ work' = work
       \/ \E i \in {<<"source", 0, project.src>>} : work' = [work EXCEPT ![i] = Queued]

LEMMA Bystanders ==
    ASSUME IndInv, Aside
    PROVE  /\ work' \in [Items -> Work]
           /\ \A d \in Dispatchers : ReadingOf(d)'
           /\ \A i \in Items : HolderOf(i)'
<1>1. work' \in [Items -> Work]
  BY Requeued DEF Aside, IndInv, TypeOK
<1>2. \A d \in Dispatchers : ReadingOf(d)'
  BY DEF IndInv, Aside, ReadingOf
<1>3. \A i \in Items : HolderOf(i)'
  BY DEF IndInv, TypeOK, Aside, HolderOf, Queued
<1> QED BY <1>1, <1>2, <1>3

\* A live reservation moves on, without giving the slot back.
LEMMA GoesOn ==
    ASSUME IndInv, NEW n \in Names, NEW r \in Reservation, res' = [res EXCEPT ![n] = r],
           res[n].intent \in Live, r.intent \in Live, r.src = res[n].src,
           RunOf(n)', project'.consumed = project.consumed,
           project'.consumedSrc = project.consumedSrc,
           Aside, UNCHANGED <<slot, manual>>, disturbed' \in 0 .. MaxDisturbed, raced' = raced,
           built' \in Inventories, built <= built', built' <= raw,
           built' = built \/ res[n].exec = "running"
    PROVE  IndInv'
<1>1. TypeOK'
  BY Bystanders DEF IndInv, TypeOK, Aside
<1>2. \A m \in Names : m # n => res[m].intent \notin Live /\ res[m].exec = "none"
  BY DEF IndInv, RunInv, RunOf, Live
<1>3. slot = n /\ manual.phase = "none"
  BY NamesApart DEF IndInv, RunInv, RunOf, TypeOK
<1>4. \A m \in Names : m # n => RunOf(m)'
  BY <1>2 DEF IndInv, TypeOK, RunInv, RunOf, Aside, Inventories, Names
<1>5. RunInv'
  BY <1>3, <1>4 DEF IndInv, TypeOK, RunInv, ProcessedIsBuilt, Aside, Inventories, Project
<1> QED BY <1>1, <1>5, Bystanders DEF IndInv

\* It ends, and gives the slot back.
LEMMA GivesBack ==
    ASSUME IndInv, NEW n \in Names, NEW s \in {"succeeded", "failed", "cancelled"},
           res[n].intent \in Live, res' = [res EXCEPT ![n] = Over(s)],
           slot' = None \/ slot' = IF slot = n THEN None ELSE slot,
           s = "succeeded" => n[1] <= built,
           ProcessedIsBuilt', Aside, UNCHANGED <<built, manual, raced>>,
           disturbed' \in 0 .. MaxDisturbed
    PROVE  IndInv' /\ slot = n /\ slot' = None
<1>1. Over(s) \in Reservation /\ Over(s).intent = s /\ Over(s).exec = "none"
  BY DEF Over, NoRun, Reservation, Inventories
<1>2. \A m \in Names : m # n => res[m].intent \notin Live /\ res[m].exec = "none"
  BY DEF IndInv, RunInv, RunOf, Live
<1>3. slot = n /\ slot' = None /\ manual.phase = "none"
  BY NamesApart DEF IndInv, RunInv, RunOf, TypeOK
<1>4. TypeOK'
  BY <1>1, <1>3, Bystanders DEF IndInv, TypeOK, Aside
<1>5. \A m \in Names : RunOf(m)'
  BY <1>1, <1>2 DEF IndInv, TypeOK, RunInv, RunOf, Aside, Live
<1>6. RunInv'
  BY <1>3, <1>5 DEF IndInv, RunInv, Aside
<1> QED BY <1>3, <1>4, <1>6, Bystanders DEF IndInv

LEMMA BeginInv == ASSUME NEW n \in Names PROVE IndInv /\ Begin(n) => IndInv'
<1> SUFFICES ASSUME IndInv, Begin(n) PROVE IndInv'
  OBVIOUS
<1>1. res[n] \in Reservation /\ res[n].intent = "ready" /\ disturbed' \in 0 .. MaxDisturbed
      /\ UNCHANGED <<raw, built, admin, scans, manual, disp, disturbed, raced>>
  BY DEF Begin, IndInv, TypeOK
<1>2. /\ project' \in Project /\ project'.rev = project.rev /\ project'.on = project.on
      /\ project'.src = project.src /\ project'.consumed = project.consumed
      /\ project'.consumedSrc = project.consumedSrc
  <2>1. \E s \in Statuses : project' = [project EXCEPT !.status = s]
    BY DEF Begin, Statuses
  <2> QED BY <2>1 DEF IndInv, TypeOK, Project
<1>3. Aside
  BY <1>1, <1>2 DEF Aside, Begin
<1>4. CASE PauseReason(n) = "none"
  <2> DEFINE r == [res[n] EXCEPT !.intent = "invoking"]
  <2>1. res' = [res EXCEPT ![n] = r] /\ slot' = slot
    BY <1>4 DEF Begin
  <2>2. r \in Reservation /\ r.intent = "invoking" /\ r.src = res[n].src /\ r.exec = res[n].exec
    BY <1>1 DEF Reservation
  <2>3. RunOf(n)'
    BY <1>1, <2>1, <2>2 DEF IndInv, TypeOK, RunInv, RunOf, Live
  <2>4. built \in Inventories /\ built <= built /\ built <= raw
    BY DEF IndInv, TypeOK, RunInv, Inventories
  <2> QED BY <1>1, <1>2, <1>3, <2>1, <2>2, <2>3, <2>4, GoesOn DEF Live
<1>5. CASE PauseReason(n) # "none"
  <2>1. res' = [res EXCEPT ![n] = Over("cancelled")] /\ slot' = None
    BY <1>5 DEF Begin
  <2>2. ProcessedIsBuilt'
    BY <1>1, <1>2 DEF IndInv, RunInv, ProcessedIsBuilt
  <2> QED BY <1>1, <1>3, <2>1, <2>2, GivesBack DEF Live
<1> QED BY <1>4, <1>5

LEMMA FailIntentInv == ASSUME NEW n \in Names PROVE IndInv /\ FailIntent(n) => IndInv'
<1> SUFFICES ASSUME IndInv, FailIntent(n) PROVE IndInv'
  OBVIOUS
<1>1. /\ project' \in Project /\ project'.rev = project.rev /\ project'.on = project.on
      /\ project'.src = project.src /\ project'.consumed = project.consumed
      /\ project'.consumedSrc = project.consumedSrc
  BY DEF FailIntent, IndInv, TypeOK, Project, Names, Statuses
<1>2. Aside
  BY <1>1 DEF Aside, FailIntent
<1>3. ProcessedIsBuilt'
  BY <1>1 DEF FailIntent, IndInv, RunInv, ProcessedIsBuilt
<1>4. disturbed' \in 0 .. MaxDisturbed
  BY DEF FailIntent, Disturb, IndInv, TypeOK
<1> QED BY <1>2, <1>3, <1>4, GivesBack DEF FailIntent, Live

LEMMA WorkerInv ==
    ASSUME NEW n \in Names, NEW s \in {"FAILED", "CANCELLED"}
    PROVE  IndInv /\ (Start(n) \/ Succeed(n) \/ Abort(n, s)) => IndInv'
<1> SUFFICES ASSUME IndInv, Start(n) \/ Succeed(n) \/ Abort(n, s) PROVE IndInv'
  OBVIOUS
<1>1. /\ res[n] \in Reservation /\ res[n].intent \in Live
      /\ UNCHANGED <<raw, project, admin, scans, work, slot, manual, disp, raced>>
      /\ res[n].exec # "none" => res[n].intent = "compiling"
      /\ disturbed' \in 0 .. MaxDisturbed
  BY DEF Start, Succeed, Abort, Disturb, IndInv, TypeOK, RunInv, RunOf, Live
<1>2. Aside
  BY <1>1 DEF Aside, IndInv, TypeOK
<1>3. built \in Int /\ raw \in Int /\ built \in Inventories /\ raw \in Inventories /\ built <= raw
      /\ n[1] \in Int /\ res[n].src \in Int /\ res[n].taken \in Int
  BY <1>1 DEF IndInv, TypeOK, RunInv, Inventories, Reservation, Names
<1>4. CASE Start(n)
  <2> DEFINE r == [res[n] EXCEPT !.intent = "compiling", !.exec = "running", !.taken = raw]
  <2>1. res' = [res EXCEPT ![n] = r] /\ built' = built /\ res[n].exec = "none"
    BY <1>4 DEF Start, IndInv, RunInv, RunOf
  <2>2. /\ r \in Reservation /\ r.intent = "compiling" /\ r.src = res[n].src
        /\ r.exec = "running" /\ r.taken = raw
    BY <1>1, <1>3 DEF Reservation
  <2>3. RunOf(n)'
    BY <1>1, <1>3, <2>1, <2>2 DEF IndInv, TypeOK, RunInv, RunOf, Live
  <2>4. built' \in Inventories /\ built <= built' /\ built' <= raw
    BY <1>3, <2>1
  <2> HIDE DEF r
  <2> QED BY <1>1, <1>2, <2>1, <2>2, <2>3, <2>4, GoesOn DEF Live
<1>5. CASE Succeed(n)
  <2> DEFINE r == [res[n] EXCEPT !.exec = "SUCCEEDED"]
  <2>1. /\ res' = [res EXCEPT ![n] = r] /\ built' = res[n].taken /\ res[n].exec = "running"
        /\ built <= res[n].taken /\ res[n].taken <= raw
    BY <1>5 DEF Succeed, IndInv, RunInv, RunOf
  <2>2. /\ r \in Reservation /\ r.intent = "compiling" /\ r.src = res[n].src
        /\ r.exec = "SUCCEEDED" /\ r.taken = res[n].taken
    BY <1>1, <2>1 DEF Reservation
  <2>3. RunOf(n)'
    BY <1>1, <1>3, <2>1, <2>2 DEF IndInv, TypeOK, RunInv, RunOf, Live
  <2>4. built' \in Inventories
    BY <1>1, <2>1 DEF Reservation
  <2> QED BY <1>1, <1>2, <1>3, <2>1, <2>2, <2>3, <2>4, GoesOn DEF Live
<1>6. CASE Abort(n, s)
  <2> DEFINE r == [res[n] EXCEPT !.exec = s]
  <2>1. res' = [res EXCEPT ![n] = r] /\ built' = built /\ res[n].exec = "running"
    BY <1>6 DEF Abort
  <2>2. /\ r \in Reservation /\ r.intent = "compiling" /\ r.src = res[n].src
        /\ r.exec = s /\ r.taken = res[n].taken
    BY <1>1, <2>1 DEF Reservation
  <2>3. RunOf(n)'
    BY <1>1, <1>3, <2>1, <2>2 DEF IndInv, TypeOK, RunInv, RunOf, Live
  <2>4. built' \in Inventories /\ built <= built' /\ built' <= raw
    BY <1>3, <2>1
  <2> HIDE DEF r
  <2> QED BY <1>1, <1>2, <2>1, <2>2, <2>3, <2>4, GoesOn DEF Live
<1> QED BY <1>4, <1>5, <1>6

LEMMA SettleInv == ASSUME NEW n \in Names PROVE IndInv /\ Settle(n) => IndInv'
<1> SUFFICES ASSUME IndInv, Settle(n) PROVE IndInv'
  OBVIOUS
<1> DEFINE e == res[n].exec
           p == Outcome(n, project)
           s == IntentOf(e)
<1>1. /\ res[n] \in Reservation /\ res[n].intent = "compiling"
      /\ e \in {"SUCCEEDED", "FAILED", "CANCELLED"} /\ project \in Project
      /\ res' = [res EXCEPT ![n] = Over(s)]
      /\ slot' = IF slot = n THEN None ELSE slot
      /\ UNCHANGED <<raw, built, admin, scans, manual, disp, disturbed, raced>>
      /\ disturbed' \in 0 .. MaxDisturbed
  BY DEF Settle, IndInv, TypeOK, Ended
<1>2. /\ p \in Project /\ p.rev = project.rev /\ p.on = project.on /\ p.src = project.src
      /\ e = "SUCCEEDED" => p.consumed = n[1] /\ p.consumedSrc = res[n].src
      /\ e # "SUCCEEDED" => p.consumed = project.consumed /\ p.consumedSrc = project.consumedSrc
  <2>1. n[1] \in Inventories /\ n[3] \in Revisions /\ res[n].src \in Inventories
    BY <1>1 DEF Names, Reservation
  <2>2. CASE e = "SUCCEEDED"
    BY <1>1, <2>1, <2>2 DEF Outcome, Project, Statuses
  <2>3. CASE e = "FAILED"
    BY <1>1, <2>1, <2>3 DEF Outcome, Project, Statuses
  <2>4. CASE e = "CANCELLED"
    BY <1>1, <2>1, <2>4 DEF Outcome, Project, Statuses
  <2> QED BY <1>1, <2>2, <2>3, <2>4
<1>3. /\ project' \in Project /\ project'.rev = project.rev /\ project'.on = project.on
      /\ project'.src = project.src
      /\ project'.consumed = p.consumed /\ project'.consumedSrc = p.consumedSrc
  <2>1. project' = p \/ project' = [p EXCEPT !.status = "pending"]
    BY DEF Settle
  <2> QED BY <1>2, <2>1 DEF Project, Statuses
<1>4. Aside
  BY <1>1, <1>3 DEF Aside, Settle
<1>5. /\ s \in {"succeeded", "failed", "cancelled"}
      /\ s = "succeeded" => e = "SUCCEEDED"
  BY <1>1 DEF IntentOf
<1>6. e = "SUCCEEDED" => n[1] <= built /\ res[n].src <= built
  BY <1>1 DEF IndInv, TypeOK, RunInv, RunOf, Inventories, Reservation, Names
<1>7. ProcessedIsBuilt'
  BY <1>1, <1>2, <1>3, <1>6 DEF IndInv, RunInv, ProcessedIsBuilt, TypeOK, Inventories
<1> HIDE DEF p, s, e
<1> QED BY <1>1, <1>4, <1>5, <1>6, <1>7, GivesBack DEF Live

LEMMA ManualInv == IndInv /\ Manual => IndInv'
<1> SUFFICES ASSUME IndInv, Manual PROVE IndInv'
  OBVIOUS
<1>1. UNCHANGED <<raw, project, admin, scans, work, res, disp, raced>>
  BY DEF Manual, ManualReserve, ManualMaterialize, ManualEnd
<1>2. /\ \A d \in Dispatchers : ReadingOf(d)'
      /\ \A i \in Items : HolderOf(i)'
  BY <1>1 DEF IndInv, ReadingOf, HolderOf
<1>3. built \in Int /\ raw \in Int /\ raw \in Inventories /\ built <= raw
  BY DEF IndInv, TypeOK, RunInv, Inventories
<1>4. CASE ManualReserve
  <2>1. TypeOK'
    BY <1>1, <1>4 DEF ManualReserve, Disturb, IndInv, TypeOK
  <2>2. RunInv'
    BY <1>1, <1>4, NamesApart DEF ManualReserve, IndInv, TypeOK, RunInv, RunOf, ProcessedIsBuilt
  <2> QED BY <1>2, <2>1, <2>2 DEF IndInv
<1>5. CASE ManualMaterialize
  <2>1. TypeOK'
    BY <1>1, <1>5 DEF ManualMaterialize, IndInv, TypeOK
  <2>2. RunInv'
    BY <1>1, <1>3, <1>5 DEF ManualMaterialize, IndInv, TypeOK, RunInv, RunOf, ProcessedIsBuilt
  <2> QED BY <1>2, <2>1, <2>2 DEF IndInv
<1>6. CASE ManualEnd
  <2>1. slot = OtherRun /\ slot' = None /\ built' \in Inventories /\ built <= built' /\ built' <= raw
    BY <1>3, <1>6 DEF ManualEnd, IndInv, TypeOK, RunInv
  <2>2. \A n \in Names : res[n].intent \notin Live /\ res[n].exec = "none"
    BY <2>1, NamesApart DEF IndInv, RunInv, RunOf, Live
  <2>3. TypeOK'
    <3>1. manual' \in [phase : {"none", "accepted", "running"}, taken : Inventories]
      <4>1. manual' = [manual EXCEPT !.phase = "none", !.taken = 0]
        BY <1>6 DEF ManualEnd
      <4>2. 0 \in Inventories
        BY DEF Inventories
      <4> QED BY <4>1, <4>2 DEF IndInv, TypeOK
    <3>2. disturbed' = disturbed
      BY <1>6 DEF ManualEnd
    <3> QED BY <1>1, <2>1, <3>1, <3>2 DEF IndInv, TypeOK
  <2>4. \A n \in Names : RunOf(n)'
    BY <1>1, <1>3, <2>1, <2>2 DEF IndInv, TypeOK, RunInv, RunOf, Inventories, Names
  <2>5. RunInv'
    BY <1>1, <1>3, <1>6, <2>1, <2>4 DEF ManualEnd, IndInv, TypeOK, RunInv, ProcessedIsBuilt,
       Inventories, Project
  <2> QED BY <1>2, <2>3, <2>5 DEF IndInv
<1> QED BY <1>4, <1>5, <1>6 DEF Manual

LEMMA StutterInv == IndInv /\ UNCHANGED vars => IndInv'
BY DEF IndInv, vars, TypeOK, RunInv, RunOf, ProcessedIsBuilt, ReadingOf, HolderOf

\* Every step preserves the invariant.
LEMMA StepInv == IndInv /\ [Next]_vars => IndInv'
<1> SUFFICES ASSUME IndInv, [Next]_vars PROVE IndInv'
  OBVIOUS
<1>1. CASE Write \/ Confirm \/ SwitchAdmin \/ SwitchProject \/ Manual
  BY <1>1, WriteInv, ConfirmInv, SwitchInv, ManualInv
<1>2. CASE \E a \in scans : Scan(a)
  BY <1>2, ScanInv
<1>3. CASE \E d \in Dispatchers : (\E i \in Items : Claim(d, i)) \/ Step(d) \/ Crash(d)
  BY <1>3, ClaimInv, LookInv, ReserveInv, RefusedInv, FinishInv, CrashInv DEF Step
<1>4. CASE \E n \in Names :
             Run(n) \/ FailIntent(n) \/ \E s \in {"FAILED", "CANCELLED"} : Abort(n, s)
  BY <1>4, BeginInv, WorkerInv, SettleInv, FailIntentInv DEF Run
<1>5. CASE UNCHANGED vars
  BY <1>5, StutterInv
<1> QED BY <1>1, <1>2, <1>3, <1>4, <1>5 DEF Next

-----------------------------------------------------------------------------
(* Somebody answers for the stored inventory.                              *)

\* An item that was just queued.
Fresh(i) == i \in Items /\ work'[i] = Queued

LEMMA FreshKeeps == ASSUME NEW i, Fresh(i), disturbed' \in Nat PROVE Kept'
<1>1. work'[i].pending /\ work'[i].attempts = 0 /\ work'[i].holder = None
  BY DEF Fresh, Queued
<1>2. InCharge(i)'
  BY <1>1 DEF InCharge
<1> QED BY <1>2 DEF Kept, Fresh

\* A new content, its confirmation, and the switches.
LEMMA SourcesKept ==
    IndInv /\ IndInv' /\ (Write \/ Confirm \/ SwitchAdmin \/ SwitchProject) => KeptInv'
<1> SUFFICES ASSUME IndInv, IndInv', Write \/ Confirm \/ SwitchAdmin \/ SwitchProject,
                    Unprocessed'
             PROVE  Kept'
  BY DEF KeptInv
<1> USE DEF IndInv
<1>1. project.src \in Int /\ raw \in Int /\ project.src <= raw /\ disturbed' \in Nat
  BY DEF TypeOK, Project, Inventories, RunInv
<1>2. ~Write
  BY <1>1 DEF Write, Unprocessed
<1>3. CASE Confirm
  <2>1. project'.src = project.src + 1 /\ raw' = raw
    BY <1>3 DEF Confirm, TypeOK, Project
  <2>2. <<"source", 0, project.src + 1>> \in Items
    BY <1>1, <2>1 DEF Unprocessed, Items, TypeOK, Inventories, Project
  <2>3. Fresh(<<"source", 0, project.src + 1>>)
    BY <1>3, <2>2 DEF Fresh, Confirm, TypeOK
  <2> QED BY <1>1, <2>3, FreshKeeps
<1>4. CASE SwitchAdmin
  <2>1. admin'.on /\ ~admin.on
    BY <1>4 DEF SwitchAdmin, Unprocessed, On
  <2>2. admin'.rev \in scans'
    BY <1>4, <2>1 DEF SwitchAdmin
  <2> QED BY <2>2 DEF Kept
<1>5. CASE SwitchProject
  <2>1. ~project.on
    BY <1>5 DEF SwitchProject, Unprocessed, On, TypeOK, Project
  <2>2. work' = [work EXCEPT ![<<"toggle", 0, project.rev + 1>>] = Queued]
        /\ project'.rev = project.rev + 1
    <3>1. /\ work' = [work EXCEPT ![<<"toggle", 0, project.rev + 1>>] = Queued]
          /\ project' = [project EXCEPT !.on = TRUE, !.rev = @ + 1, !.backlog = "pending",
                                        !.blocked = None, !.blockedAdmin = 0,
                                        !.status = "pending"]
      BY <1>5, <2>1 DEF SwitchProject
    <3> QED BY <3>1 DEF TypeOK, Project
  <2>3. <<"toggle", 0, project.rev + 1>> \in Items
    BY <2>2 DEF Items, TypeOK, Project
  <2>4. Fresh(<<"toggle", 0, project.rev + 1>>)
    BY <2>2, <2>3 DEF Fresh, TypeOK
  <2> QED BY <1>1, <2>4, FreshKeeps
<1> QED BY <1>2, <1>3, <1>4, <1>5

\* What was in charge stays so while others work.
LEMMA StaysInCharge ==
    ASSUME NEW i \in Items, InCharge(i), work'[i] = work[i],
           disturbed \in Nat, disturbed' \in Nat, disturbed <= disturbed',
           work[i].attempts \in Nat, admin'.rev = admin.rev,
           project'.rev = project.rev, project'.src = project.src,
           work[i].holder # None => disp'[work[i].holder] = disp[work[i].holder]
    PROVE  InCharge(i)'
BY DEF InCharge, Promising

\* A step that leaves the switches and the sources alone.
Still ==
    /\ UNCHANGED <<raw, admin>>
    /\ admin.rev \in scans => admin.rev \in scans'
    /\ built' # raw => built # raw
    /\ project'.on = project.on /\ project'.rev = project.rev /\ project'.src = project.src
    /\ raced => raced'
    /\ Blocked(raw) /\ slot \notin Names => Blocked(raw)' /\ slot' \notin Names
    /\ res[Current].intent # "none" => res'[Current] = res[Current]
    /\ slot = Current => slot' = slot

LEMMA StillKept ==
    ASSUME IndInv, KeptInv, Unprocessed', Still,
           ASSUME NEW i \in Items, Unprocessed, InCharge(i) PROVE Kept'
    PROVE  Kept'
<1>1. Unprocessed /\ Current' = Current
  BY DEF Unprocessed, Still, On, Current
<1>2. CASE \E i \in Items : InCharge(i)
  BY <1>1, <1>2
<1>3. CASE ~\E i \in Items : InCharge(i)
  BY <1>1, <1>3 DEF KeptInv, Kept, Still, Live
<1> QED BY <1>2, <1>3

LEMMA ScanKept == ASSUME NEW a \in scans PROVE IndInv /\ KeptInv /\ IndInv' /\ Scan(a) => KeptInv'
<1> SUFFICES ASSUME IndInv, KeptInv, IndInv', Scan(a), Unprocessed' PROVE Kept'
  BY DEF KeptInv
<1>1. /\ UNCHANGED <<raw, built, res, slot, manual, disp, disturbed, raced>>
      /\ disturbed \in Nat /\ admin'.rev = admin.rev /\ admin'.on = admin.on
      /\ project'.rev = project.rev /\ project'.src = project.src /\ project'.on = project.on
      /\ project'.blocked = project.blocked /\ project'.blockedAdmin = project.blockedAdmin
  BY DEF Scan, IndInv, TypeOK, Project
<1>2. CASE a = admin.rev
  <2> DEFINE i == <<"backlog", a, project.src>>
  <2>1. work' = [work EXCEPT ![i] = Queued]
    BY <1>1, <1>2 DEF Scan, Unprocessed, On
  <2>2. i \in Items
    BY DEF Items, IndInv, TypeOK, Project
  <2>3. Fresh(i)
    BY <2>1, <2>2 DEF Fresh, IndInv, TypeOK
  <2> QED BY <1>1, <2>3, FreshKeeps
<1>3. CASE a # admin.rev
  <2>1. UNCHANGED <<admin, work, project>> /\ scans' = scans \ {a}
    BY <1>3 DEF Scan
  <2>2. Still
    BY <1>1, <1>3, <2>1 DEF Still, Blocked
  <2>3. ASSUME NEW i \in Items, Unprocessed, InCharge(i) PROVE Kept'
    <3>1. work[i].attempts \in Nat
      BY DEF IndInv, TypeOK, Work
    <3>2. InCharge(i)'
      BY <1>1, <2>1, <2>3, <3>1, StaysInCharge
    <3> QED BY <3>2 DEF Kept
  <2> QED BY <2>2, <2>3, StillKept
<1> QED BY <1>2, <1>3

LEMMA ClaimKept == ASSUME NEW d \in Dispatchers, NEW i \in Items
                   PROVE  IndInv /\ KeptInv /\ Claim(d, i) => KeptInv'
<1> SUFFICES ASSUME IndInv, KeptInv, Claim(d, i), Unprocessed' PROVE Kept'
  BY DEF KeptInv
<1>1. /\ UNCHANGED <<raw, built, project, admin, scans, res, slot, manual, disturbed, raced>>
      /\ disturbed \in Nat /\ disturbed <= MaxDisturbed /\ work \in [Items -> Work]
      /\ disp[d].pc = "idle" /\ work[i].holder = None
      /\ \A j \in Items : work[j] \in Work /\ work[j].attempts \in Nat
      /\ \A e \in Dispatchers : e # d => disp'[e] = disp[e]
      /\ \A j \in Items : j # i => work'[j] = work[j]
  BY DEF Claim, IndInv, TypeOK, Work
<1>2. Still
  BY <1>1 DEF Still, Blocked
<1>3. ASSUME NEW j \in Items, Unprocessed, InCharge(j) PROVE Kept'
  <2>1. CASE j # i
    <3>1. work[j].holder # None => work[j].holder \in Dispatchers /\ work[j].holder # d
      BY <1>1 DEF IndInv, HolderOf, Work
    <3>2. InCharge(j)'
      BY <1>1, <1>3, <2>1, <3>1, StaysInCharge
    <3> QED BY <3>2 DEF Kept
  <2>2. CASE j = i
    <3>1. work[i].pending /\ work[i].attempts <= disturbed
      BY <1>1, <1>3, <2>2 DEF InCharge
    <3>2. ~(work[i].attempts >= MaxAttempts)
      BY <1>1, <3>1
    <3>3. /\ work' = [work EXCEPT ![i].attempts = @ + 1, ![i].holder = d]
          /\ disp' = [disp EXCEPT ![d] = [Idle EXCEPT !.pc = "admin", !.item = i,
                           !.on = project.on, !.rev = project.rev, !.src = project.src]]
      BY <3>2 DEF Claim
    <3>4. Promising(d)'
      BY <1>1, <3>3 DEF Promising, IndInv, TypeOK, Idle
    <3>5. work'[i].pending /\ work'[i].attempts = work[i].attempts + 1 /\ work'[i].holder = d
      BY <1>1, <3>1, <3>3 DEF Work
    <3>6. InCharge(i)'
      BY <1>1, <3>1, <3>4, <3>5, NamesApart DEF InCharge
    <3> QED BY <3>6 DEF Kept
  <2> QED BY <2>1, <2>2
<1> QED BY <1>2, <1>3, StillKept

\* A dispatcher that leaves its item and whose reading still promises something.
LEMMA StepKept ==
    ASSUME IndInv, KeptInv, Unprocessed', Still, NEW d \in Dispatchers,
           disp[d].pc # "idle", UNCHANGED <<work, disturbed>>,
           \A e \in Dispatchers : e # d => disp'[e] = disp[e],
           ASSUME Unprocessed, Promising(d) PROVE Promising(d)' \/ Kept'
    PROVE  Kept'
<1>1. ASSUME NEW i \in Items, Unprocessed, InCharge(i) PROVE Kept'
  <2>1. work[i].attempts \in Nat /\ disturbed \in Nat /\ work[i].holder \in Dispatchers \cup {None}
    BY DEF IndInv, TypeOK, Work
  <2>2. CASE work[i].holder # d
    <3>1. InCharge(i)'
      BY <1>1, <2>1, <2>2, StaysInCharge DEF Still
    <3> QED BY <3>1 DEF Kept
  <2>3. CASE work[i].holder = d
    <3>1. Promising(d)' \/ Kept'
      BY <1>1, <2>3, NamesApart DEF InCharge
    <3>2. Promising(d)' => InCharge(i)'
      BY <1>1, <2>3 DEF InCharge
    <3> QED BY <3>1, <3>2 DEF Kept
  <2> QED BY <2>2, <2>3
<1> QED BY <1>1, StillKept

LEMMA LookKept == ASSUME NEW d \in Dispatchers
                  PROVE  IndInv /\ KeptInv /\ (ReadAdmin(d) \/ ReadFingerprint(d)) => KeptInv'
<1> SUFFICES ASSUME IndInv, KeptInv, ReadAdmin(d) \/ ReadFingerprint(d), Unprocessed' PROVE Kept'
  BY DEF KeptInv
<1>1. /\ UNCHANGED <<raw, built, project, admin, scans, work, res, slot, manual, disturbed, raced>>
      /\ disp \in [Dispatchers -> Reading] /\ disp[d].pc # "idle"
      /\ \A e \in Dispatchers : e # d => disp'[e] = disp[e]
  BY DEF ReadAdmin, ReadFingerprint, IndInv, TypeOK
<1>2. Still
  BY <1>1 DEF Still, Blocked
<1>3. ASSUME Unprocessed, Promising(d) PROVE Promising(d)'
  <2>1. CASE ReadAdmin(d)
    <3>1. disp[d].rev = project.rev /\ disp[d].src = project.src /\ disp[d].on /\ admin.on
          /\ raw # built
      BY <1>3, <2>1 DEF ReadAdmin, Promising, IndInv, ReadingOf, Unprocessed, On
    <3>2. disp' = [disp EXCEPT ![d].admin = admin.rev, ![d].pc = "fingerprint"]
      BY <2>1, <3>1 DEF ReadAdmin
    <3> QED BY <1>1, <3>1, <3>2 DEF Promising, Reading
  <2>2. CASE ReadFingerprint(d)
    <3>1. \E pc \in {"wait", "reserve"} : disp' = [disp EXCEPT ![d].fp = raw, ![d].pc = pc]
      BY <2>2 DEF ReadFingerprint
    <3> QED BY <1>1, <1>3, <2>2, <3>1 DEF ReadFingerprint, Promising, Reading
  <2> QED BY <2>1, <2>2
<1> QED BY <1>1, <1>2, <1>3, StepKept

\* Whoever has a fingerprint, and knows what is confirmed, has that of the
\* stored inventory.
LEMMA FingerprintIsCurrent ==
    ASSUME IndInv, Unprocessed, NEW d \in Dispatchers,
           disp[d].pc \in {"reserve", "refused", "busy"},
           disp[d].src = project.src, disp[d].rev = project.rev, disp[d].admin = admin.rev
    PROVE  NameOf(d) = Current /\ disp[d].fp = raw /\ Current \in Names
BY DEF IndInv, TypeOK, ReadingOf, Unprocessed, NameOf, Current, Reading, Inventories, Names, Project

LEMMA ReserveKept == ASSUME NEW d \in Dispatchers
                     PROVE  IndInv /\ KeptInv /\ Reserve(d) => KeptInv'
<1> SUFFICES ASSUME IndInv, KeptInv, Reserve(d), Unprocessed' PROVE Kept'
  BY DEF KeptInv
<1>1. /\ UNCHANGED <<raw, built, admin, scans, work, manual, disturbed, raced>>
      /\ disp \in [Dispatchers -> Reading] /\ disp[d].pc = "reserve"
      /\ \A e \in Dispatchers : e # d => disp'[e] = disp[e]
  BY DEF Reserve, Goto, IndInv, TypeOK
<1>2. CASE Admits(d) /\ slot = None
  <2>1. /\ project'.rev = project.rev /\ project'.src = project.src /\ project'.on = project.on
    BY DEF Reserve, IndInv, TypeOK, Project
  <2>2. Unprocessed /\ Current' = Current
    BY <1>1, <2>1 DEF Unprocessed, On, Current
  <2>3. NameOf(d) = Current /\ Current \in Names
    BY <1>1, <1>2, <2>2, FingerprintIsCurrent DEF Admits
  <2>4. CASE res[NameOf(d)].intent # "none"
    <3>1. res[Current].intent \notin Live
      BY <1>2, <2>3, NamesApart DEF IndInv, RunInv, RunOf
    <3>2. res[Current].intent # "succeeded"
      BY <2>2, <2>3 DEF IndInv, TypeOK, RunInv, RunOf, Current, Unprocessed, Inventories
    <3>3. res[Current].intent \in {"cancelled", "failed"}
      BY <2>3, <2>4, <3>1, <3>2 DEF IndInv, TypeOK, Reservation, Live
    <3>4. res' = res
      BY <1>2, <2>4 DEF Reserve
    <3> QED BY <2>2, <3>3, <3>4 DEF Kept
  <2>5. CASE res[NameOf(d)].intent = "none"
    <3>1. /\ res' = [res EXCEPT ![Current] = [NoRun EXCEPT !.src = project.src, !.intent = "ready"]]
          /\ slot' = Current
      BY <1>2, <2>3, <2>5 DEF Reserve
    <3>2. res'[Current].intent = "ready" /\ res'[Current].src = project.src
      BY <2>3, <3>1 DEF IndInv, TypeOK, NoRun
    <3> QED BY <2>1, <2>2, <3>1, <3>2 DEF Kept, Live
  <2> QED BY <2>4, <2>5
<1>3. CASE ~(Admits(d) /\ slot = None)
  <2>1. /\ UNCHANGED <<res, slot, project>>
        /\ \E pc \in {"refused", "busy"} : disp' = [disp EXCEPT ![d].pc = pc]
    BY <1>3 DEF Reserve, Goto
  <2>2. Still
    BY <1>1, <2>1 DEF Still, Blocked
  <2>3. ASSUME Unprocessed, Promising(d) PROVE Promising(d)'
    BY <1>1, <2>1, <2>3 DEF Promising, Reading
  <2> QED BY <1>1, <2>2, <2>3, StepKept
<1> QED BY <1>2, <1>3

LEMMA RefusedKept == ASSUME NEW d \in Dispatchers
                     PROVE  IndInv /\ KeptInv /\ Refused(d) => KeptInv'
<1> SUFFICES ASSUME IndInv, KeptInv, Refused(d), Unprocessed' PROVE Kept'
  BY DEF KeptInv
<1>1. /\ UNCHANGED <<raw, built, project, admin, scans, work, res, slot, manual, disturbed>>
      /\ disp \in [Dispatchers -> Reading] /\ disp[d].pc \in {"refused", "busy"}
      /\ disp' = [disp EXCEPT ![d].pc = IF slot # None THEN "wait" ELSE "backlog"]
      /\ raced' = (raced \/ (slot = None /\ Admits(d)))
  BY DEF Refused, Goto, IndInv, TypeOK
<1>2. Still
  BY <1>1 DEF Still, Blocked
<1>3. ASSUME Unprocessed, Promising(d) PROVE Promising(d)' \/ Kept'
  <2>1. CASE slot # None
    BY <1>1, <2>1 DEF Promising, Reading
  <2>2. CASE slot = None
    <3>1. /\ disp[d].rev = project.rev /\ disp[d].src = project.src
          /\ disp[d].admin = admin.rev
      BY <1>1, <1>3 DEF Promising
    <3>2. disp[d].fp = raw
      BY <1>1, <1>3, <3>1, FingerprintIsCurrent
    <3>3. project.consumed # raw
      BY <1>3 DEF IndInv, TypeOK, RunInv, ProcessedIsBuilt, Unprocessed, Inventories
    <3>4. Admits(d) \/ Blocked(raw)
      BY <1>3, <3>1, <3>2, <3>3 DEF Admits, Unprocessed
    <3>5. CASE Admits(d)
      BY <1>1, <2>2, <3>5 DEF Kept
    <3>6. CASE Blocked(raw)
      BY <1>1, <2>2, <3>6, NamesApart DEF Kept, Blocked
    <3> QED BY <3>4, <3>5, <3>6
  <2> QED BY <2>1, <2>2
<1> QED BY <1>1, <1>2, <1>3, StepKept

\* The item goes back with the attempt it was charged, or is left to nobody.
LEMMA LetGoKept ==
    ASSUME IndInv, KeptInv, Unprocessed', Still, NEW d \in Dispatchers,
           disp[d].pc # "idle", disturbed <= disturbed', disturbed' \in Nat,
           \A e \in Dispatchers : e # d => disp'[e] = disp[e],
           \A j \in Items : work[j].holder # d => work'[j] = work[j],
           \A j \in Items : work[j].holder = d /\ InCharge(j) =>
             /\ work'[j].pending /\ work'[j].holder = None
             /\ work'[j].attempts <= disturbed'
    PROVE  Kept'
<1>1. ASSUME NEW i \in Items, Unprocessed, InCharge(i) PROVE Kept'
  <2>1. work[i].attempts \in Nat /\ disturbed \in Nat /\ work[i].holder \in Dispatchers \cup {None}
    BY DEF IndInv, TypeOK, Work
  <2>2. CASE work[i].holder # d
    <3>1. InCharge(i)'
      BY <1>1, <2>1, <2>2, StaysInCharge DEF Still
    <3> QED BY <3>1 DEF Kept
  <2>3. CASE work[i].holder = d
    <3>1. InCharge(i)'
      BY <1>1, <2>1, <2>3 DEF InCharge
    <3> QED BY <3>1 DEF Kept
  <2> QED BY <2>2, <2>3
<1> QED BY <1>1, StillKept

LEMMA FinishKept == ASSUME NEW d \in Dispatchers
                    PROVE  IndInv /\ KeptInv /\ Finish(d) => KeptInv'
<1> SUFFICES ASSUME IndInv, KeptInv, Finish(d), Unprocessed' PROVE Kept'
  BY DEF KeptInv
<1> DEFINE i == disp[d].item
           pc == disp[d].pc
<1>1. /\ UNCHANGED <<raw, built, admin, scans, res, slot, manual, disturbed, raced>>
      /\ pc \in {"finish", "backlog", "wait", "error"} /\ disp' = [disp EXCEPT ![d] = Idle]
      /\ disp \in [Dispatchers -> Reading] /\ work \in [Items -> Work] /\ disturbed \in Nat
  BY DEF Finish, IndInv, TypeOK
<1>2. /\ project'.rev = project.rev /\ project'.on = project.on /\ project'.src = project.src
      /\ project'.blocked = project.blocked /\ project'.blockedAdmin = project.blockedAdmin
  BY DEF Finish, IndInv, TypeOK, Project
<1>3. Still
  BY <1>1, <1>2 DEF Still, Blocked
<1>4. \A j \in Items : work[j].holder = d => j = i
  BY NamesApart DEF IndInv, HolderOf
<1>5. \A j \in Items : work[j].holder # d => work'[j] = work[j]
  BY <1>1 DEF Finish
<1>6. ASSUME NEW j \in Items, work[j].holder = d, InCharge(j)
      PROVE  /\ work'[j].pending /\ work'[j].holder = None
             /\ work'[j].attempts <= disturbed'
  <2>1. pc = "wait"
    BY <1>1, <1>6, NamesApart DEF InCharge, Promising
  <2>2. work'[j] = After(work[j], "wait")
    BY <1>1, <1>4, <1>6, <2>1 DEF Finish
  <2>3. After(work[j], "wait") = [work[j] EXCEPT !.attempts = @ - 1, !.holder = None]
    BY DEF After
  <2>4. work[j].pending /\ work[j].attempts <= disturbed + 1
    BY <1>6, NamesApart DEF InCharge
  <2>5. work[j].attempts \in Nat /\ work[j] \in Work
    BY <1>1 DEF Work
  <2>6. work'[j].pending /\ work'[j].holder = None /\ work'[j].attempts = work[j].attempts - 1
    BY <2>2, <2>3, <2>4, <2>5 DEF Work
  <2> QED BY <1>1, <2>4, <2>5, <2>6
<1> HIDE DEF i, pc
<1>7. disp[d].pc # "idle" /\ \A e \in Dispatchers : e # d => disp'[e] = disp[e]
  BY <1>1 DEF pc
<1> QED BY <1>1, <1>3, <1>5, <1>6, <1>7, LetGoKept

LEMMA CrashKept == ASSUME NEW d \in Dispatchers
                   PROVE  IndInv /\ KeptInv /\ Crash(d) => KeptInv'
<1> SUFFICES ASSUME IndInv, KeptInv, Crash(d), Unprocessed' PROVE Kept'
  BY DEF KeptInv
<1>1. /\ UNCHANGED <<raw, built, project, admin, scans, res, slot, manual, raced>>
      /\ disp[d].pc # "idle" /\ disp' = [disp EXCEPT ![d] = Idle]
      /\ disp \in [Dispatchers -> Reading] /\ work \in [Items -> Work]
      /\ disturbed \in Nat /\ disturbed' = disturbed + 1
  BY DEF Crash, Disturb, IndInv, TypeOK
<1>2. Still
  BY <1>1 DEF Still, Blocked
<1>3. \A j \in Items : work[j].holder = d => j = disp[d].item
  BY NamesApart DEF IndInv, HolderOf
<1>4. \A j \in Items : work[j].holder # d => work'[j] = work[j]
  BY <1>1 DEF Crash
<1>5. ASSUME NEW j \in Items, work[j].holder = d, InCharge(j)
      PROVE  /\ work'[j].pending /\ work'[j].holder = None
             /\ work'[j].attempts <= disturbed'
  <2>1. work' = [work EXCEPT ![j].holder = None]
    BY <1>3, <1>5 DEF Crash
  <2> QED BY <1>1, <1>5, <2>1, NamesApart DEF InCharge, Work
<1> QED BY <1>1, <1>2, <1>4, <1>5, LetGoKept

\* The run in the slot goes on or ends; if it is the one that answers, it does
\* so until it is over.
LEMMA RunKept ==
    ASSUME IndInv, KeptInv, Unprocessed', NEW n \in Names, res[n].intent \in Live, Aside,
           disturbed' \in Nat, disturbed <= disturbed', raced' = raced,
           built' # raw => built # raw,
           \A m \in Names : m # n => res'[m] = res[m],
           Unprocessed /\ n = Current /\ res[n].src = project.src =>
             \/ slot' = n /\ res'[n].intent \in Live /\ res'[n].src = project.src
             \/ res'[n].intent \in {"cancelled", "failed"}
    PROVE  Kept'
<1>1. slot = n
  BY DEF IndInv, RunInv, RunOf
<1>2. Unprocessed /\ Current' = Current /\ Current \in Names
  BY DEF Unprocessed, On, Aside, Current, Names, IndInv, TypeOK, Project
<1>3. ASSUME NEW i \in Items, InCharge(i) PROVE Kept'
  <2>1. work[i].attempts \in Nat /\ disturbed \in Nat
    BY DEF IndInv, TypeOK, Work
  <2>2. CASE work'[i] = work[i]
    <3>1. InCharge(i)'
      BY <1>3, <2>1, <2>2, StaysInCharge DEF Aside
    <3> QED BY <3>1 DEF Kept
  <2>3. CASE work'[i] # work[i]
    <3>1. Fresh(i)
      BY <2>3 DEF Fresh, Aside, IndInv, TypeOK
    <3> QED BY <3>1, FreshKeeps
  <2> QED BY <2>2, <2>3
<1>4. CASE n = Current
  BY <1>1, <1>2, <1>3, <1>4 DEF KeptInv, Kept, Aside, Live
<1>5. CASE n # Current
  BY <1>1, <1>2, <1>3, <1>5 DEF KeptInv, Kept, Aside
<1> QED BY <1>4, <1>5

LEMMA BeginKept == ASSUME NEW n \in Names PROVE IndInv /\ KeptInv /\ Begin(n) => KeptInv'
<1> SUFFICES ASSUME IndInv, KeptInv, Begin(n), Unprocessed' PROVE Kept'
  BY DEF KeptInv
<1>1. /\ res[n] \in Reservation /\ res \in [Names -> Reservation] /\ res[n].intent \in Live
      /\ slot = n /\ UNCHANGED <<raw, built, admin, scans, manual, disp, disturbed, raced>>
      /\ disturbed' \in Nat /\ disturbed <= disturbed'
  BY DEF Begin, IndInv, TypeOK, Live
<1>2. /\ project' \in Project /\ project'.rev = project.rev /\ project'.on = project.on
      /\ project'.src = project.src
  <2>1. \E s \in Statuses : project' = [project EXCEPT !.status = s]
    BY DEF Begin, Statuses
  <2> QED BY <2>1 DEF IndInv, TypeOK, Project
<1>3. Aside
  BY <1>1, <1>2 DEF Aside, Begin
<1>4. CASE PauseReason(n) = "none"
  <2>1. res' = [res EXCEPT ![n].intent = "invoking"] /\ slot' = slot
    BY <1>4 DEF Begin
  <2>2. res'[n].intent \in Live /\ res'[n].src = res[n].src
    BY <1>1, <2>1 DEF Reservation, Live
  <2> QED BY <1>1, <1>2, <1>3, <2>1, <2>2, RunKept
<1>5. CASE PauseReason(n) # "none"
  <2>1. res' = [res EXCEPT ![n] = Over("cancelled")]
    BY <1>5 DEF Begin
  <2>2. res'[n].intent = "cancelled"
    BY <1>1, <2>1 DEF Over, NoRun
  <2> QED BY <1>1, <1>3, <2>1, <2>2, RunKept
<1> QED BY <1>4, <1>5

LEMMA FailIntentKept == ASSUME NEW n \in Names PROVE IndInv /\ KeptInv /\ FailIntent(n) => KeptInv'
<1> SUFFICES ASSUME IndInv, KeptInv, FailIntent(n), Unprocessed' PROVE Kept'
  BY DEF KeptInv
<1>1. /\ res \in [Names -> Reservation] /\ res[n].intent \in Live
      /\ UNCHANGED <<raw, built, admin, scans, work, manual, disp, raced>>
      /\ disturbed' \in Nat /\ disturbed <= disturbed'
      /\ res' = [res EXCEPT ![n] = Over("failed")]
  BY DEF FailIntent, Disturb, IndInv, TypeOK, Live
<1>2. /\ project' \in Project /\ project'.rev = project.rev /\ project'.on = project.on
      /\ project'.src = project.src
  BY DEF FailIntent, IndInv, TypeOK, Project, Names, Statuses
<1>3. Aside
  BY <1>1, <1>2 DEF Aside
<1>4. res'[n].intent = "failed"
  BY <1>1 DEF Over, NoRun
<1> QED BY <1>1, <1>3, <1>4, RunKept

LEMMA WorkerKept ==
    ASSUME NEW n \in Names, NEW s \in {"FAILED", "CANCELLED"}
    PROVE  IndInv /\ KeptInv /\ (Start(n) \/ Succeed(n) \/ Abort(n, s)) => KeptInv'
<1> SUFFICES ASSUME IndInv, KeptInv, Start(n) \/ Succeed(n) \/ Abort(n, s), Unprocessed'
             PROVE  Kept'
  BY DEF KeptInv
<1>1. /\ res[n] \in Reservation /\ res \in [Names -> Reservation] /\ res[n].intent \in Live
      /\ UNCHANGED <<raw, project, admin, scans, work, slot, manual, disp, raced>>
      /\ res[n].exec # "none" => res[n].intent = "compiling"
      /\ disturbed' \in Nat /\ disturbed <= disturbed' /\ slot = n
  BY DEF Start, Succeed, Abort, Disturb, IndInv, TypeOK, RunInv, RunOf, Live
<1>2. Aside
  BY <1>1 DEF Aside, IndInv, TypeOK
<1>3. \A m \in Names : m # n => res'[m] = res[m]
  BY <1>1 DEF Start, Succeed, Abort
<1>4. res'[n].intent \in Live /\ res'[n].src = res[n].src
  BY <1>1 DEF Start, Succeed, Abort, Reservation, Live
<1>5. built' # raw => built # raw
  <2>1. CASE Succeed(n)
    <3>1. built \in Int /\ raw \in Int /\ res[n].taken \in Int /\ built <= res[n].taken
          /\ res[n].taken <= raw /\ built' = res[n].taken
      BY <1>1, <2>1 DEF Succeed, IndInv, TypeOK, RunInv, RunOf, Inventories, Reservation
    <3> QED BY <3>1
  <2>2. CASE Start(n) \/ Abort(n, s)
    BY <2>2 DEF Start, Abort
  <2> QED BY <2>1, <2>2
<1> QED BY <1>1, <1>2, <1>3, <1>4, <1>5, RunKept

LEMMA SettleKept == ASSUME NEW n \in Names PROVE IndInv /\ KeptInv /\ IndInv' /\ Settle(n) => KeptInv'
<1> SUFFICES ASSUME IndInv, IndInv', KeptInv, Settle(n), Unprocessed' PROVE Kept'
  BY DEF KeptInv
<1> DEFINE e == res[n].exec
           s == IntentOf(e)
<1>1. /\ res \in [Names -> Reservation] /\ res[n] \in Reservation /\ res[n].intent = "compiling"
      /\ e \in {"SUCCEEDED", "FAILED", "CANCELLED"} /\ project \in Project
      /\ res' = [res EXCEPT ![n] = Over(s)]
      /\ UNCHANGED <<raw, built, admin, scans, manual, disp, disturbed, raced>>
      /\ disturbed' \in Nat /\ disturbed <= disturbed'
  BY DEF Settle, IndInv, TypeOK, Ended
<1>2. \E st \in Statuses : project' = Outcome(n, project)
         \/ project' = [Outcome(n, project) EXCEPT !.status = st]
  BY DEF Settle, Statuses
<1>3. project'.rev = project.rev /\ project'.on = project.on /\ project'.src = project.src
  <2> DEFINE p == Outcome(n, project)
  <2>1. p.rev = project.rev /\ p.on = project.on /\ p.src = project.src /\ DOMAIN p = DOMAIN project
    <3>1. CASE e = "SUCCEEDED"
      BY <1>1, <3>1 DEF Outcome, Project
    <3>2. CASE e = "FAILED"
      BY <1>1, <3>2 DEF Outcome, Project
    <3>3. CASE e = "CANCELLED"
      BY <1>1, <3>3 DEF Outcome, Project
    <3> QED BY <1>1, <3>1, <3>2, <3>3
  <2> HIDE DEF p
  <2>2. \E st \in Statuses : project' = p \/ project' = [p EXCEPT !.status = st]
    BY <1>2 DEF p
  <2> QED BY <1>1, <2>1, <2>2 DEF Project
<1>4. Aside
  BY <1>1, <1>3 DEF Aside, Settle, IndInv, TypeOK
<1>5. res'[n].intent = s
  BY <1>1 DEF Over, NoRun
<1>6. Unprocessed /\ n = Current => e # "SUCCEEDED"
  <2> SUFFICES ASSUME Unprocessed, n = Current, e = "SUCCEEDED" PROVE FALSE
    OBVIOUS
  <2>1. n[1] = raw /\ built # raw
    BY DEF Current, Unprocessed
  <2>2. RunOf(n) /\ built \in Int /\ raw \in Int /\ built <= raw /\ res[n].taken \in Int
    BY <1>1 DEF IndInv, TypeOK, RunInv, Inventories, Reservation
  <2>3. n[1] <= res[n].taken /\ res[n].taken <= built
    BY <2>2 DEF RunOf
  <2> QED BY <2>1, <2>2, <2>3
<1>7. e # "SUCCEEDED" => s \in {"failed", "cancelled"}
  BY <1>1 DEF IntentOf
<1> HIDE DEF s, e
<1> QED BY <1>1, <1>4, <1>5, <1>6, <1>7, RunKept DEF Live

LEMMA ManualKept == IndInv /\ KeptInv /\ Manual => KeptInv'
<1> SUFFICES ASSUME IndInv, KeptInv, Manual, Unprocessed' PROVE Kept'
  BY DEF KeptInv
<1>1. /\ UNCHANGED <<raw, project, admin, scans, work, res, disp, raced>>
      /\ disturbed \in Nat /\ disturbed' \in Nat /\ disturbed <= disturbed'
  BY DEF Manual, ManualReserve, ManualMaterialize, ManualEnd, Disturb, IndInv, TypeOK
<1>2. built' # raw => built # raw
  BY DEF Manual, ManualReserve, ManualMaterialize, ManualEnd, IndInv, TypeOK, RunInv, Inventories
<1>3. /\ slot = Current => slot' = slot
      /\ slot \notin Names => slot' \notin Names
  <2>1. Current \in Names
    BY DEF Current, Names, IndInv, TypeOK, Project
  <2> QED BY <2>1, NamesApart
          DEF Manual, ManualReserve, ManualMaterialize, ManualEnd, IndInv, RunInv
<1>4. Still
  BY <1>1, <1>2, <1>3 DEF Still, Blocked
<1>5. ASSUME NEW i \in Items, Unprocessed, InCharge(i) PROVE Kept'
  <2>1. work[i].attempts \in Nat
    BY DEF IndInv, TypeOK, Work
  <2>2. InCharge(i)'
    BY <1>1, <1>5, <2>1, StaysInCharge
  <2> QED BY <2>2 DEF Kept
<1> QED BY <1>4, <1>5, StillKept

\* Every step leaves somebody in charge.
LEMMA StepKeeps == IndInv /\ KeptInv /\ [Next]_vars => KeptInv'
<1> SUFFICES ASSUME IndInv, KeptInv, IndInv', [Next]_vars PROVE KeptInv'
  BY StepInv
<1>1. CASE Write \/ Confirm \/ SwitchAdmin \/ SwitchProject \/ Manual
  BY <1>1, SourcesKept, ManualKept
<1>2. CASE \E a \in scans : Scan(a)
  BY <1>2, ScanKept
<1>3. CASE \E d \in Dispatchers : (\E i \in Items : Claim(d, i)) \/ Step(d) \/ Crash(d)
  BY <1>3, ClaimKept, LookKept, ReserveKept, RefusedKept, FinishKept, CrashKept DEF Step
<1>4. CASE \E n \in Names :
             Run(n) \/ FailIntent(n) \/ \E s \in {"FAILED", "CANCELLED"} : Abort(n, s)
  BY <1>4, BeginKept, WorkerKept, SettleKept, FailIntentKept DEF Run
<1>5. CASE UNCHANGED vars
  BY <1>5 DEF vars, KeptInv, Unprocessed, On, Kept, InCharge, Promising, Current, Blocked
<1> QED BY <1>1, <1>2, <1>3, <1>4, <1>5 DEF Next

-----------------------------------------------------------------------------
(* Theorems.                                                               *)

\* The documents of the switches, the items, reservations and dispatchers keep
\* their types; an item never uses more attempts than it has
\* (pipeline_automation_runtime.go, profileruntime/work.go).
THEOREM AutomationTypes == Spec => []TypeOK
<1>1. IndInv => TypeOK
  BY DEF IndInv
<1> QED BY InitInv, StepInv, <1>1, PTL DEF Spec

\* What the project is told was processed is in the published wiki, whatever
\* was written, switched or published between a run's reservation and its
\* settlement (SettleQuotaReservationInTransactionWithResult).
THEOREM ProcessedMeansBuilt == Spec => []ProcessedIsBuilt
<1>1. IndInv => ProcessedIsBuilt
  BY DEF IndInv, RunInv
<1> QED BY InitInv, StepInv, <1>1, PTL DEF Spec

\* No confirmed change is forgotten while both switches are on, but in the
\* cases that Excused names (executePipelineAutomation, reservePipelineQuota).
THEOREM NoChangeForgotten == Spec => []ChangeIsKept
<1>1. IndInv /\ KeptInv => ChangeIsKept
  <2> SUFFICES ASSUME IndInv, KeptInv, Forgotten PROVE Excused
    BY DEF ChangeIsKept
  <2>1. Unprocessed
    BY DEF Forgotten, Unprocessed
  <2>2. Kept
    BY <2>1 DEF KeptInv
  <2>3. Current \in Names
    BY DEF Current, Names, IndInv, TypeOK, Project
  <2> QED BY <2>2, <2>3, NamesApart DEF Kept, Forgotten, InCharge, Excused, Current
<1>2. Init => IndInv /\ KeptInv
  BY InitInv
<1>3. IndInv /\ KeptInv /\ [Next]_vars => IndInv' /\ KeptInv'
  BY StepInv, StepKeeps
<1> QED BY <1>1, <1>2, <1>3, PTL DEF Spec

-----------------------------------------------------------------------------
(* The abstract slot, which PipelineQuota implements as well.              *)

Working == {n \in Names : res[n].exec = "running"}
           \cup {n \in {OtherRun} : manual.phase = "running"}
Spent   == IF slot \in Names THEN res[slot].exec # "none" ELSE manual.phase = "running"

\* Whatever was started holds the slot.
LEMMA HoldersWork ==
    ASSUME IndInv
    PROVE  /\ \A n \in Names : res[n].exec # "none" => slot = n
           /\ manual.phase # "none" => slot = OtherRun
           /\ Working \subseteq {slot}
           /\ ~Spent => Working = {}
           /\ slot = None => ~Spent
<1>1. /\ \A n \in Names : res[n].exec # "none" => slot = n
      /\ manual.phase # "none" => slot = OtherRun
  BY DEF IndInv, RunInv, RunOf, Live
<1>2. slot \in Names \cup {None, OtherRun}
  BY DEF IndInv, TypeOK
<1> QED BY <1>1, <1>2, NamesApart DEF Working, Spent

\* A step that leaves the slot and what runs alone.
LEMMA SlotRests ==
    ASSUME UNCHANGED <<slot, res, manual>>
    PROVE  UNCHANGED Slot!slotVars
BY DEF Slot!slotVars

\* The slot is given back once nothing runs any more.
LEMMA SlotFreed ==
    ASSUME IndInv, IndInv', slot # None, slot' = None
    PROVE  Slot!GiveBack
<1>1. Working' = {} /\ ~Spent'
  <2>1. \A n \in Names : res'[n].exec # "none" => slot' = n
    BY DEF IndInv, RunInv, RunOf, Live
  <2>2. manual'.phase # "none" => slot' = OtherRun
    BY DEF IndInv, RunInv
  <2> QED BY <2>1, <2>2, NamesApart DEF Working, Spent
<1> QED BY <1>1 DEF Slot!GiveBack, Working, Spent

LEMMA ReserveSlot ==
    ASSUME IndInv, NEW d \in Dispatchers, Reserve(d)
    PROVE  [Slot!SlotNext]_Slot!slotVars
<1>1. CASE UNCHANGED <<slot, res, manual>>
  BY <1>1, SlotRests
<1>2. CASE ~UNCHANGED <<slot, res, manual>>
  <2> DEFINE n == NameOf(d)
             r == [NoRun EXCEPT !.src = project.src, !.intent = "ready"]
  <2>1. /\ slot = None /\ res[n].intent = "none" /\ slot' = n /\ manual' = manual
        /\ res' = [res EXCEPT ![n] = r]
    BY <1>2 DEF Reserve
  <2>2. n \in Names /\ r.exec = "none"
    BY DEF IndInv, TypeOK, NameOf, Reading, Names, NoRun
  <2> HIDE DEF n, r
  <2>3. res' \in [Names -> {res'[m] : m \in Names}] /\ res'[n] = r
        /\ \A m \in Names : m # n => res'[m] = res[m]
    BY <2>1, <2>2 DEF IndInv, TypeOK
  <2>4. Working = {} /\ ~Spent /\ ~Spent' /\ \A m \in Names : res[m].exec = "none"
    <3>1. slot # OtherRun /\ \A m \in Names : slot # m
      BY <2>1, NamesApart
    <3> QED BY <2>1, <2>2, <2>3, <3>1, HoldersWork DEF Spent
  <2>5. Working' = {}
    BY <2>1, <2>2, <2>3, <2>4 DEF Working
  <2>6. Slot!Take(n)
    BY <2>1, <2>4, <2>5 DEF Slot!Take, Working, Spent
  <2> QED BY <2>2, <2>6 DEF Slot!SlotNext
<1> QED BY <1>1, <1>2

\* The worker's part of a run.
LEMMA WorkSlot ==
    ASSUME IndInv, NEW n \in Names, NEW s \in {"FAILED", "CANCELLED"},
           Start(n) \/ Succeed(n) \/ Abort(n, s)
    PROVE  Slot!Start \/ Slot!End
<1>1. /\ res[n] \in Reservation /\ slot = n /\ slot' = slot /\ manual' = manual
      /\ manual.phase = "none"
  BY NamesApart DEF IndInv, TypeOK, RunInv, RunOf, Live, Start, Succeed, Abort
<1>2. \A m \in Names : m # n => res[m].exec = "none"
  BY <1>1, HoldersWork
<1>3. CASE Start(n)
  <2>1. res[n].exec = "none"
    BY <1>3 DEF IndInv, RunInv, RunOf, Start
  <2>2. /\ res'[n].exec = "running"
        /\ \A m \in Names : m # n => res'[m] = res[m]
    BY <1>1, <1>3 DEF IndInv, TypeOK, Start, Reservation
  <2>3. Working' = {n} /\ ~Spent /\ Spent'
    BY <1>1, <1>2, <2>1, <2>2 DEF Working, Spent
  <2>4. slot # None
    BY <1>1, NamesApart
  <2>5. Slot!Start
    BY <1>1, <2>3, <2>4 DEF Slot!Start, Working, Spent
  <2> QED BY <2>5
<1>4. CASE Succeed(n) \/ Abort(n, s)
  <2>1. /\ res[n].exec = "running" /\ res'[n].exec \notin {"none", "running"}
        /\ \A m \in Names : m # n => res'[m] = res[m]
    BY <1>1, <1>4 DEF IndInv, TypeOK, Succeed, Abort, Reservation
  <2>2. Working' = {} /\ Spent /\ Spent'
    BY <1>1, <1>2, <2>1 DEF Working, Spent
  <2>3. Slot!End
    BY <1>1, <2>2 DEF Slot!End, Working, Spent
  <2> QED BY <2>3
<1> QED BY <1>3, <1>4

LEMMA RunSlots ==
    ASSUME IndInv, IndInv', NEW n \in Names, NEW s \in {"FAILED", "CANCELLED"},
           Run(n) \/ FailIntent(n) \/ Abort(n, s)
    PROVE  [Slot!SlotNext]_Slot!slotVars
<1>1. CASE Begin(n) /\ PauseReason(n) = "none"
  <2>1. /\ UNCHANGED <<slot, manual>> /\ res' = [res EXCEPT ![n].intent = "invoking"]
        /\ res[n] \in Reservation
    BY <1>1 DEF Begin, IndInv, TypeOK
  <2>2. \A m \in Names : res'[m].exec = res[m].exec
    BY <2>1 DEF IndInv, TypeOK, Reservation
  <2> QED BY <2>1, <2>2 DEF Slot!slotVars
<1>2. CASE (Begin(n) /\ PauseReason(n) # "none") \/ FailIntent(n) \/ Settle(n)
  <2>1. slot = n /\ slot' = None /\ slot # None
    BY <1>2, NamesApart DEF Begin, FailIntent, Settle, IndInv, RunInv, RunOf, Live
  <2> QED BY <2>1, SlotFreed DEF Slot!SlotNext
<1>3. CASE Start(n) \/ Succeed(n) \/ Abort(n, s)
  BY <1>3, WorkSlot DEF Slot!SlotNext
<1> QED BY <1>1, <1>2, <1>3 DEF Run

LEMMA ManualSlots ==
    ASSUME IndInv, IndInv', Manual
    PROVE  [Slot!SlotNext]_Slot!slotVars
<1>0. manual \in [phase : {"none", "accepted", "running"}, taken : Inventories]
  BY DEF IndInv, TypeOK
<1>1. CASE ManualReserve
  <2>1. slot = None /\ slot' = OtherRun /\ res' = res /\ manual'.phase = "accepted"
    BY <1>0, <1>1 DEF ManualReserve
  <2>2. Working = {} /\ ~Spent
    BY <2>1, HoldersWork
  <2>3. Working' = {} /\ ~Spent'
    BY <2>1, <2>2, NamesApart DEF Working, Spent
  <2>4. Slot!Take(OtherRun)
    BY <2>1, <2>2, <2>3 DEF Slot!Take, Working, Spent
  <2> QED BY <2>4 DEF Slot!SlotNext
<1>2. CASE ManualMaterialize
  <2>1. /\ slot = OtherRun /\ slot' = slot /\ res' = res
        /\ manual.phase = "accepted" /\ manual'.phase = "running"
    BY <1>0, <1>2 DEF ManualMaterialize, IndInv, RunInv
  <2>2. \A m \in Names : res[m].exec = "none"
    BY <2>1, HoldersWork, NamesApart
  <2>3. Working' = {OtherRun} /\ Spent' /\ ~Spent
    BY <2>1, <2>2, NamesApart DEF Working, Spent
  <2>4. Slot!Start
    BY <2>1, <2>3 DEF Slot!Start, Working, Spent
  <2> QED BY <2>4 DEF Slot!SlotNext
<1>3. CASE ManualEnd
  <2>1. slot = OtherRun /\ slot' = None
    BY <1>3 DEF ManualEnd, IndInv, RunInv
  <2> QED BY <2>1, SlotFreed DEF Slot!SlotNext
<1> QED BY <1>1, <1>2, <1>3 DEF Manual

\* Automation's runs and the runs of other kinds in between behave as the slot
\* that the admission of PipelineQuota implements allows (firestore/quota.go,
\* pipeline_automation_runtime.go).
THEOREM AutomationKeepsSlot == Spec => ImplementsRunSlot
<1>1. Init => Slot!SlotInit
  <2> SUFFICES ASSUME Init PROVE Slot!SlotInit
    OBVIOUS
  <2>1. /\ \A n \in Names : res[n].exec = "none"
        /\ slot = None /\ manual.phase = "none"
    BY DEF Init, NoRun
  <2> QED BY <2>1, NamesApart DEF Slot!SlotInit
<1>2. IndInv /\ [Next]_vars => [Slot!SlotNext]_Slot!slotVars
  <2> SUFFICES ASSUME IndInv, [Next]_vars PROVE [Slot!SlotNext]_Slot!slotVars
    OBVIOUS
  <2>0. IndInv'
    BY StepInv
  <2>1. CASE \/ Write \/ Confirm \/ SwitchAdmin \/ SwitchProject \/ UNCHANGED vars
             \/ \E a \in scans : Scan(a)
             \/ \E d \in Dispatchers :
                  \/ (\E i \in Items : Claim(d, i)) \/ ReadAdmin(d) \/ ReadFingerprint(d)
                  \/ Refused(d) \/ Finish(d) \/ Crash(d)
    <3>1. UNCHANGED <<slot, res, manual>>
      BY <2>1 DEF Write, Confirm, SwitchAdmin, SwitchProject, vars, Scan, Claim, ReadAdmin,
                  ReadFingerprint, Refused, Finish, Crash
    <3> QED BY <3>1, SlotRests
  <2>2. CASE \E d \in Dispatchers : Reserve(d)
    BY <2>2, ReserveSlot
  <2>3. CASE \E n \in Names :
               Run(n) \/ FailIntent(n) \/ \E s \in {"FAILED", "CANCELLED"} : Abort(n, s)
    BY <2>0, <2>3, RunSlots
  <2>4. CASE Manual
    BY <2>0, <2>4, ManualSlots
  <2> QED BY <2>1, <2>2, <2>3, <2>4 DEF Next, Step
<1> QED BY <1>1, <1>2, InitInv, StepInv, PTL DEF Spec, ImplementsRunSlot, Slot!SlotSpec
=============================================================================
