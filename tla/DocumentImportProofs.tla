------------------------- MODULE DocumentImportProofs -------------------------
(***************************************************************************)
(* Theorems of DocumentImport, for any number of documents, requests,      *)
(* dispatchers and workers, and any durations in the order the code keeps. *)
(***************************************************************************)
EXTENDS DocumentImport, FiniteSetTheorems, TLAPS

USE ImportAssumption DEF Timers

Saving == {"save", "write", "confirm", "reconcile", "saved", "failed", "unknown"}

\* What a record says, and what the journal and the bucket hold.  Whatever is
\* settled has no lease, which is why no worker can report on it again.
RecInv(d) ==
    /\ rec[d].conv # "succeeded" =>
         rec[d].src = "not_started" /\ ~raw[d] /\ event[d].state = "none"
    /\ rec[d].conv = "failed" \/ rec[d].src \in {"saved", "failed"} =>
         rec[d].token = NoOne /\ rec[d].lease = 0
    /\ rec[d].del # "present" => rec[d].conv = "failed" \/ rec[d].src = "failed"
    /\ event[d].state = "committed" => raw[d]
    /\ rec[d].src = "saved" => event[d].state = "committed"

\* A worker that converts has the record's lease, and is gone before that runs
\* out, unless the queue gave the document up.  One that saves does so for a
\* converted document.
RunInv(w) ==
    LET d == run[w].doc IN
    /\ run[w].pc = "convert" =>
         /\ run[w].timer > 0
         /\ \/ rec[d].conv = "failed"
            \/ rec[d].conv = "converting" /\ rec[d].token = w /\ run[w].timer <= rec[d].lease
    /\ run[w].pc \in Saving => rec[d].conv = "succeeded"
    /\ run[w].pc = "confirm" => raw[d]
    /\ run[w].pc = "saved" => event[d].state = "committed"

\* A dispatcher that still holds its item is gone before the item's lease runs
\* out, and works for a deletion if one was asked for.
HoldsItem(k) ==
    LET d == disp[k].doc IN
    /\ disp[k].timer <= work[d].lease
    /\ work[d].status = "pending" /\ work[d].attempts >= 0
    /\ \/ disp[k].pc \in {"associate", "start", "started", "refused"}
       \/ disp[k].pc = "finish" /\ disp[k].cause # "error"
       => rec[d].del # "deleting"

DispInv(k) ==
    disp[k].pc # "idle" =>
      /\ disp[k].timer > 0
      /\ work[disp[k].doc].token = k => HoldsItem(k)

IndInv ==
    /\ TypeOK
    /\ \A d \in Documents : RecInv(d)
    /\ \A w \in Workers : RunInv(w)
    /\ \A k \in Dispatchers : DispInv(k)
    /\ OneConversion /\ WorkRemembered /\ FailuresCounted

-----------------------------------------------------------------------------
(* What a step has to respect, part by part.                               *)

\* A conversion ends as the lease allows, and a result is final.
RecGoes(d) ==
    /\ rec[d].conv = "succeeded" => rec'[d].conv = "succeeded"
    /\ rec[d].conv = "failed" => rec'[d].conv = "failed"
    /\ rec[d].conv = "converting" /\ rec[d].lease > 0 =>
         \/ rec'[d].conv = "failed"
         \/ rec'[d].conv = "converting" /\ rec'[d].token = rec[d].token
            /\ rec'[d].lease = rec[d].lease

\* What is stored and committed stays.
StoreGoes(d) ==
    /\ raw[d] => raw'[d]
    /\ event[d].state = "committed" => event'[d].state = "committed"

Stays(w) == run'[w] = run[w] \/ run'[w].pc \in {"idle", "launched"}

LEMMA RunKept ==
    ASSUME IndInv, NEW w \in Workers, Stays(w),
           RecGoes(run[w].doc), StoreGoes(run[w].doc)
    PROVE  RunInv(w)'
<1>1. CASE run'[w].pc \in {"idle", "launched"}
  BY <1>1 DEF RunInv, Saving
<1>2. CASE run'[w] = run[w]
  <2>1. run[w].doc \in Documents /\ run[w].timer \in Nat /\ RunInv(w)
    BY DEF IndInv, TypeOK, RunType
  <2>2. rec[run[w].doc].lease \in Nat
    BY <2>1 DEF IndInv, TypeOK, RecordType
  <2>3. run[w].pc = "convert" =>
          \/ rec'[run[w].doc].conv = "failed"
          \/ /\ rec'[run[w].doc].conv = "converting" /\ rec'[run[w].doc].token = w
             /\ run[w].timer <= rec'[run[w].doc].lease
    BY <2>1, <2>2 DEF RunInv, RecGoes
  <2> QED BY <1>2, <2>1, <2>3 DEF RunInv, RecGoes, StoreGoes
<1> QED BY <1>1, <1>2 DEF Stays

LEMMA RunsKept ==
    ASSUME IndInv, \A w \in Workers : Stays(w),
           \A d \in Documents : RecGoes(d) /\ StoreGoes(d)
    PROVE  (\A w \in Workers : RunInv(w)') /\ OneConversion'
<1>1. \A w \in Workers : run[w].doc \in Documents
  BY DEF IndInv, TypeOK, RunType
<1>2. \A w \in Workers : RunInv(w)'
  BY <1>1, RunKept
<1>3. OneConversion'
  BY DEF IndInv, OneConversion, Stays
<1> QED BY <1>2, <1>3

\* An item a dispatcher holds is left alone, or only given new attempts.
ItemGoes(k, d) ==
    work'[d].token = k =>
      /\ work'[d].token = work[d].token /\ work'[d].lease = work[d].lease
      /\ work'[d].status = work[d].status
      /\ work'[d].attempts >= 0 \/ work'[d].attempts = work[d].attempts
      /\ rec'[d].del = "deleting" => rec[d].del = "deleting"

LEMMA DispKept ==
    ASSUME IndInv, NEW k \in Dispatchers, disp'[k] = disp[k] \/ disp'[k].pc = "idle",
           ItemGoes(k, disp[k].doc)
    PROVE  DispInv(k)'
BY DEF IndInv, DispInv, HoldsItem, ItemGoes, TypeOK, DispatcherType, WorkType

LEMMA DispsKept ==
    ASSUME IndInv, \A k \in Dispatchers : disp'[k] = disp[k] \/ disp'[k].pc = "idle",
           \A k \in Dispatchers, d \in Documents : ItemGoes(k, d)
    PROVE  \A k \in Dispatchers : DispInv(k)'
<1>1. \A k \in Dispatchers : disp[k].doc \in Documents
  BY DEF IndInv, TypeOK, DispatcherType
<1> QED BY <1>1, DispKept

\* The failures are counted anew only where a record fails or is deleted.
CountsSame(d) ==
    /\ rec'[d].conv = "failed" <=> rec[d].conv = "failed"
    /\ rec[d].conv = "failed" => rec'[d].seq = rec[d].seq
    /\ rec'[d].del = "complete" <=> rec[d].del = "complete"

LEMMA CountsKept ==
    ASSUME IndInv, \A d \in Documents : CountsSame(d), UNCHANGED counters
    PROVE  FailuresCounted'
<1>1. {d \in Documents : FailedCounted(rec'[d])} = {d \in Documents : FailedCounted(rec[d])}
  BY DEF CountsSame, FailedCounted
<1>2. failed' = Cardinality({d \in Documents : FailedCounted(rec'[d])})
  BY <1>1 DEF IndInv, FailuresCounted, counters
<1>3. ASSUME NEW d \in Documents, NEW e \in Documents, rec'[d].conv = "failed"
      PROVE  /\ rec'[d].seq \in 1 .. latest'
             /\ (rec'[e].conv = "failed" /\ d # e) => rec'[d].seq # rec'[e].seq
  BY <1>3 DEF IndInv, FailuresCounted, CountsSame, counters
<1> QED BY <1>2, <1>3 DEF FailuresCounted

LEMMA FailureCounted ==
    ASSUME IndInv, NEW d \in Documents, rec[d].conv \in Unconverted, rec[d].del = "present",
           \A e \in Documents : e # d => rec'[e] = rec[e],
           rec'[d].conv = "failed", rec'[d].del = "present", rec'[d].seq = latest + 1,
           failed' = failed + 1, latest' = latest + 1
    PROVE  FailuresCounted'
<1> DEFINE F == {e \in Documents : FailedCounted(rec[e])}
           G == {e \in Documents : FailedCounted(rec'[e])}
<1>1. G = F \cup {d} /\ d \notin F
  BY DEF FailedCounted, Unconverted
<1>2. IsFiniteSet(F)
  BY FS_Subset
<1>3. Cardinality(G) = Cardinality(F) + 1
  BY <1>1, <1>2, FS_AddElement
<1>4. failed' = Cardinality(G)
  BY <1>3 DEF IndInv, FailuresCounted
<1>5. latest \in Nat
  BY DEF IndInv, TypeOK
<1>6. ASSUME NEW e \in Documents, rec'[e].conv = "failed"
      PROVE  rec'[e].seq \in 1 .. latest' /\ (e # d => rec'[e].seq < latest')
  <2>1. CASE e = d
    BY <2>1, <1>5
  <2>2. CASE e # d
    BY <2>2, <1>5, <1>6 DEF IndInv, FailuresCounted
  <2> QED BY <2>1, <2>2
<1>7. ASSUME NEW e \in Documents, NEW f \in Documents,
             rec'[e].conv = "failed", rec'[f].conv = "failed", e # f
      PROVE  rec'[e].seq # rec'[f].seq
  <2>1. CASE e # d /\ f # d
    BY <2>1, <1>7 DEF IndInv, FailuresCounted
  <2>2. CASE e = d \/ f = d
    BY <2>2, <1>5, <1>6, <1>7
  <2> QED BY <2>1, <2>2
<1> QED BY <1>4, <1>6, <1>7 DEF FailuresCounted

\* Steps that leave records, items and the journal alone.
StoresRest == UNCHANGED <<rec, work, failed, latest, raw, event>>

LEMMA Resting ==
    ASSUME IndInv, StoresRest
    PROVE  /\ \A d \in Documents : RecInv(d)'
           /\ WorkRemembered' /\ FailuresCounted'
           /\ \A d \in Documents : RecGoes(d) /\ StoreGoes(d)
           /\ \A k \in Dispatchers, d \in Documents : ItemGoes(k, d)
<1> USE DEF StoresRest
<1>1. \A d \in Documents : RecInv(d)'
  BY DEF IndInv, RecInv
<1>2. WorkRemembered'
  BY DEF IndInv, WorkRemembered, Recoverable, AssociationRecoverable
<1>3. FailuresCounted'
  BY CountsKept DEF CountsSame, counters
<1>4. \A d \in Documents : RecGoes(d) /\ StoreGoes(d)
  BY DEF RecGoes, StoreGoes
<1>5. \A k \in Dispatchers, d \in Documents : ItemGoes(k, d)
  BY DEF ItemGoes
<1> QED BY <1>1, <1>2, <1>3, <1>4, <1>5

-----------------------------------------------------------------------------
(* Initially, and requests.                                                *)

LEMMA InitInv == Init => IndInv
<1> SUFFICES ASSUME Init PROVE IndInv
  OBVIOUS
<1>1. TypeOK
  <2>1. rec \in [Documents -> RecordType]
    BY DEF Init, RecordType, Unconverted
  <2>2. work \in [Documents -> WorkType]
    BY DEF Init, WorkType, NewWork
  <2>3. event \in [Documents -> EventType]
    BY DEF Init, EventType
  <2>4. /\ req \in [Requests -> RequestType] /\ disp \in [Dispatchers -> DispatcherType]
        /\ run \in [Workers -> RunType]
    BY DEF Init, RequestType, DispatcherType, RunType
  <2> QED BY <2>1, <2>2, <2>3, <2>4 DEF Init, TypeOK
<1>2. \A d \in Documents : RecInv(d)
  BY DEF Init, RecInv
<1>3. \A w \in Workers : RunInv(w)
  BY DEF Init, RunInv, Saving
<1>4. \A k \in Dispatchers : DispInv(k)
  BY DEF Init, DispInv
<1>5. OneConversion /\ WorkRemembered
  BY DEF Init, OneConversion, WorkRemembered, Recoverable, AssociationRecoverable, Unconverted
<1>6. FailuresCounted
  <2>1. {d \in Documents : FailedCounted(rec[d])} = {}
    BY DEF Init, FailedCounted
  <2> QED BY <2>1, FS_EmptySet DEF Init, FailuresCounted
<1> QED BY <1>1, <1>2, <1>3, <1>4, <1>5, <1>6 DEF IndInv

\* A step of records and items, none of a worker or dispatcher.
LEMMA Compose ==
    ASSUME IndInv, TypeOK', \A d \in Documents : RecInv(d)', WorkRemembered', FailuresCounted',
           \A w \in Workers : Stays(w),
           \A k \in Dispatchers : disp'[k] = disp[k] \/ disp'[k].pc = "idle",
           \A d \in Documents : RecGoes(d) /\ StoreGoes(d),
           \A k \in Dispatchers, d \in Documents : ItemGoes(k, d)
    PROVE  IndInv'
<1>1. (\A w \in Workers : RunInv(w)') /\ OneConversion'
  BY RunsKept
<1>2. \A k \in Dispatchers : DispInv(k)'
  BY DispsKept
<1> QED BY <1>1, <1>2 DEF IndInv

LEMMA EnqueuedType == Enqueued \in WorkType
BY DEF WorkType, Enqueued, NewWork

LEMMA SubmitInv == ASSUME NEW q \in Requests, NEW d \in Documents
                   PROVE  IndInv /\ Submit(q, d) => IndInv'
<1> SUFFICES ASSUME IndInv, Submit(q, d) PROVE IndInv'
  OBVIOUS
<1> USE DEF Submit, At, counters, objects
<1>0. /\ \/ rec' = rec
         \/ rec[d].conv = "none" /\ rec' = [rec EXCEPT ![d].conv = "receiving"]
      /\ rec[d] \in RecordType /\ RecInv(d)
  BY DEF IndInv, TypeOK
<1>1. TypeOK'
  <2>1. rec' \in [Documents -> RecordType]
    <3>1. [rec[d] EXCEPT !.conv = "receiving"] \in RecordType
      BY <1>0 DEF RecordType
    <3> QED BY <1>0, <3>1 DEF IndInv, TypeOK
  <2>2. req' \in [Requests -> RequestType]
    BY DEF IndInv, TypeOK, RequestType
  <2> QED BY <2>1, <2>2 DEF IndInv, TypeOK
<1>2. \A e \in Documents : RecInv(e)'
  BY <1>0 DEF IndInv, TypeOK, RecInv, RecordType
<1>3. WorkRemembered'
  BY <1>0 DEF IndInv, TypeOK, RecordType, WorkRemembered, Recoverable, AssociationRecoverable,
              Unconverted
<1>4. \A e \in Documents : CountsSame(e) /\ RecGoes(e) /\ StoreGoes(e)
  BY <1>0 DEF IndInv, TypeOK, RecordType, CountsSame, RecGoes, StoreGoes
<1>5. \A k \in Dispatchers, e \in Documents : ItemGoes(k, e)
  BY <1>0 DEF IndInv, TypeOK, RecordType, ItemGoes
<1>6. FailuresCounted'
  BY <1>4, CountsKept
<1> QED BY <1>1, <1>2, <1>3, <1>4, <1>5, <1>6, Compose DEF Stays

LEMMA AcceptInv == ASSUME NEW q \in Requests PROVE IndInv /\ Accept(q) => IndInv'
<1> SUFFICES ASSUME IndInv, Accept(q) PROVE IndInv'
  OBVIOUS
<1> DEFINE d == req[q].doc
<1> USE DEF Accept, At, counters, objects
<1>0. d \in Documents /\ rec[d] \in RecordType /\ RecInv(d)
  BY DEF IndInv, TypeOK, RequestType
<1>1. req' \in [Requests -> RequestType]
  BY <1>0 DEF IndInv, TypeOK, RequestType
<1>2. CASE rec[d].conv # "receiving"
  <2>1. StoresRest
    BY <1>2 DEF StoresRest
  <2>2. TypeOK'
    BY <1>1, <2>1 DEF IndInv, TypeOK, StoresRest
  <2> QED BY <2>1, <2>2, Resting, Compose DEF Stays
<1>3. CASE rec[d].conv = "receiving"
  <2>0. rec' = [rec EXCEPT ![d].conv = "accepted"] /\ work' = [work EXCEPT ![d] = Enqueued]
    BY <1>3
  <2>1. TypeOK'
    <3>1. rec' \in [Documents -> RecordType]
      <4>1. [rec[d] EXCEPT !.conv = "accepted"] \in RecordType
        BY <1>0 DEF RecordType, Unconverted
      <4> QED BY <1>0, <2>0, <4>1 DEF IndInv, TypeOK
    <3>2. work' \in [Documents -> WorkType]
      BY <2>0, EnqueuedType DEF IndInv, TypeOK
    <3> QED BY <1>1, <3>1, <3>2 DEF IndInv, TypeOK
  <2>2. \A e \in Documents : RecInv(e)'
    BY <1>0, <1>3, <2>0 DEF IndInv, TypeOK, RecInv, RecordType
  <2>3. WorkRemembered'
    BY <2>0, <1>0 DEF IndInv, TypeOK, RecordType, WorkRemembered, Recoverable,
       AssociationRecoverable, Unconverted, Enqueued, NewWork
  <2>4. \A e \in Documents : CountsSame(e) /\ RecGoes(e) /\ StoreGoes(e)
    BY <1>0, <1>3, <2>0 DEF IndInv, TypeOK, RecordType, CountsSame, RecGoes, StoreGoes
  <2>5. \A k \in Dispatchers, e \in Documents : ItemGoes(k, e)
    BY <1>0, <2>0 DEF IndInv, TypeOK, RecordType, ItemGoes, Enqueued, NewWork
  <2>6. FailuresCounted'
    BY <2>4, CountsKept
  <2> QED BY <2>1, <2>2, <2>3, <2>4, <2>5, <2>6, Compose DEF Stays
<1> QED BY <1>2, <1>3

\* Marks on a record that neither its result nor its lease depends on.
Minor(d) ==
    /\ rec'[d].conv = rec[d].conv /\ rec'[d].src = rec[d].src /\ rec'[d].del = rec[d].del
    /\ rec'[d].token = rec[d].token /\ rec'[d].lease = rec[d].lease
    /\ rec'[d].seq = rec[d].seq
    /\ rec'[d].assoc = "pending" => rec[d].assoc = "pending"

LEMMA MinorInv ==
    ASSUME IndInv, UNCHANGED <<work, counters, raw, event>>, \A d \in Documents : Minor(d)
    PROVE  /\ \A d \in Documents : RecInv(d)'
           /\ WorkRemembered' /\ FailuresCounted'
           /\ \A d \in Documents : RecGoes(d) /\ StoreGoes(d)
           /\ \A k \in Dispatchers, d \in Documents : ItemGoes(k, d)
<1>1. \A d \in Documents : RecInv(d)'
  BY DEF IndInv, RecInv, Minor
<1>2. WorkRemembered'
  BY DEF IndInv, WorkRemembered, Recoverable, AssociationRecoverable, Minor
<1>3. FailuresCounted'
  BY CountsKept DEF CountsSame, Minor
<1>4. \A d \in Documents : RecGoes(d) /\ StoreGoes(d)
  BY DEF RecGoes, StoreGoes, Minor
<1>5. \A k \in Dispatchers, d \in Documents : ItemGoes(k, d)
  BY DEF ItemGoes, Minor
<1> QED BY <1>1, <1>2, <1>3, <1>4, <1>5

LEMMA MarkedMinor ==
    ASSUME TypeOK, NEW d \in Documents, NEW b \in BOOLEAN, Marked(d, b)
    PROVE  rec' \in [Documents -> RecordType] /\ \A e \in Documents : Minor(e)
<1>1. rec[d] \in RecordType /\ [rec[d] EXCEPT !.started = b] \in RecordType
  BY DEF TypeOK, RecordType
<1>2. rec' = rec \/ rec' = [rec EXCEPT ![d] = [rec[d] EXCEPT !.started = b]]
  BY <1>1 DEF TypeOK, Marked
<1>3. rec' \in [Documents -> RecordType]
  BY <1>1, <1>2 DEF TypeOK
<1>4. \A e \in Documents : Minor(e)
  BY <1>1, <1>2 DEF TypeOK, RecordType, Minor
<1> QED BY <1>3, <1>4

LEMMA AssociatedMinor ==
    ASSUME TypeOK, NEW d \in Documents, Associated(d)
    PROVE  rec' \in [Documents -> RecordType] /\ \A e \in Documents : Minor(e)
<1>1. rec[d] \in RecordType /\ [rec[d] EXCEPT !.assoc = "linked"] \in RecordType
  <2>1. rec[d] \in RecordType
    BY DEF TypeOK
  <2> QED BY <2>1 DEF RecordType
<1>2. rec' = rec \/ rec' = [rec EXCEPT ![d] = [rec[d] EXCEPT !.assoc = "linked"]]
  BY <1>1 DEF TypeOK, Associated
<1>3. rec' \in [Documents -> RecordType]
  BY <1>1, <1>2 DEF TypeOK
<1>4. \A e \in Documents : Minor(e)
  BY <1>1, <1>2 DEF TypeOK, RecordType, Minor
<1> QED BY <1>3, <1>4

\* A launched execution has read nothing.
LEMMA Launched ==
    ASSUME TypeOK, NEW d \in Documents, NEW launched \in BOOLEAN, Launch(d, launched)
    PROVE  run' \in [Workers -> RunType] /\ \A w \in Workers : Stays(w)
BY DEF TypeOK, Launch, Stays, RunType

LEMMA RequestsInv == ASSUME NEW q \in Requests PROVE IndInv /\ RequestNext(q) => IndInv'
<1> SUFFICES ASSUME IndInv, RequestNext(q) PROVE IndInv'
  OBVIOUS
<1> DEFINE d == req[q].doc
<1>0. TypeOK /\ d \in Documents
  BY DEF IndInv, TypeOK, RequestType
<1>a. ASSUME NEW pc \in {"accepting", "started", "refused", "done"}, At(q, d, pc)
      PROVE  req' \in [Requests -> RequestType]
  BY <1>0, <1>a DEF TypeOK, At, RequestType
<1>1. ASSUME NEW e \in Documents, Submit(q, e) PROVE IndInv'
  BY <1>1, SubmitInv
<1>2. CASE StoreOriginal(q)
  <2> USE <1>2 DEF StoreOriginal, counters
  <2>1. StoresRest /\ UNCHANGED <<disp, run>> /\ req' \in [Requests -> RequestType]
    BY <1>a DEF StoresRest
  <2>2. TypeOK'
    BY <1>0, <2>1 DEF TypeOK, StoresRest
  <2> QED BY <2>1, <2>2, Resting, Compose DEF Stays
<1>3. CASE Accept(q)
  BY <1>3, AcceptInv
<1>4. ASSUME NEW launched \in BOOLEAN, NEW ok \in BOOLEAN, RequestStart(q, launched, ok)
      PROVE  IndInv'
  <2> USE <1>4 DEF RequestStart, counters, objects
  <2>1. StoresRest /\ UNCHANGED <<original, intent, disp>> /\ req' \in [Requests -> RequestType]
    BY <1>a DEF StoresRest
  <2>2. run' \in [Workers -> RunType] /\ \A w \in Workers : Stays(w)
    BY <1>0, Launched
  <2>3. TypeOK'
    BY <1>0, <2>1, <2>2 DEF TypeOK, StoresRest
  <2> QED BY <2>1, <2>2, <2>3, Resting, Compose
<1>5. CASE RequestMark(q)
  <2> USE <1>5 DEF RequestMark, counters, objects
  <2>1. UNCHANGED <<work, counters, raw, event, original, intent, disp, run>>
        /\ req' \in [Requests -> RequestType]
    BY <1>a
  <2>2. rec' \in [Documents -> RecordType] /\ \A e \in Documents : Minor(e)
    BY <1>0, MarkedMinor
  <2>3. TypeOK'
    BY <1>0, <2>1, <2>2 DEF TypeOK
  <2> QED BY <2>1, <2>2, <2>3, MinorInv, Compose DEF Stays
<1>6. CASE RequestEnds(q)
  <2> USE <1>6 DEF RequestEnds, counters, objects
  <2>1. StoresRest /\ UNCHANGED <<original, intent, disp, run>> /\ req' \in [Requests -> RequestType]
    BY <1>a DEF StoresRest
  <2>2. TypeOK'
    BY <1>0, <2>1 DEF TypeOK, StoresRest
  <2> QED BY <2>1, <2>2, Resting, Compose DEF Stays
<1> QED BY <1>1, <1>2, <1>3, <1>4, <1>5, <1>6 DEF RequestNext

-----------------------------------------------------------------------------
(* Deletions, and what the queue gives up.                                 *)

\* A new work item for d, held by nobody.
LEMMA EnqueuedFree ==
    ASSUME TypeOK, NEW d \in Documents, work' = [work EXCEPT ![d] = Enqueued],
           \A e \in Documents : e # d => rec'[e] = rec[e]
    PROVE  /\ work' \in [Documents -> WorkType]
           /\ work'[d].status = "pending"
           /\ \A k \in Dispatchers, e \in Documents : ItemGoes(k, e)
<1>1. work' \in [Documents -> WorkType] /\ work'[d] = Enqueued
  BY EnqueuedType DEF TypeOK
<1>2. Enqueued.status = "pending" /\ Enqueued.token = NoOne
  BY DEF Enqueued, NewWork
<1>3. \A k \in Dispatchers, e \in Documents : ItemGoes(k, e)
  BY <1>1, <1>2 DEF TypeOK, ItemGoes
<1> QED BY <1>1, <1>2, <1>3

LEMMA DeleteInv == ASSUME NEW d \in Documents PROVE IndInv /\ Delete(d) => IndInv'
<1> SUFFICES ASSUME IndInv, Delete(d) PROVE IndInv'
  OBVIOUS
<1> USE DEF Delete, counters, objects
<1> DEFINE r == [rec[d] EXCEPT !.del = "deleting", !.token = NoOne]
<1>0. /\ rec[d] \in RecordType /\ RecInv(d) /\ r \in RecordType
      /\ rec' = [rec EXCEPT ![d] = r]
  <2>1. rec[d] \in RecordType /\ RecInv(d)
    BY DEF IndInv, TypeOK
  <2>2. r \in RecordType
    BY <2>1 DEF RecordType
  <2> QED BY <2>1, <2>2
<1>1. rec'[d] = r /\ \A e \in Documents : e # d => rec'[e] = rec[e]
  BY <1>0 DEF IndInv, TypeOK
<1>2. /\ r.conv = rec[d].conv /\ r.src = rec[d].src /\ r.lease = rec[d].lease
      /\ r.seq = rec[d].seq /\ r.del = "deleting" /\ r.token = NoOne
  BY <1>0 DEF RecordType
<1>3. /\ work' \in [Documents -> WorkType] /\ work'[d].status = "pending"
      /\ \A e \in Documents : e # d => work'[e] = work[e]
      /\ \A k \in Dispatchers, e \in Documents : ItemGoes(k, e)
  <2>1. \A e \in Documents : e # d => work'[e] = work[e]
    BY DEF IndInv, TypeOK
  <2> QED BY <1>1, <2>1, EnqueuedFree DEF IndInv
<1>4. TypeOK'
  BY <1>0, <1>3 DEF IndInv, TypeOK
<1>5. \A e \in Documents : RecInv(e)'
  <2>1. RecInv(d)'
    BY <1>0, <1>1, <1>2 DEF RecInv
  <2>2. ASSUME NEW e \in Documents, e # d PROVE RecInv(e)'
    <3>1. rec'[e] = rec[e] /\ raw' = raw /\ event' = event /\ RecInv(e)
      BY <1>1, <2>2 DEF IndInv
    <3> HIDE DEF Delete
    <3> QED BY <3>1 DEF RecInv
  <2> QED BY <2>1, <2>2
<1>6. WorkRemembered'
  BY <1>1, <1>3 DEF IndInv, WorkRemembered, Recoverable, AssociationRecoverable
<1>7. \A e \in Documents : CountsSame(e) /\ StoreGoes(e)
  BY <1>1, <1>2 DEF CountsSame, StoreGoes
<1>8. \A e \in Documents : RecGoes(e)
  BY <1>0, <1>1, <1>2 DEF RecGoes, RecInv
<1>9. FailuresCounted'
  BY <1>7, CountsKept
<1> QED BY <1>3, <1>4, <1>5, <1>6, <1>7, <1>8, <1>9, Compose DEF Stays

\* What FailDispatch does to the records, whatever becomes of the work item.
LEMMA Given ==
    ASSUME IndInv, NEW d \in Documents, FailDispatch(d), UNCHANGED <<raw, event>>
    PROVE  /\ rec' \in [Documents -> RecordType] /\ failed' \in Nat /\ latest' \in Nat
           /\ \A e \in Documents : e # d => rec'[e] = rec[e]
           /\ rec'[d].del = "deleting" => FALSE
           /\ \A e \in Documents : RecInv(e)' /\ RecGoes(e) /\ StoreGoes(e)
           /\ FailuresCounted'
<1> DEFINE r == [Unleased(rec[d]) EXCEPT !.started = FALSE]
<1>0. rec[d] \in RecordType /\ RecInv(d) /\ TypeOK
  BY DEF IndInv, TypeOK
<1>r. /\ r \in RecordType /\ r.conv = rec[d].conv /\ r.src = rec[d].src /\ r.del = rec[d].del
      /\ r.seq = rec[d].seq /\ r.token = NoOne /\ r.lease = 0
  BY <1>0 DEF RecordType, Unleased
<1> HIDE DEF r
<1>1. CASE rec[d].del = "deleting"
  <2> DEFINE s == [r EXCEPT !.del = "failed"]
  <2>1. /\ s \in RecordType /\ s.conv = rec[d].conv /\ s.src = rec[d].src /\ s.del = "failed"
        /\ s.seq = rec[d].seq /\ s.token = NoOne /\ s.lease = 0
    BY <1>r DEF RecordType
  <2>2. rec' = [rec EXCEPT ![d] = s] /\ UNCHANGED counters
    BY <1>1, <1>r DEF FailDispatch, r
  <2> HIDE DEF s
  <2>3. rec' \in [Documents -> RecordType] /\ rec'[d] = s
        /\ \A e \in Documents : e # d => rec'[e] = rec[e]
    BY <1>0, <2>1, <2>2 DEF TypeOK
  <2>4. \A e \in Documents : RecInv(e)'
    BY <1>0, <1>1, <2>1, <2>3 DEF IndInv, RecInv
  <2>5. \A e \in Documents : CountsSame(e) /\ StoreGoes(e) /\ RecGoes(e)
    BY <1>0, <1>1, <2>1, <2>3 DEF CountsSame, StoreGoes, RecGoes, RecInv
  <2>6. FailuresCounted'
    BY <2>2, <2>5, CountsKept
  <2> QED BY <1>0, <2>1, <2>2, <2>3, <2>4, <2>5, <2>6 DEF TypeOK, counters
<1>2. CASE rec[d].del # "deleting" /\ Recoverable(rec[d]) /\ rec[d].conv \in Unconverted
  <2> DEFINE s == [Unleased(r) EXCEPT !.conv = "failed", !.stage = "dispatch", !.seq = latest + 1]
  <2>1. /\ s \in RecordType /\ s.conv = "failed" /\ s.src = rec[d].src /\ s.del = rec[d].del
        /\ s.seq = latest + 1 /\ s.token = NoOne /\ s.lease = 0
    <3>1. latest + 1 \in Nat
      BY <1>0 DEF TypeOK
    <3> QED BY <1>r, <3>1 DEF RecordType, Unleased
  <2>2. rec' = [rec EXCEPT ![d] = s] /\ failed' = failed + 1 /\ latest' = latest + 1
    BY <1>2, <1>r DEF FailDispatch, r, CountFailure
  <2> HIDE DEF s
  <2>3. rec' \in [Documents -> RecordType] /\ rec'[d] = s
        /\ \A e \in Documents : e # d => rec'[e] = rec[e]
    BY <1>0, <2>1, <2>2 DEF TypeOK
  <2>4. \A e \in Documents : RecInv(e)'
    BY <1>0, <1>2, <2>1, <2>3 DEF IndInv, RecInv, Unconverted
  <2>5. \A e \in Documents : StoreGoes(e) /\ RecGoes(e)
    BY <1>0, <1>2, <2>1, <2>3 DEF StoreGoes, RecGoes, Unconverted
  <2>6. FailuresCounted'
    BY <1>2, <2>1, <2>2, <2>3, FailureCounted DEF Recoverable
  <2> QED BY <1>0, <1>2, <2>1, <2>2, <2>3, <2>4, <2>5, <2>6 DEF TypeOK
<1>3. CASE rec[d].del # "deleting" /\ Recoverable(rec[d]) /\ rec[d].conv \notin Unconverted
  <2> DEFINE s == [r EXCEPT !.src = "unknown", !.stage = "source_save"]
  <2>1. /\ s \in RecordType /\ s.conv = rec[d].conv /\ s.src = "unknown" /\ s.del = rec[d].del
        /\ s.seq = rec[d].seq /\ s.token = NoOne /\ s.lease = 0
    BY <1>r DEF RecordType
  <2>2. rec' = [rec EXCEPT ![d] = s] /\ UNCHANGED counters
    BY <1>3, <1>r DEF FailDispatch, r
  <2> HIDE DEF s
  <2>3. rec' \in [Documents -> RecordType] /\ rec'[d] = s
        /\ \A e \in Documents : e # d => rec'[e] = rec[e]
    BY <1>0, <2>1, <2>2 DEF TypeOK
  <2>4. rec[d].conv = "succeeded" /\ rec[d].src \notin {"saved", "failed"}
        /\ rec[d].del = "present"
    BY <1>3 DEF Recoverable
  <2>5. \A e \in Documents : RecInv(e)'
    BY <1>0, <2>1, <2>3, <2>4 DEF IndInv, RecInv
  <2>6. \A e \in Documents : CountsSame(e) /\ StoreGoes(e) /\ RecGoes(e)
    BY <1>0, <2>1, <2>3, <2>4 DEF CountsSame, StoreGoes, RecGoes
  <2>7. FailuresCounted'
    BY <2>2, <2>6, CountsKept
  <2> QED BY <1>0, <2>1, <2>2, <2>3, <2>4, <2>5, <2>6, <2>7 DEF TypeOK, counters
<1>4. CASE rec[d].del # "deleting" /\ ~Recoverable(rec[d])
  <2> DEFINE s == [r EXCEPT !.stage = "none"]
  <2>1. /\ s \in RecordType /\ s.conv = rec[d].conv /\ s.src = rec[d].src /\ s.del = rec[d].del
        /\ s.seq = rec[d].seq /\ s.token = NoOne /\ s.lease = 0
    BY <1>r DEF RecordType
  <2>2. UNCHANGED counters /\ (rec' = rec \/ rec' = [rec EXCEPT ![d] = s])
        /\ (~AssociationRecoverable(rec[d]) => rec' = rec)
    BY <1>4, <1>r DEF FailDispatch, r
  <2> HIDE DEF s
  <2>3. rec' \in [Documents -> RecordType] /\ (rec'[d] = s \/ rec' = rec)
        /\ \A e \in Documents : e # d => rec'[e] = rec[e]
    BY <1>0, <2>1, <2>2 DEF TypeOK
  <2>4. \A e \in Documents : RecInv(e)'
    BY <1>0, <1>4, <2>1, <2>3 DEF IndInv, RecInv
  <2>5. \A e \in Documents : CountsSame(e) /\ StoreGoes(e)
    BY <1>0, <1>4, <2>1, <2>3 DEF CountsSame, StoreGoes
  <2>6. \A e \in Documents : RecGoes(e)
    <3>1. rec' # rec => rec[d].conv = "succeeded"
      BY <2>2 DEF AssociationRecoverable
    <3> QED BY <1>0, <2>1, <2>3, <3>1 DEF RecGoes
  <2>7. FailuresCounted'
    BY <2>2, <2>5, CountsKept
  <2> QED BY <1>0, <1>4, <2>1, <2>2, <2>3, <2>4, <2>5, <2>6, <2>7 DEF TypeOK, counters
<1> QED BY <1>1, <1>2, <1>3, <1>4

LEMMA ComposeDisp ==
    ASSUME IndInv, TypeOK', \A d \in Documents : RecInv(d)', WorkRemembered', FailuresCounted',
           \A w \in Workers : Stays(w), \A d \in Documents : RecGoes(d) /\ StoreGoes(d),
           \A k \in Dispatchers : DispInv(k)'
    PROVE  IndInv'
<1>1. (\A w \in Workers : RunInv(w)') /\ OneConversion'
  BY RunsKept
<1> QED BY <1>1 DEF IndInv

LEMMA ExhaustInv == ASSUME NEW d \in Documents PROVE IndInv /\ ExhaustWork(d) => IndInv'
<1> SUFFICES ASSUME IndInv, ExhaustWork(d) PROVE IndInv'
  OBVIOUS
<1> USE DEF ExhaustWork
<1>0. /\ FailDispatch(d) /\ UNCHANGED <<raw, event, original, intent, req, disp, run>>
      /\ work' = [work EXCEPT ![d].status = "exhausted"] /\ work[d].lease = 0
  BY DEF objects, Claimable
<1>1. work' \in [Documents -> WorkType] /\ work'[d].status = "exhausted"
      /\ \A e \in Documents : e # d => work'[e] = work[e]
  <2>1. work[d] \in WorkType
    BY DEF IndInv, TypeOK
  <2>2. [work[d] EXCEPT !.status = "exhausted"] \in WorkType
    BY <2>1 DEF WorkType
  <2> HIDE DEF ExhaustWork
  <2> QED BY <1>0, <2>1, <2>2 DEF IndInv, TypeOK, WorkType
<1> HIDE DEF ExhaustWork
<1>2. /\ rec' \in [Documents -> RecordType] /\ failed' \in Nat /\ latest' \in Nat
      /\ \A e \in Documents : e # d => rec'[e] = rec[e]
      /\ \A e \in Documents : RecInv(e)' /\ RecGoes(e) /\ StoreGoes(e)
      /\ FailuresCounted'
  BY <1>0, Given
<1>3. TypeOK'
  BY <1>0, <1>1, <1>2 DEF IndInv, TypeOK
<1>4. WorkRemembered'
  BY <1>1, <1>2 DEF IndInv, WorkRemembered, Recoverable, AssociationRecoverable
<1>5. ASSUME NEW k \in Dispatchers PROVE DispInv(k)'
  <2>1. disp'[k] = disp[k] /\ DispInv(k) /\ disp[k] \in DispatcherType
    BY <1>0 DEF IndInv, TypeOK
  <2>2. CASE disp[k].pc = "idle"
    BY <2>1, <2>2 DEF DispInv
  <2>3. CASE disp[k].doc # d
    BY <1>1, <1>2, <2>1, <2>3, DispKept DEF ItemGoes, DispatcherType
  <2>4. CASE disp[k].pc # "idle" /\ disp[k].doc = d
    <3>1. work[d].token # k
      BY <1>0, <2>1, <2>4 DEF DispInv, HoldsItem, DispatcherType
    <3>2. work'[d].token = work[d].token
      BY <1>0 DEF IndInv, TypeOK, WorkType
    <3> QED BY <2>1, <2>4, <3>1, <3>2 DEF DispInv
  <2> QED BY <2>2, <2>3, <2>4
<1>6. \A w \in Workers : Stays(w)
  BY <1>0 DEF Stays
<1> QED BY <1>2, <1>3, <1>4, <1>5, <1>6, ComposeDisp

-----------------------------------------------------------------------------
(* Dispatchers.                                                            *)

\* A dispatcher that goes on, with what it then knows of its item.
GoesOn(k) ==
    /\ disp[k].pc # "idle"
    /\ disp' \in [Dispatchers -> DispatcherType]
    /\ \A j \in Dispatchers : j # k => disp'[j] = disp[j]
    /\ \/ disp'[k].pc = "idle"
       \/ /\ disp'[k].doc = disp[k].doc /\ disp'[k].timer = disp[k].timer
          /\ work[disp[k].doc].token = k =>
               \/ disp'[k].pc \in {"cleanup", "cleaned", "uncleaned"}
               \/ disp'[k].pc = "finish" /\ disp'[k].cause = "error"
               \/ rec'[disp[k].doc].del # "deleting"

LEMMA GoingOn ==
    ASSUME IndInv, NEW k \in Dispatchers, GoesOn(k),
           \A j \in Dispatchers, d \in Documents : ItemGoes(j, d)
    PROVE  \A j \in Dispatchers : DispInv(j)'
<1>0. \A j \in Dispatchers : disp[j].doc \in Documents
  BY DEF IndInv, TypeOK, DispatcherType
<1>1. \A j \in Dispatchers : j # k => DispInv(j)'
  BY <1>0, DispKept DEF GoesOn
<1>2. DispInv(k)'
  <2>1. DispInv(k) /\ ItemGoes(k, disp[k].doc)
    BY <1>0 DEF IndInv
  <2>2. CASE disp'[k].pc = "idle"
    BY <2>2 DEF DispInv
  <2>3. CASE disp'[k].pc # "idle"
    <3>1. disp'[k].doc = disp[k].doc /\ disp'[k].timer = disp[k].timer /\ disp[k].timer > 0
      BY <2>1, <2>3 DEF GoesOn, DispInv
    <3>2. CASE work'[disp[k].doc].token # k
      BY <3>1, <3>2 DEF DispInv
    <3>3. CASE work'[disp[k].doc].token = k
      <4>1. work[disp[k].doc].token = k /\ HoldsItem(k)
        BY <2>1, <3>3 DEF ItemGoes, DispInv, GoesOn
      <4>2. HoldsItem(k)'
        BY <2>1, <2>3, <3>1, <3>3, <4>1 DEF GoesOn, HoldsItem, ItemGoes
      <4> QED BY <3>1, <4>2 DEF DispInv
    <3> QED BY <3>2, <3>3
  <2> QED BY <2>2, <2>3
<1> QED BY <1>1, <1>2

LEMMA StepGoesOn ==
    ASSUME IndInv, NEW k \in Dispatchers, disp[k].pc # "idle",
           NEW pc \in {"idle", "associate", "start", "started", "refused",
                       "cleanup", "cleaned", "uncleaned", "finish"},
           NEW cause \in {"none", "waiting", "accepted", "error"}, Step(k, pc, cause),
           work[disp[k].doc].token = k =>
             \/ pc \in {"idle", "cleanup", "cleaned", "uncleaned"}
             \/ pc = "finish" /\ cause = "error"
             \/ rec'[disp[k].doc].del # "deleting"
    PROVE  GoesOn(k)
<1> DEFINE p == [disp[k] EXCEPT !.pc = pc, !.cause = cause,
                                !.timer = IF pc = "idle" THEN 0 ELSE @]
<1>1. disp \in [Dispatchers -> DispatcherType] /\ disp[k] \in DispatcherType
  BY DEF IndInv, TypeOK
<1>2. p \in DispatcherType /\ p.pc = pc /\ p.doc = disp[k].doc /\ p.cause = cause
      /\ (pc # "idle" => p.timer = disp[k].timer)
  BY <1>1 DEF DispatcherType
<1>3. disp' = [disp EXCEPT ![k] = p]
  BY DEF Step
<1> HIDE DEF p
<1>4. disp' \in [Dispatchers -> DispatcherType] /\ disp'[k] = p
      /\ \A j \in Dispatchers : j # k => disp'[j] = disp[j]
  BY <1>1, <1>2, <1>3
<1> QED BY <1>2, <1>4 DEF GoesOn

LEMMA ClaimWorkInv == ASSUME NEW k \in Dispatchers, NEW d \in Documents
                      PROVE  IndInv /\ ClaimWork(k, d) => IndInv'
<1> SUFFICES ASSUME IndInv, ClaimWork(k, d) PROVE IndInv'
  OBVIOUS
<1> USE DEF ClaimWork, counters, objects
<1> DEFINE w == [work[d] EXCEPT !.attempts = @ + 1, !.token = k,
                                !.lease = WorkLease, !.due = WorkLease]
           p == [doc |-> d, timer |-> ExecutionTimeout, pc |-> "read", cause |-> "none"]
<1>0. work[d] \in WorkType /\ work[d].status = "pending" /\ ~(work[d].attempts >= MaxAttempts)
      /\ work' = [work EXCEPT ![d] = w] /\ disp' = [disp EXCEPT ![k] = p]
      /\ UNCHANGED <<rec, failed, latest, raw, event, run, original, intent, req>>
  <2>1. work[d] \in WorkType
    BY DEF IndInv, TypeOK
  <2>2. work[d].status = "pending" /\ ~(work[d].attempts >= MaxAttempts)
    BY DEF Claimable, OutOfAttempts
  <2>3. work' = [work EXCEPT ![d] = w]
    BY <2>1 DEF WorkType
  <2>4. disp' = [disp EXCEPT ![k] = p]
    OBVIOUS
  <2> QED BY <2>1, <2>2, <2>3, <2>4
<1> HIDE DEF ClaimWork
<1>1. w \in WorkType /\ w.status = "pending" /\ w.attempts >= 0 /\ w.token = k
      /\ w.lease = WorkLease
  <2>1. work[d].attempts + 1 \in -1 .. MaxAttempts /\ work[d].attempts + 1 >= 0
    <3>1. work[d] \in WorkType /\ ~(work[d].attempts >= MaxAttempts)
      BY <1>0
    <3>2. work[d].attempts \in -1 .. MaxAttempts
      BY <3>1 DEF WorkType
    <3> QED BY <3>1, <3>2
  <2>2. work[d] \in WorkType /\ work[d].status = "pending"
    BY <1>0
  <2>3. WorkLease \in Nat /\ k \in Dispatchers
    OBVIOUS
  <2>4. w \in WorkType
    BY <2>1, <2>2, <2>3 DEF WorkType
  <2> QED BY <2>1, <2>2, <2>4 DEF WorkType
<1>2. p \in DispatcherType
  BY DEF DispatcherType
<1> HIDE DEF w
<1>3. work' \in [Documents -> WorkType] /\ work'[d] = w
      /\ \A e \in Documents : e # d => work'[e] = work[e]
  BY <1>0, <1>1 DEF IndInv, TypeOK
<1>4. disp' \in [Dispatchers -> DispatcherType] /\ disp'[k] = p
      /\ \A j \in Dispatchers : j # k => disp'[j] = disp[j]
  BY <1>0, <1>2 DEF IndInv, TypeOK
<1>5. TypeOK'
  BY <1>0, <1>3, <1>4 DEF IndInv, TypeOK
<1>6. \A e \in Documents : RecInv(e)'
  BY <1>0 DEF IndInv, RecInv
<1>7. WorkRemembered'
  BY <1>0, <1>1, <1>3 DEF IndInv, WorkRemembered, Recoverable, AssociationRecoverable
<1>8. FailuresCounted'
  BY <1>0, CountsKept DEF CountsSame, counters
<1>9. \A e \in Documents : RecGoes(e) /\ StoreGoes(e)
  BY <1>0 DEF RecGoes, StoreGoes
<1>10. ASSUME NEW j \in Dispatchers PROVE DispInv(j)'
  <2>1. CASE j = k
    BY <1>1, <1>3, <1>4, <2>1 DEF DispInv, HoldsItem
  <2>2. CASE j # k
    <3>1. disp[j].doc \in Documents
      BY DEF IndInv, TypeOK, DispatcherType
    <3>2. ItemGoes(j, disp[j].doc)
      BY <1>0, <1>1, <1>3, <2>2, <3>1 DEF ItemGoes
    <3> QED BY <1>4, <2>2, <3>2, DispKept
  <2> QED BY <2>1, <2>2
<1>11. \A v \in Workers : Stays(v)
  BY <1>0 DEF Stays
<1> QED BY <1>5, <1>6, <1>7, <1>8, <1>9, <1>10, <1>11, ComposeDisp

LEMMA ReadRecordInv == ASSUME NEW k \in Dispatchers, NEW fails \in BOOLEAN
                       PROVE  IndInv /\ ReadRecord(k, fails) => IndInv'
<1> SUFFICES ASSUME IndInv, ReadRecord(k, fails) PROVE IndInv'
  OBVIOUS
<1> USE DEF ReadRecord, counters, objects
<1>1. StoresRest /\ UNCHANGED <<original, intent, req, run>>
  BY DEF StoresRest
<1>2. GoesOn(k)
  <2>0. disp[k].pc # "idle" /\ rec' = rec
    OBVIOUS
  <2>1. CASE fails
    <3>1. Step(k, "finish", "error")
      BY <2>1
    <3> QED BY <2>0, <3>1, StepGoesOn
  <2>2. CASE ~fails /\ rec[disp[k].doc].del = "deleting"
    <3>1. Step(k, "cleanup", "none")
      BY <2>2
    <3> QED BY <2>0, <3>1, StepGoesOn
  <2>3. CASE ~fails /\ rec[disp[k].doc].del # "deleting"
    <3>1. \/ Step(k, "associate", "none") \/ Step(k, "finish", "none")
          \/ Step(k, "finish", "waiting") \/ Step(k, "start", "none")
      BY <2>3
    <3> QED BY <2>0, <2>3, <3>1, StepGoesOn
  <2> QED BY <2>1, <2>2, <2>3
<1>3. TypeOK'
  BY <1>1, <1>2 DEF IndInv, TypeOK, StoresRest, GoesOn
<1>4. \A w \in Workers : Stays(w)
  BY <1>1 DEF Stays
<1> QED BY <1>1, <1>2, <1>3, <1>4, Resting, GoingOn, ComposeDisp

LEMMA StartJobInv ==
    ASSUME NEW k \in Dispatchers, NEW launched \in BOOLEAN, NEW ok \in BOOLEAN
    PROVE  IndInv /\ StartJob(k, launched, ok) => IndInv'
<1> SUFFICES ASSUME IndInv, StartJob(k, launched, ok) PROVE IndInv'
  OBVIOUS
<1> USE DEF StartJob, counters, objects
<1>1. StoresRest /\ UNCHANGED <<original, intent, req>>
  BY DEF StoresRest
<1>2. GoesOn(k)
  <2>1. disp[k].pc = "start" /\ rec' = rec
        /\ (Step(k, "started", "none") \/ Step(k, "refused", "none"))
    OBVIOUS
  <2>2. work[disp[k].doc].token = k => rec[disp[k].doc].del # "deleting"
    BY <2>1 DEF IndInv, DispInv, HoldsItem
  <2> HIDE DEF StartJob
  <2> QED BY <2>1, <2>2, StepGoesOn
<1>3. run' \in [Workers -> RunType] /\ \A w \in Workers : Stays(w)
  <2>1. TypeOK /\ disp[k].doc \in Documents
    BY DEF IndInv, TypeOK, DispatcherType
  <2> QED BY <2>1, Launched
<1>4. TypeOK'
  BY <1>1, <1>2, <1>3 DEF IndInv, TypeOK, StoresRest, GoesOn
<1> QED BY <1>1, <1>2, <1>3, <1>4, Resting, GoingOn, ComposeDisp

LEMMA MarkJobInv == ASSUME NEW k \in Dispatchers, NEW fails \in BOOLEAN
                    PROVE  IndInv /\ MarkJob(k, fails) => IndInv'
<1> SUFFICES ASSUME IndInv, MarkJob(k, fails) PROVE IndInv'
  OBVIOUS
<1> USE DEF MarkJob, counters, objects
<1>0. TypeOK /\ disp[k].doc \in Documents /\ rec \in [Documents -> RecordType]
  BY DEF IndInv, TypeOK, DispatcherType
<1>1. rec' \in [Documents -> RecordType] /\ \A e \in Documents : Minor(e)
  <2>1. CASE fails
    BY <1>0, <2>1 DEF Minor
  <2>2. CASE ~fails
    <3>1. Marked(disp[k].doc, disp[k].pc = "started")
      BY <2>2
    <3> HIDE DEF MarkJob
    <3> QED BY <1>0, <3>1, MarkedMinor
  <2> QED BY <2>1, <2>2
<1>2. UNCHANGED <<work, counters, raw, event, original, intent, req, run>>
  OBVIOUS
<1>3. GoesOn(k)
  <2>1. /\ disp[k].pc \in {"started", "refused"}
        /\ Step(k, "finish", "accepted") \/ Step(k, "finish", "error")
    OBVIOUS
  <2>2. work[disp[k].doc].token = k => rec[disp[k].doc].del # "deleting"
    BY <2>1 DEF IndInv, DispInv, HoldsItem
  <2>3. rec'[disp[k].doc].del = rec[disp[k].doc].del
    BY <1>0, <1>1 DEF Minor
  <2> HIDE DEF MarkJob
  <2> QED BY <2>1, <2>2, <2>3, StepGoesOn
<1>4. TypeOK'
  BY <1>0, <1>1, <1>2, <1>3 DEF TypeOK, GoesOn
<1>5. \A w \in Workers : Stays(w)
  BY <1>2 DEF Stays
<1> QED BY <1>1, <1>2, <1>3, <1>4, <1>5, MinorInv, GoingOn, ComposeDisp

LEMMA AssociateInv == ASSUME NEW k \in Dispatchers, NEW fails \in BOOLEAN
                      PROVE  IndInv /\ Associate(k, fails) => IndInv'
<1> SUFFICES ASSUME IndInv, Associate(k, fails) PROVE IndInv'
  OBVIOUS
<1> USE DEF Associate, counters, objects
<1>0. TypeOK /\ disp[k].doc \in Documents /\ rec \in [Documents -> RecordType]
  BY DEF IndInv, TypeOK, DispatcherType
<1>1. rec' \in [Documents -> RecordType] /\ \A e \in Documents : Minor(e)
  <2>1. CASE fails
    BY <1>0, <2>1 DEF Minor
  <2>2. CASE ~fails
    <3>1. Associated(disp[k].doc)
      BY <2>2
    <3> HIDE DEF Associate
    <3> QED BY <1>0, <3>1, AssociatedMinor
  <2> QED BY <2>1, <2>2
<1>2. UNCHANGED <<work, counters, raw, event, original, intent, req, run>>
  OBVIOUS
<1>3. GoesOn(k)
  <2>1. /\ disp[k].pc = "associate"
        /\ \/ Step(k, "finish", "error") \/ Step(k, "finish", "waiting")
           \/ Step(k, "finish", "none")
    OBVIOUS
  <2>2. work[disp[k].doc].token = k => rec[disp[k].doc].del # "deleting"
    BY <2>1 DEF IndInv, DispInv, HoldsItem
  <2>3. rec'[disp[k].doc].del = rec[disp[k].doc].del
    BY <1>0, <1>1 DEF Minor
  <2> HIDE DEF Associate
  <2> QED BY <2>1, <2>2, <2>3, StepGoesOn
<1>4. TypeOK'
  BY <1>0, <1>1, <1>2, <1>3 DEF TypeOK, GoesOn
<1>5. \A w \in Workers : Stays(w)
  BY <1>2 DEF Stays
<1> QED BY <1>1, <1>2, <1>3, <1>4, <1>5, MinorInv, GoingOn, ComposeDisp

LEMMA CleanupInv == ASSUME NEW k \in Dispatchers, NEW done \in BOOLEAN
                    PROVE  IndInv /\ Cleanup(k, done) => IndInv'
<1> SUFFICES ASSUME IndInv, Cleanup(k, done) PROVE IndInv'
  OBVIOUS
<1> USE DEF Cleanup, counters
<1>1. StoresRest /\ UNCHANGED <<intent, req, run>>
  BY DEF StoresRest
<1>2. GoesOn(k)
  <2>1. disp[k].pc # "idle" /\ (Step(k, "cleaned", "none") \/ Step(k, "uncleaned", "none"))
    OBVIOUS
  <2> QED BY <2>1, StepGoesOn
<1>3. TypeOK'
  <2>1. original' \in [Documents -> BOOLEAN]
    BY DEF IndInv, TypeOK
  <2> QED BY <1>1, <1>2, <2>1 DEF IndInv, TypeOK, StoresRest, GoesOn
<1>4. \A w \in Workers : Stays(w)
  BY <1>1 DEF Stays
<1> QED BY <1>1, <1>2, <1>3, <1>4, Resting, GoingOn, ComposeDisp

LEMMA DispatcherEndsInv == ASSUME NEW k \in Dispatchers
                           PROVE  IndInv /\ DispatcherEnds(k) => IndInv'
<1> SUFFICES ASSUME IndInv, DispatcherEnds(k) PROVE IndInv'
  OBVIOUS
<1> USE DEF DispatcherEnds, counters, objects
<1>1. StoresRest /\ UNCHANGED <<original, intent, req, run>>
  BY DEF StoresRest
<1>2. GoesOn(k)
  BY StepGoesOn
<1>3. TypeOK'
  BY <1>1, <1>2 DEF IndInv, TypeOK, StoresRest, GoesOn
<1>4. \A w \in Workers : Stays(w)
  BY <1>1 DEF Stays
<1> QED BY <1>1, <1>2, <1>3, <1>4, Resting, GoingOn, ComposeDisp

LEMMA FinishDeletionInv == ASSUME NEW k \in Dispatchers
                           PROVE  IndInv /\ FinishDeletion(k) => IndInv'
<1> SUFFICES ASSUME IndInv, FinishDeletion(k) PROVE IndInv'
  OBVIOUS
<1>d. PICK d \in Documents : d = disp[k].doc
  BY DEF IndInv, TypeOK, DispatcherType
<1> DEFINE done == disp[k].pc = "cleaned"
           open == rec[d].del \in {"deleting", "failed"}
           r == [rec[d] EXCEPT !.del = IF done THEN "complete" ELSE "failed"]
<1>0. /\ TypeOK /\ d \in Documents /\ rec[d] \in RecordType /\ RecInv(d)
      /\ disp[k].pc \in {"cleaned", "uncleaned"}
      /\ UNCHANGED <<work, latest, original, raw, event, intent, req, run>>
  BY <1>d DEF IndInv, TypeOK, DispatcherType, FinishDeletion, objects
<1>1. /\ r \in RecordType /\ r.conv = rec[d].conv /\ r.src = rec[d].src /\ r.token = rec[d].token
      /\ r.lease = rec[d].lease /\ r.seq = rec[d].seq
      /\ r.del = IF done THEN "complete" ELSE "failed"
  BY <1>0 DEF RecordType
<1>2. /\ open => rec' = [rec EXCEPT ![d] = r]
      /\ ~open => rec' = rec
  BY <1>0, <1>d DEF FinishDeletion
<1>3. failed' = IF open /\ done /\ FailedCounted(rec[d]) /\ failed > 0 THEN failed - 1 ELSE failed
  BY <1>d DEF FinishDeletion
<1>4. Step(k, "finish", "error") \/ (Step(k, "finish", "none") /\ (open \/ rec[d].del = "complete"))
  BY <1>d DEF FinishDeletion
<1> HIDE DEF r
<1>5. /\ rec' \in [Documents -> RecordType] /\ (open => rec'[d] = r)
      /\ \A e \in Documents : e # d => rec'[e] = rec[e]
  BY <1>0, <1>1, <1>2 DEF TypeOK
<1>6. GoesOn(k)
  <2>1. rec[d].del = "complete" \/ open => rec'[d].del # "deleting"
    BY <1>1, <1>2, <1>5
  <2> QED BY <1>0, <1>d, <1>4, <2>1, StepGoesOn
<1>7. TypeOK'
  <2>1. failed' \in Nat
    BY <1>0, <1>3 DEF TypeOK
  <2> QED BY <1>0, <1>5, <1>6, <2>1 DEF TypeOK, GoesOn
<1>8. \A e \in Documents : RecInv(e)'
  <2>1. RecInv(d)'
    BY <1>0, <1>1, <1>2, <1>5 DEF RecInv
  <2>2. ASSUME NEW e \in Documents, e # d PROVE RecInv(e)'
    BY <1>0, <1>5, <2>2 DEF IndInv, RecInv
  <2> QED BY <2>1, <2>2
<1>9. \A e \in Documents : RecGoes(e) /\ StoreGoes(e)
  <2>1. RecGoes(d) /\ StoreGoes(d)
    BY <1>0, <1>1, <1>2, <1>5 DEF RecGoes, StoreGoes
  <2> QED BY <1>0, <1>5, <2>1 DEF RecGoes, StoreGoes
<1>10. \A j \in Dispatchers, e \in Documents : ItemGoes(j, e)
  <2>1. \A j \in Dispatchers : ItemGoes(j, d)
    BY <1>0, <1>1, <1>2, <1>5 DEF ItemGoes
  <2> QED BY <1>0, <1>5, <2>1 DEF ItemGoes
<1>11. WorkRemembered'
  <2>1. open => ~Recoverable(rec'[d]) /\ ~AssociationRecoverable(rec'[d]) /\ rec'[d].del # "deleting"
    BY <1>1, <1>5 DEF Recoverable, AssociationRecoverable
  <2> QED BY <1>0, <1>2, <1>5, <2>1 DEF IndInv, WorkRemembered, Recoverable, AssociationRecoverable
<1>12. FailuresCounted'
  <2>1. CASE open /\ done /\ FailedCounted(rec[d])
    <3> DEFINE F == {e \in Documents : FailedCounted(rec[e])}
               G == {e \in Documents : FailedCounted(rec'[e])}
    <3>1. G = F \ {d} /\ d \in F
      BY <1>0, <1>1, <1>5, <2>1 DEF FailedCounted
    <3>2. IsFiniteSet(F)
      BY FS_Subset
    <3>3. Cardinality(G) = Cardinality(F) - 1 /\ Cardinality(F) \in Nat /\ Cardinality(G) \in Nat
      <4>1. IsFiniteSet(G)
        BY FS_Subset
      <4>2. Cardinality(F \ {d}) = IF d \in F THEN Cardinality(F) - 1 ELSE Cardinality(F)
        BY <3>2, FS_RemoveElement
      <4> QED BY <3>1, <3>2, <4>1, <4>2, FS_CardinalityType
    <3>4. failed = Cardinality(F)
      BY DEF IndInv, FailuresCounted
    <3>5. failed' = Cardinality(G)
      BY <1>3, <2>1, <3>3, <3>4
    <3>6. \A e \in Documents : rec'[e].conv = rec[e].conv /\ rec'[e].seq = rec[e].seq
      BY <1>1, <1>5, <2>1
    <3>7. latest' = latest
      BY <1>0
    <3> QED BY <3>5, <3>6, <3>7 DEF IndInv, FailuresCounted
  <2>2. CASE ~(open /\ done /\ FailedCounted(rec[d]))
    <3>1. failed' = failed /\ latest' = latest
      BY <1>0, <1>3, <2>2
    <3> DEFINE F == {e \in Documents : FailedCounted(rec[e])}
               G == {e \in Documents : FailedCounted(rec'[e])}
    <3>2. FailedCounted(rec'[d]) = FailedCounted(rec[d])
      BY <1>0, <1>1, <1>2, <1>5, <2>2 DEF FailedCounted
    <3>3. G = F
      BY <1>5, <3>2 DEF FailedCounted
    <3>4. failed' = Cardinality(G)
      BY <3>1, <3>3 DEF IndInv, FailuresCounted
    <3>5. \A e \in Documents : rec'[e].conv = rec[e].conv /\ rec'[e].seq = rec[e].seq
      BY <1>1, <1>2, <1>5
    <3> QED BY <3>1, <3>4, <3>5 DEF IndInv, FailuresCounted
  <2> QED BY <2>1, <2>2
<1>13. \A w \in Workers : Stays(w)
  BY <1>0 DEF Stays
<1> QED BY <1>6, <1>7, <1>8, <1>9, <1>10, <1>11, <1>12, <1>13, GoingOn, ComposeDisp

\* What becomes of an item that is given back.
LEMMA SettledItem ==
    ASSUME NEW w \in WorkType, w.attempts >= 0, w.status = "pending", w.token = NoOne,
           NEW r \in RecordType, NEW cause \in {"none", "waiting", "accepted", "error"}
    PROVE  /\ Settled(w, r, cause) \in WorkType /\ Settled(w, r, cause).token = NoOne
           /\ \/ Settled(w, r, cause).status = "pending"
              \/ /\ Settled(w, r, cause).status = "complete"
                 /\ ~Recoverable(r) /\ ~AssociationRecoverable(r)
<1>0. r.lease \in Nat /\ w.attempts - 1 \in -1 .. MaxAttempts
  BY DEF RecordType, WorkType
<1>1. ASSUME NEW t \in Nat
      PROVE  /\ Wait(w, t) \in WorkType /\ Wait(w, t).token = NoOne
             /\ Wait(w, t).status = "pending"
             /\ Wait(Refunded(w), t) \in WorkType /\ Wait(Refunded(w), t).token = NoOne
             /\ Wait(Refunded(w), t).status = "pending"
             /\ [Wait(w, t) EXCEPT !.status = "pending"] = Wait(w, t)
             /\ [Wait(Refunded(w), t) EXCEPT !.status = "pending"] = Wait(Refunded(w), t)
  BY <1>0 DEF Wait, Refunded, WorkType
<1>2. Completed(w) \in WorkType /\ Completed(w).token = NoOne /\ Completed(w).status = "complete"
  BY DEF Completed, WorkType
<1>3. CASE cause = "waiting"
  <2>1. PICK t \in Nat : Settled(w, r, cause) = Wait(Refunded(w), t)
    BY <1>0, <1>3 DEF Settled
  <2> QED BY <1>1, <2>1
<1>4. CASE cause # "waiting" /\ AssociationRecoverable(r)
  <2>1. Settled(w, r, cause) = [Wait(w, Minute) EXCEPT !.status = "pending"] /\ Minute \in Nat
    BY <1>4 DEF Settled
  <2> QED BY <1>1, <2>1
<1>5. CASE cause # "waiting" /\ ~AssociationRecoverable(r) /\ ~Recoverable(r)
  BY <1>2, <1>5 DEF Settled
<1>6. CASE cause # "waiting" /\ ~AssociationRecoverable(r) /\ Recoverable(r)
  <2>1. PICK t \in Nat : \/ Settled(w, r, cause) = [Wait(w, t) EXCEPT !.status = "pending"]
                         \/ Settled(w, r, cause) = [Wait(Refunded(w), t) EXCEPT !.status = "pending"]
    BY <1>0, <1>6 DEF Settled
  <2> QED BY <1>1, <2>1
<1> QED BY <1>3, <1>4, <1>5, <1>6

LEMMA FinishInv == ASSUME NEW k \in Dispatchers PROVE IndInv /\ Finish(k) => IndInv'
<1> SUFFICES ASSUME IndInv, Finish(k) PROVE IndInv'
  OBVIOUS
<1>d. PICK d \in Documents : d = disp[k].doc
  BY DEF IndInv, TypeOK, DispatcherType
<1> DEFINE w == [work[d] EXCEPT !.token = NoOne, !.lease = 0]
           cause == disp[k].cause
<1>0. /\ TypeOK /\ rec[d] \in RecordType /\ work[d] \in WorkType
      /\ disp[k].pc = "finish" /\ cause \in {"none", "waiting", "accepted", "error"}
      /\ Step(k, "idle", "none")
      /\ UNCHANGED <<original, raw, event, intent, req, run>>
  BY <1>d DEF IndInv, TypeOK, DispatcherType, Finish, objects
<1>1. w \in WorkType /\ w.token = NoOne /\ w.status = work[d].status
      /\ w.attempts = work[d].attempts
  BY <1>0 DEF WorkType
<1>2. GoesOn(k)
  BY <1>0, StepGoesOn
<1>3. \A v \in Workers : Stays(v)
  BY <1>0 DEF Stays
<1>4. work[d].token = k => HoldsItem(k)
  BY <1>0, <1>d DEF IndInv, DispInv
\* Whatever is done to the item frees it.
<1>5. ASSUME NEW s \in WorkType, s.token = NoOne, work' = [work EXCEPT ![d] = s],
             \A e \in Documents : e # d => rec'[e] = rec[e],
             rec' \in [Documents -> RecordType], failed' \in Nat, latest' \in Nat,
             \A e \in Documents : RecInv(e)' /\ RecGoes(e) /\ StoreGoes(e), FailuresCounted',
             \/ s.status \in {"pending", "exhausted"}
             \/ /\ ~Recoverable(rec'[d]) /\ ~AssociationRecoverable(rec'[d])
                /\ rec'[d].del # "deleting"
      PROVE  IndInv'
  <2>1. /\ work' \in [Documents -> WorkType] /\ work'[d] = s
        /\ \A e \in Documents : e # d => work'[e] = work[e]
    BY <1>0, <1>5 DEF TypeOK
  <2>2. TypeOK'
    BY <1>0, <1>2, <1>5, <2>1 DEF TypeOK, GoesOn
  <2>3. WorkRemembered'
    BY <1>5, <2>1 DEF IndInv, WorkRemembered, Recoverable, AssociationRecoverable
  <2>4. \A j \in Dispatchers, e \in Documents : ItemGoes(j, e)
    BY <1>5, <2>1 DEF ItemGoes
  <2> QED BY <1>2, <1>3, <1>5, <2>2, <2>3, <2>4, GoingOn, ComposeDisp
<1>6. ASSUME UNCHANGED <<rec, failed, latest>>
      PROVE  /\ rec' \in [Documents -> RecordType] /\ failed' \in Nat /\ latest' \in Nat
             /\ \A e \in Documents : e # d => rec'[e] = rec[e]
             /\ \A e \in Documents : RecInv(e)' /\ RecGoes(e) /\ StoreGoes(e)
             /\ FailuresCounted'
  <2>1. \A e \in Documents : RecInv(e)'
    BY <1>0, <1>6 DEF IndInv, RecInv
  <2>2. \A e \in Documents : CountsSame(e) /\ RecGoes(e) /\ StoreGoes(e)
    BY <1>0, <1>6 DEF CountsSame, RecGoes, StoreGoes
  <2>3. FailuresCounted'
    BY <1>6, <2>2, CountsKept DEF counters
  <2> QED BY <1>0, <1>6, <2>1, <2>2, <2>3 DEF TypeOK
<1> HIDE DEF w
<1>7. CASE work[d].token # k
  <2>1. UNCHANGED <<rec, work, failed, latest>>
    BY <1>7, <1>d DEF Finish, counters
  <2>2. TypeOK'
    BY <1>0, <1>2, <2>1 DEF TypeOK, GoesOn
  <2> QED BY <1>0, <1>2, <1>3, <2>1, <2>2, Resting, GoingOn, ComposeDisp DEF StoresRest
<1>8. CASE work[d].token = k /\ cause # "error"
  <2> DEFINE s == Settled(w, rec[d], cause)
  <2>1. work' = [work EXCEPT ![d] = s] /\ UNCHANGED <<rec, failed, latest>>
    BY <1>8, <1>d DEF Finish, counters, w
  <2>2. rec[d].del # "deleting" /\ work[d].attempts >= 0 /\ work[d].status = "pending"
    BY <1>0, <1>4, <1>8, <1>d DEF HoldsItem
  <2>3. /\ s \in WorkType /\ s.token = NoOne
        /\ \/ s.status = "pending"
           \/ s.status = "complete" /\ ~Recoverable(rec[d]) /\ ~AssociationRecoverable(rec[d])
    BY <1>0, <1>1, <2>2, SettledItem
  <2> HIDE DEF s
  <2> QED BY <1>5, <1>6, <2>1, <2>2, <2>3
<1>9. CASE work[d].token = k /\ cause = "error" /\ OutOfAttempts(w)
  <2> DEFINE s == [w EXCEPT !.status = "exhausted"]
  <2>1. FailDispatch(d) /\ work' = [work EXCEPT ![d] = s]
    BY <1>9, <1>d DEF Finish, w
  <2>2. s \in WorkType /\ s.token = NoOne /\ s.status = "exhausted"
    BY <1>1 DEF WorkType
  <2> HIDE DEF s
  <2> QED BY <1>0, <1>5, <2>1, <2>2, Given
<1>10. CASE work[d].token = k /\ cause = "error" /\ ~OutOfAttempts(w)
  <2> DEFINE s == Wait(w, w.attempts * Minute)
  <2>1. work' = [work EXCEPT ![d] = s] /\ UNCHANGED <<rec, failed, latest>>
    BY <1>10, <1>d DEF Finish, counters, w
  <2>2. work[d].attempts \in Nat /\ work[d].status = "pending"
    <3>1. work[d].attempts \in -1 .. MaxAttempts
      BY <1>0 DEF WorkType
    <3> QED BY <1>4, <1>10, <1>d, <3>1 DEF HoldsItem
  <2>3. w.attempts * Minute \in Nat
    BY <1>1, <2>2
  <2>4. s \in WorkType /\ s.token = NoOne /\ s.status = "pending"
    BY <1>1, <2>2, <2>3 DEF WorkType, Wait
  <2> HIDE DEF s
  <2> QED BY <1>5, <1>6, <2>1, <2>4
<1> QED BY <1>7, <1>8, <1>9, <1>10

-----------------------------------------------------------------------------
(* Workers.                                                                *)

\* A worker w moves, and nobody else.
Moves(w) ==
    /\ run' \in [Workers -> RunType]
    /\ \A v \in Workers : v # w => run'[v] = run[v]

LEMMA ComposeRun ==
    ASSUME IndInv, NEW w \in Workers, Moves(w), RunInv(w)', UNCHANGED disp,
           run'[w].pc = "convert" =>
             \A v \in Workers : v # w /\ run[v].pc = "convert" => run[v].doc # run'[w].doc,
           TypeOK', \A d \in Documents : RecInv(d)', WorkRemembered', FailuresCounted',
           \A d \in Documents : StoreGoes(d),
           \A v \in Workers : v # w => RecGoes(run[v].doc) \/ RunInv(v)',
           \A k \in Dispatchers, d \in Documents : ItemGoes(k, d)
    PROVE  IndInv'
<1>1. \A v \in Workers : run[v].doc \in Documents
  BY DEF IndInv, TypeOK, RunType
<1>2. \A v \in Workers : RunInv(v)'
  BY <1>1, RunKept DEF Moves, Stays
<1>3. OneConversion'
  BY DEF IndInv, OneConversion, Moves
<1>4. \A k \in Dispatchers : DispInv(k)'
  BY DispsKept
<1> QED BY <1>2, <1>3, <1>4 DEF IndInv

LEMMA GoMoves ==
    ASSUME TypeOK, NEW w \in Workers,
           NEW pc \in {"idle", "save", "write", "confirm", "reconcile", "saved", "failed", "unknown"},
           Go(w, pc)
    PROVE  /\ Moves(w) /\ run'[w].pc = pc /\ run'[w].doc = run[w].doc
<1> DEFINE p == [run[w] EXCEPT !.pc = pc, !.timer = IF pc = "idle" THEN 0 ELSE @]
<1>1. run[w] \in RunType
  BY DEF TypeOK
<1>2. p \in RunType /\ p.pc = pc /\ p.doc = run[w].doc
  BY <1>1 DEF RunType
<1>3. run' = [run EXCEPT ![w] = p]
  BY DEF Go
<1> HIDE DEF p
<1> QED BY <1>2, <1>3 DEF TypeOK, Moves

\* Steps that concern the journal and the bucket of a converted document.
LEMMA Journal ==
    ASSUME IndInv, NEW d \in Documents, rec[d].conv = "succeeded",
           UNCHANGED <<rec, work, failed, latest>>,
           \A e \in Documents : e # d => raw'[e] = raw[e] /\ event'[e] = event[e],
           StoreGoes(d), event'[d].state = "committed" => raw'[d]
    PROVE  /\ \A e \in Documents : RecInv(e)'
           /\ WorkRemembered' /\ FailuresCounted'
           /\ \A e \in Documents : RecGoes(e) /\ StoreGoes(e)
           /\ \A k \in Dispatchers, e \in Documents : ItemGoes(k, e)
<1>1. RecInv(d)'
  BY DEF IndInv, RecInv, StoreGoes
<1>2. \A e \in Documents : e # d => RecInv(e)'
  BY DEF IndInv, RecInv
<1>3. WorkRemembered'
  BY DEF IndInv, WorkRemembered, Recoverable, AssociationRecoverable
<1>4. FailuresCounted'
  BY CountsKept DEF CountsSame, counters
<1>5. \A e \in Documents : RecGoes(e) /\ StoreGoes(e)
  BY DEF RecGoes, StoreGoes
<1>6. \A k \in Dispatchers, e \in Documents : ItemGoes(k, e)
  BY DEF ItemGoes
<1> QED BY <1>1, <1>2, <1>3, <1>4, <1>5, <1>6

\* A step of a saving worker to pc.
LEMMA SaveStep ==
    ASSUME IndInv, NEW w \in Workers, NEW d \in Documents, d = run[w].doc,
           run[w].pc \in Saving, UNCHANGED <<rec, work, failed, latest, original, intent, req, disp>>,
           \A e \in Documents : e # d => raw'[e] = raw[e] /\ event'[e] = event[e],
           raw' \in [Documents -> BOOLEAN], event' \in [Documents -> EventType],
           StoreGoes(d), event'[d].state = "committed" => raw'[d],
           NEW pc \in {"idle", "save", "write", "confirm", "reconcile", "saved", "failed", "unknown"},
           Go(w, pc), pc = "confirm" => raw'[d], pc = "saved" => event'[d].state = "committed"
    PROVE  IndInv'
<1>1. Moves(w) /\ run'[w].pc = pc /\ run'[w].doc = d
  BY GoMoves DEF IndInv
<1>2. RunInv(w)
  BY DEF IndInv
<1>3. rec[d].conv = "succeeded"
  BY <1>2 DEF RunInv
<1>4. /\ \A e \in Documents : RecInv(e)'
      /\ WorkRemembered' /\ FailuresCounted'
      /\ \A e \in Documents : RecGoes(e) /\ StoreGoes(e)
      /\ \A k \in Dispatchers, e \in Documents : ItemGoes(k, e)
  BY <1>3, Journal
<1>5. TypeOK'
  BY <1>1 DEF IndInv, TypeOK, Moves
<1>6. RunInv(w)'
  BY <1>1, <1>3 DEF RunInv, Saving
<1>7. \A v \in Workers : run[v].doc \in Documents
  BY DEF IndInv, TypeOK, RunType
<1> QED BY <1>1, <1>4, <1>5, <1>6, <1>7, ComposeRun

LEMMA CommittedGoes ==
    ASSUME TypeOK, NEW d \in Documents, Committed(d), UNCHANGED raw, raw[d]
    PROVE  /\ event' \in [Documents -> EventType] /\ StoreGoes(d)
           /\ \A e \in Documents : e # d => raw'[e] = raw[e] /\ event'[e] = event[e]
           /\ event'[d].state = "committed" => raw'[d]
<1>1. event[d] \in EventType /\ [event[d] EXCEPT !.state = "committed"] \in EventType
  <2>1. event[d] \in EventType
    BY DEF TypeOK
  <2> QED BY <2>1 DEF EventType
<1>2. event' = event \/ event' = [event EXCEPT ![d] = [event[d] EXCEPT !.state = "committed"]]
  BY <1>1 DEF Committed, TypeOK
<1> QED BY <1>1, <1>2 DEF TypeOK, StoreGoes, EventType

LEMMA ReconciledGoes ==
    ASSUME TypeOK, NEW d \in Documents, Reconciled(d), UNCHANGED raw, RecInv(d)
    PROVE  /\ event' \in [Documents -> EventType] /\ StoreGoes(d)
           /\ \A e \in Documents : e # d => raw'[e] = raw[e] /\ event'[e] = event[e]
           /\ event'[d].state = "committed" => raw'[d]
<1>1. CASE raw[d]
  BY <1>1, CommittedGoes DEF Reconciled
<1>2. CASE ~raw[d]
  <2>1. event[d] \in EventType /\ [event[d] EXCEPT !.state = "aborted"] \in EventType
    <3>1. event[d] \in EventType
      BY DEF TypeOK
    <3> QED BY <3>1 DEF EventType
  <2>2. \/ event' = event
        \/ event[d].state = "prepared"
           /\ event' = [event EXCEPT ![d] = [event[d] EXCEPT !.state = "aborted"]]
    BY <1>2, <2>1 DEF Reconciled, TypeOK
  <2> QED BY <1>2, <2>1, <2>2 DEF TypeOK, StoreGoes, EventType, RecInv
<1> QED BY <1>1, <1>2

LEMMA SavingInv ==
    ASSUME NEW w \in Workers, NEW landed \in BOOLEAN, NEW ok \in BOOLEAN, NEW fails \in BOOLEAN,
           IndInv,
           \/ PrepareSource(w, landed, ok) \/ WriteRaw(w, landed, ok)
           \/ ConfirmSource(w, landed, ok) \/ ReconcileSource(w, fails)
    PROVE  IndInv'
<1>d. PICK d \in Documents : d = run[w].doc
  BY DEF IndInv, TypeOK, RunType
<1>0. TypeOK /\ RunInv(w) /\ RecInv(d) /\ event[d] \in EventType
  BY DEF IndInv, TypeOK
<1>e. event' = event => event' \in [Documents -> EventType] /\ \A e \in Documents : event'[e] = event[e]
  BY <1>0 DEF TypeOK
<1>1. CASE PrepareSource(w, landed, ok)
  <2> USE <1>1 DEF PrepareSource, counters
  <2>1. /\ run[w].pc \in Saving /\ (Go(w, "write") \/ Go(w, "failed"))
        /\ UNCHANGED <<rec, work, failed, latest, original, raw, intent, req, disp>>
    BY DEF Saving
  <2>2. [state |-> "prepared", grace |-> Grace] \in EventType
    BY DEF EventType
  <2>3. \/ event' = event
        \/ event[d].state = "none"
           /\ event' = [event EXCEPT ![d] = [state |-> "prepared", grace |-> Grace]]
    BY <1>d
  <2> HIDE DEF PrepareSource
  <2>4. /\ event' \in [Documents -> EventType] /\ StoreGoes(d)
        /\ \A e \in Documents : e # d => raw'[e] = raw[e] /\ event'[e] = event[e]
        /\ raw' \in [Documents -> BOOLEAN]
        /\ event'[d].state = "committed" => raw'[d]
    BY <1>0, <2>1, <2>2, <2>3 DEF TypeOK, StoreGoes, RecInv
  <2> QED BY <1>d, <2>1, <2>4, SaveStep
<1>2. CASE WriteRaw(w, landed, ok)
  <2> USE <1>2 DEF WriteRaw, counters
  <2>1. /\ run[w].pc \in Saving /\ ((Go(w, "confirm") /\ landed) \/ Go(w, "reconcile"))
        /\ UNCHANGED <<rec, work, failed, latest, original, event, intent, req, disp>>
    BY DEF Saving
  <2>2. raw' = IF landed THEN [raw EXCEPT ![d] = TRUE] ELSE raw
    BY <1>d
  <2> HIDE DEF WriteRaw
  <2>3. /\ raw' \in [Documents -> BOOLEAN] /\ StoreGoes(d) /\ (landed => raw'[d])
        /\ \A e \in Documents : e # d => raw'[e] = raw[e] /\ event'[e] = event[e]
        /\ event'[d].state = "committed" => raw'[d]
    BY <1>0, <2>1, <2>2 DEF TypeOK, StoreGoes, RecInv
  <2>4. event' \in [Documents -> EventType]
    BY <1>e, <2>1
  <2> QED BY <1>d, <2>1, <2>3, <2>4, SaveStep
<1>3. CASE ConfirmSource(w, landed, ok)
  <2> USE <1>3 DEF ConfirmSource, counters
  <2>1. /\ run[w].pc = "confirm" /\ run[w].pc \in Saving
        /\ ((Go(w, "saved") /\ event'[d].state = "committed") \/ Go(w, "reconcile"))
        /\ UNCHANGED <<rec, work, failed, latest, original, raw, intent, req, disp>>
        /\ (Committed(d) \/ event' = event)
    BY <1>d DEF Saving
  <2> HIDE DEF ConfirmSource
  <2>2. raw[d] /\ raw \in [Documents -> BOOLEAN]
    BY <1>0, <1>d, <2>1 DEF RunInv, TypeOK
  <2>3. /\ event' \in [Documents -> EventType] /\ StoreGoes(d)
        /\ \A e \in Documents : e # d => raw'[e] = raw[e] /\ event'[e] = event[e]
        /\ event'[d].state = "committed" => raw'[d]
    BY <1>0, <1>e, <2>1, <2>2, CommittedGoes DEF StoreGoes
  <2> QED BY <1>d, <2>1, <2>2, <2>3, SaveStep
<1>4. CASE ReconcileSource(w, fails)
  <2> USE <1>4 DEF ReconcileSource, counters
  <2>1. /\ run[w].pc \in Saving
        /\ \/ Go(w, "unknown") \/ Go(w, "failed")
           \/ Go(w, "saved") /\ event'[d].state = "committed"
        /\ UNCHANGED <<rec, work, failed, latest, original, raw, intent, req, disp>>
        /\ (Reconciled(d) \/ event' = event)
    BY <1>d DEF Saving, OutcomeOf
  <2> HIDE DEF ReconcileSource
  <2>2. raw' \in [Documents -> BOOLEAN]
    BY <1>0, <2>1 DEF TypeOK
  <2>3. /\ event' \in [Documents -> EventType] /\ StoreGoes(d)
        /\ \A e \in Documents : e # d => raw'[e] = raw[e] /\ event'[e] = event[e]
        /\ event'[d].state = "committed" => raw'[d]
    <3>1. CASE event' = event
      BY <1>0, <1>e, <2>1, <3>1 DEF StoreGoes, RecInv
    <3>2. CASE Reconciled(d)
      BY <1>0, <2>1, <3>2, ReconciledGoes
    <3> QED BY <2>1, <3>1, <3>2
  <2> QED BY <1>d, <2>1, <2>2, <2>3, SaveStep
<1> QED BY <1>1, <1>2, <1>3, <1>4

LEMMA WorkerEndsInv == ASSUME NEW w \in Workers PROVE IndInv /\ WorkerEnds(w) => IndInv'
<1> SUFFICES ASSUME IndInv, WorkerEnds(w) PROVE IndInv'
  OBVIOUS
<1> USE DEF WorkerEnds, counters, objects
<1>1. StoresRest /\ UNCHANGED <<original, intent, req, disp>> /\ Go(w, "idle")
  BY DEF StoresRest
<1>2. Moves(w) /\ run'[w].pc = "idle"
  BY <1>1, GoMoves DEF IndInv
<1>3. TypeOK'
  BY <1>1, <1>2 DEF IndInv, TypeOK, StoresRest, Moves
<1>4. \A v \in Workers : Stays(v)
  BY <1>2 DEF Stays, Moves
<1> QED BY <1>1, <1>3, <1>4, Resting, Compose

\* A record's changes for a document d, and what is then left to show.
LEMMA ClaimRecordInv == ASSUME NEW w \in Workers PROVE IndInv /\ ClaimRecord(w) => IndInv'
<1> SUFFICES ASSUME IndInv, ClaimRecord(w) PROVE IndInv'
  OBVIOUS
<1>d. PICK d \in Documents : d = run[w].doc
  BY DEF IndInv, TypeOK, RunType
<1>0. /\ TypeOK /\ rec[d] \in RecordType /\ run[w] \in RunType /\ RecInv(d)
      /\ run[w].pc = "launched"
      /\ UNCHANGED <<work, failed, latest, original, raw, event, intent, req, disp>>
  BY DEF IndInv, TypeOK, ClaimRecord, counters, objects
<1>1. CASE ~(Recoverable(rec[d]) /\ rec[d].lease = 0)
  <2>1. Go(w, "idle") /\ UNCHANGED rec
    BY <1>1, <1>d DEF ClaimRecord
  <2>2. Moves(w) /\ run'[w].pc = "idle"
    BY <1>0, <2>1, GoMoves
  <2>3. TypeOK'
    BY <1>0, <2>1, <2>2 DEF TypeOK, Moves
  <2>4. \A v \in Workers : Stays(v)
    BY <2>2 DEF Stays, Moves
  <2> QED BY <1>0, <2>1, <2>3, <2>4, Resting, Compose DEF StoresRest
<1>2. CASE Recoverable(rec[d]) /\ rec[d].lease = 0
  <2> DEFINE r == [rec[d] EXCEPT !.conv = IF rec[d].conv = "succeeded" THEN rec[d].conv ELSE "converting",
                                 !.token = w, !.lease = RecordLease]
             p == [run[w] EXCEPT !.timer = RecordLease,
                                 !.pc = IF rec[d].conv = "succeeded" THEN "save" ELSE "convert"]
  <2>1. rec' = [rec EXCEPT ![d] = r] /\ run' = [run EXCEPT ![w] = p]
    BY <1>0, <1>2, <1>d DEF ClaimRecord
  <2>2. /\ r \in RecordType /\ r.token = w /\ r.lease = RecordLease /\ r.src = rec[d].src
        /\ r.del = rec[d].del /\ r.assoc = rec[d].assoc /\ r.seq = rec[d].seq
        /\ r.conv = IF rec[d].conv = "succeeded" THEN "succeeded" ELSE "converting"
    BY <1>0 DEF RecordType, Unconverted
  <2>3. /\ p \in RunType /\ p.doc = d /\ p.timer = RecordLease
        /\ p.pc = IF rec[d].conv = "succeeded" THEN "save" ELSE "convert"
    BY <1>0, <1>d DEF RunType
  <2> HIDE DEF r, p
  <2>4. /\ rec' \in [Documents -> RecordType] /\ rec'[d] = r
        /\ \A e \in Documents : e # d => rec'[e] = rec[e]
    BY <1>0, <2>1, <2>2 DEF TypeOK
  <2>5. Moves(w) /\ run'[w] = p
    BY <1>0, <2>1, <2>3 DEF TypeOK, Moves
  <2>6. TypeOK'
    BY <1>0, <2>4, <2>5 DEF TypeOK, Moves
  <2>7. /\ rec[d].del = "present"
        /\ \/ rec[d].conv \in Unconverted
           \/ rec[d].conv = "succeeded" /\ rec[d].src \notin {"saved", "failed"}
    BY <1>2 DEF Recoverable
  <2>8. \A e \in Documents : RecInv(e)'
    <3>1. RecInv(d)'
      BY <1>0, <2>2, <2>4, <2>7 DEF RecInv, Unconverted
    <3>2. ASSUME NEW e \in Documents, e # d PROVE RecInv(e)'
      BY <1>0, <2>4, <3>2 DEF IndInv, RecInv
    <3> QED BY <3>1, <3>2
  <2>9. WorkRemembered'
    BY <1>0, <1>2, <2>2, <2>4 DEF IndInv, WorkRemembered, Recoverable, AssociationRecoverable
  <2>10. \A e \in Documents : CountsSame(e) /\ StoreGoes(e) /\ RecGoes(e)
    BY <1>0, <1>2, <2>2, <2>4, <2>7 DEF CountsSame, StoreGoes, RecGoes, Unconverted
  <2>11. FailuresCounted'
    BY <1>0, <2>10, CountsKept DEF counters
  <2>12. \A k \in Dispatchers, e \in Documents : ItemGoes(k, e)
    BY <1>0, <2>2, <2>4 DEF ItemGoes
  <2>13. RunInv(w)'
    BY <2>2, <2>3, <2>4, <2>5 DEF RunInv, Saving
  <2>14. ASSUME NEW v \in Workers, run[v].pc = "convert", run[v].doc = d PROVE rec[d].conv = "failed"
    <3>1. RunInv(v) /\ run[v].timer \in Nat
      BY DEF IndInv, TypeOK, RunType
    <3> QED BY <1>2, <2>14, <3>1 DEF RunInv
  <2>15. \A v \in Workers : run[v].doc \in Documents
    BY <1>0 DEF TypeOK, RunType
  <2>16. rec[d].conv # "failed"
    BY <2>7 DEF Unconverted
  <2> QED BY <1>0, <2>3, <2>5, <2>6, <2>8, <2>9, <2>10, <2>11, <2>12, <2>13, <2>14, <2>15, <2>16,
             ComposeRun
<1> QED BY <1>1, <1>2

LEMMA RequeuedItem ==
    ASSUME TypeOK, NEW d \in Documents, NEW due \in Nat
    PROVE  /\ Requeued(work[d], due) \in WorkType /\ Requeued(work[d], due).status = "pending"
           /\ Requeued(work[d], due) = work[d] \/ Requeued(work[d], due).token = NoOne
<1>1. work[d] \in WorkType /\ work[d].attempts \in -1 .. MaxAttempts
  BY DEF TypeOK, WorkType
<1> DEFINE s == [NewWork EXCEPT !.status = "pending", !.attempts = work[d].attempts, !.due = due]
<1>2. s \in WorkType /\ s.status = "pending" /\ s.token = NoOne
  BY <1>1 DEF NewWork, WorkType
<1> QED BY <1>1, <1>2 DEF Requeued

LEMMA CompleteConversionInv ==
    ASSUME NEW w \in Workers PROVE IndInv /\ CompleteConversion(w) => IndInv'
<1> SUFFICES ASSUME IndInv, CompleteConversion(w) PROVE IndInv'
  OBVIOUS
<1>d. PICK d \in Documents : d = run[w].doc
  BY DEF IndInv, TypeOK, RunType
<1>0. /\ TypeOK /\ rec[d] \in RecordType /\ RecInv(d) /\ run[w].pc = "convert"
      /\ UNCHANGED <<failed, latest, original, raw, event, intent, req, disp>>
  BY DEF IndInv, TypeOK, CompleteConversion, counters, objects
<1>1. CASE ~Holds(w, d, "converting")
  <2>1. Go(w, "idle") /\ UNCHANGED <<rec, work>>
    BY <1>1, <1>d DEF CompleteConversion
  <2>2. Moves(w) /\ run'[w].pc = "idle"
    BY <1>0, <2>1, GoMoves
  <2>3. TypeOK'
    BY <1>0, <2>1, <2>2 DEF TypeOK, Moves
  <2>4. \A v \in Workers : Stays(v)
    BY <2>2 DEF Stays, Moves
  <2> QED BY <1>0, <2>1, <2>3, <2>4, Resting, Compose DEF StoresRest
<1>2. CASE Holds(w, d, "converting")
  <2> DEFINE r == [rec[d] EXCEPT !.conv = "succeeded", !.src = "saving", !.stage = "none"]
             s == Requeued(work[d], RecordLease)
  <2>1. rec' = [rec EXCEPT ![d] = r] /\ work' = [work EXCEPT ![d] = s] /\ Go(w, "save")
    BY <1>0, <1>2, <1>d DEF CompleteConversion
  <2>2. /\ r \in RecordType /\ r.conv = "succeeded" /\ r.src = "saving" /\ r.del = rec[d].del
        /\ r.token = rec[d].token
    BY <1>0 DEF RecordType
  <2>3. s \in WorkType /\ s.status = "pending" /\ (s = work[d] \/ s.token = NoOne)
    BY <1>0, RequeuedItem
  <2> HIDE DEF r, s
  <2>4. /\ rec' \in [Documents -> RecordType] /\ rec'[d] = r
        /\ \A e \in Documents : e # d => rec'[e] = rec[e]
    BY <1>0, <2>1, <2>2 DEF TypeOK
  <2>5. /\ work' \in [Documents -> WorkType] /\ work'[d] = s
        /\ \A e \in Documents : e # d => work'[e] = work[e]
    BY <1>0, <2>1, <2>3 DEF TypeOK
  <2>6. Moves(w) /\ run'[w].pc = "save" /\ run'[w].doc = d
    BY <1>0, <1>d, <2>1, GoMoves
  <2>7. TypeOK'
    BY <1>0, <2>4, <2>5, <2>6 DEF TypeOK, Moves
  <2>8. rec[d].conv = "converting" /\ rec[d].del = "present"
    BY <1>2 DEF Holds
  <2>9. \A e \in Documents : RecInv(e)'
    <3>1. RecInv(d)'
      BY <1>0, <2>2, <2>4, <2>8 DEF RecInv
    <3>2. ASSUME NEW e \in Documents, e # d PROVE RecInv(e)'
      BY <1>0, <2>4, <3>2 DEF IndInv, RecInv
    <3> QED BY <3>1, <3>2
  <2>10. WorkRemembered'
    BY <2>3, <2>4, <2>5 DEF IndInv, WorkRemembered, Recoverable, AssociationRecoverable
  <2>11. \A e \in Documents : CountsSame(e) /\ StoreGoes(e)
    BY <1>0, <2>2, <2>4, <2>8 DEF CountsSame, StoreGoes
  <2>12. FailuresCounted'
    BY <1>0, <2>11, CountsKept DEF counters
  <2>13. \A k \in Dispatchers, e \in Documents : ItemGoes(k, e)
    BY <1>0, <2>2, <2>3, <2>4, <2>5 DEF ItemGoes
  <2>14. RunInv(w)'
    BY <2>2, <2>4, <2>6 DEF RunInv, Saving
  <2>15. ASSUME NEW v \in Workers, v # w PROVE RecGoes(run[v].doc) \/ RunInv(v)'
    <3>1. CASE run[v].doc # d
      <4>1. run[v].doc \in Documents
        BY <1>0 DEF TypeOK, RunType
      <4> QED BY <2>4, <3>1, <4>1 DEF RecGoes
    <3>2. CASE run[v].doc = d
      <4>1. run[v].pc # "convert"
        BY <1>0, <1>d, <2>15, <3>2 DEF IndInv, OneConversion
      <4>2. RunInv(v)
        BY DEF IndInv
      <4>3. run[v].pc \notin Saving
        BY <2>8, <3>2, <4>2 DEF RunInv
      <4>4. run'[v] = run[v]
        BY <2>6, <2>15 DEF Moves
      <4> QED BY <4>1, <4>3, <4>4 DEF RunInv, Saving
    <3> QED BY <3>1, <3>2
  <2> QED BY <1>0, <2>6, <2>7, <2>9, <2>10, <2>11, <2>12, <2>13, <2>14, <2>15, ComposeRun
<1> QED BY <1>1, <1>2

LEMMA FailConversionInv ==
    ASSUME NEW w \in Workers PROVE IndInv /\ FailConversion(w) => IndInv'
<1> SUFFICES ASSUME IndInv, FailConversion(w) PROVE IndInv'
  OBVIOUS
<1>d. PICK d \in Documents : d = run[w].doc
  BY DEF IndInv, TypeOK, RunType
<1>0. /\ TypeOK /\ rec[d] \in RecordType /\ RecInv(d) /\ latest \in Nat /\ Go(w, "idle")
      /\ UNCHANGED <<work, original, raw, event, intent, req, disp>>
  BY DEF IndInv, TypeOK, FailConversion, objects
<1>1. Moves(w) /\ run'[w].pc = "idle" /\ \A v \in Workers : Stays(v)
  <2>1. Moves(w) /\ run'[w].pc = "idle"
    BY <1>0, GoMoves
  <2> QED BY <2>1 DEF Stays, Moves
<1>2. CASE ~Holds(w, d, "converting")
  <2>1. UNCHANGED <<rec, failed, latest>>
    BY <1>2, <1>d DEF FailConversion, counters
  <2>2. TypeOK'
    BY <1>0, <1>1, <2>1 DEF TypeOK, Moves
  <2> QED BY <1>0, <1>1, <2>1, <2>2, Resting, Compose DEF StoresRest
<1>3. CASE Holds(w, d, "converting")
  <2> DEFINE r == [Unleased(rec[d]) EXCEPT !.conv = "failed", !.stage = "conversion",
                                           !.seq = latest + 1]
  <2>1. rec' = [rec EXCEPT ![d] = r] /\ failed' = failed + 1 /\ latest' = latest + 1
    BY <1>3, <1>d DEF FailConversion, CountFailure
  <2>2. /\ r \in RecordType /\ r.conv = "failed" /\ r.src = rec[d].src /\ r.del = rec[d].del
        /\ r.token = NoOne /\ r.lease = 0 /\ r.seq = latest + 1
    <3>1. latest + 1 \in Nat
      BY <1>0
    <3> QED BY <1>0, <3>1 DEF RecordType, Unleased
  <2> HIDE DEF r
  <2>3. /\ rec' \in [Documents -> RecordType] /\ rec'[d] = r
        /\ \A e \in Documents : e # d => rec'[e] = rec[e]
    BY <1>0, <2>1, <2>2 DEF TypeOK
  <2>4. rec[d].conv = "converting" /\ rec[d].del = "present"
    BY <1>3 DEF Holds
  <2>5. TypeOK'
    BY <1>0, <1>1, <2>1, <2>3 DEF TypeOK, Moves
  <2>6. \A e \in Documents : RecInv(e)'
    <3>1. RecInv(d)'
      BY <1>0, <2>2, <2>3, <2>4 DEF RecInv
    <3>2. ASSUME NEW e \in Documents, e # d PROVE RecInv(e)'
      BY <1>0, <2>3, <3>2 DEF IndInv, RecInv
    <3> QED BY <3>1, <3>2
  <2>7. WorkRemembered'
    BY <1>0, <2>2, <2>3, <2>4 DEF IndInv, WorkRemembered, Recoverable, AssociationRecoverable,
                                  Unconverted
  <2>8. FailuresCounted'
    BY <2>1, <2>2, <2>3, <2>4, FailureCounted DEF Unconverted
  <2>9. \A e \in Documents : RecGoes(e) /\ StoreGoes(e)
    BY <1>0, <2>2, <2>3, <2>4 DEF RecGoes, StoreGoes
  <2>10. \A k \in Dispatchers, e \in Documents : ItemGoes(k, e)
    BY <1>0, <2>2, <2>3 DEF ItemGoes
  <2> QED BY <1>0, <1>1, <2>5, <2>6, <2>7, <2>8, <2>9, <2>10, Compose
<1> QED BY <1>2, <1>3

LEMMA AfterItem ==
    ASSUME TypeOK, NEW d \in Documents, NEW src \in {"saved", "failed", "unknown"},
           NEW assoc \in {"none", "pending"}
    PROVE  LET s == WorkAfter(work[d], src, assoc) IN
           /\ s \in WorkType
           /\ \/ s = work[d] \/ s.token = NoOne
              \/ /\ s.token = work[d].token /\ s.lease = work[d].lease
                 /\ s.status = work[d].status /\ s.attempts = 0
           /\ src = "unknown" \/ (src = "saved" /\ assoc = "pending") => s.status = "pending"
<1>1. work[d] \in WorkType
  BY DEF TypeOK
<1>2. CASE src = "unknown"
  BY <1>2, RequeuedItem DEF WorkAfter
<1>3. CASE src = "failed"
  BY <1>1, <1>3 DEF WorkAfter
<1>4. CASE src = "saved" /\ assoc = "none"
  <2>1. Completed(work[d]) \in WorkType /\ Completed(work[d]).token = work[d].token
    BY <1>1 DEF Completed, WorkType
  <2> QED BY <1>1, <1>4, <2>1 DEF WorkAfter
<1>5. CASE src = "saved" /\ assoc = "pending"
  <2> DEFINE fresh == [work[d] EXCEPT !.attempts = 0]
             anew == [Enqueued EXCEPT !.due = Minute]
  <2>1. /\ fresh \in WorkType /\ fresh.token = work[d].token /\ fresh.lease = work[d].lease
        /\ fresh.status = work[d].status /\ fresh.attempts = 0
    BY <1>1 DEF WorkType
  <2>2. anew \in WorkType /\ anew.token = NoOne /\ anew.status = "pending"
    <3>1. Enqueued.token = NoOne /\ Enqueued.status = "pending"
      BY DEF Enqueued, NewWork
    <3> QED BY <3>1, EnqueuedType DEF WorkType
  <2>3. \/ WorkAfter(work[d], src, assoc) = fresh /\ work[d].status = "pending"
        \/ WorkAfter(work[d], src, assoc) = anew
    BY <1>5 DEF WorkAfter
  <2> HIDE DEF fresh, anew
  <2> QED BY <2>1, <2>2, <2>3
<1> QED BY <1>2, <1>3, <1>4, <1>5

LEMMA SetSourceOutcomeInv ==
    ASSUME NEW w \in Workers, NEW assoc \in {"none", "pending"}
    PROVE  IndInv /\ SetSourceOutcome(w, assoc) => IndInv'
<1> SUFFICES ASSUME IndInv, SetSourceOutcome(w, assoc) PROVE IndInv'
  OBVIOUS
<1>d. PICK d \in Documents : d = run[w].doc
  BY DEF IndInv, TypeOK, RunType
<1> DEFINE src == run[w].pc
           holds == Holds(w, d, "succeeded") /\ ~(rec[d].src = "saved" /\ src = "saved")
<1>0. /\ TypeOK /\ rec[d] \in RecordType /\ RecInv(d) /\ RunInv(w) /\ Go(w, "idle")
      /\ src \in {"saved", "failed", "unknown"}
      /\ UNCHANGED <<failed, latest, original, raw, event, intent, req, disp>>
  BY DEF IndInv, TypeOK, SetSourceOutcome, counters, objects
<1>1. Moves(w) /\ run'[w].pc = "idle" /\ \A v \in Workers : Stays(v)
  <2>1. Moves(w) /\ run'[w].pc = "idle"
    BY <1>0, GoMoves
  <2> QED BY <2>1 DEF Stays, Moves
<1>2. CASE ~holds
  <2>1. UNCHANGED <<rec, work>>
    BY <1>2, <1>d DEF SetSourceOutcome
  <2>2. TypeOK'
    BY <1>0, <1>1, <2>1 DEF TypeOK, Moves
  <2> QED BY <1>0, <1>1, <2>1, <2>2, Resting, Compose DEF StoresRest
<1>3. CASE holds
  <2> DEFINE r == [Unleased(rec[d]) EXCEPT !.src = src,
                     !.stage = IF src = "saved" THEN "none" ELSE "source_save",
                     !.assoc = IF src = "saved" THEN assoc ELSE rec[d].assoc]
             s == WorkAfter(work[d], src, assoc)
  <2>1. rec' = [rec EXCEPT ![d] = r] /\ work' = [work EXCEPT ![d] = s]
    BY <1>0, <1>3, <1>d DEF SetSourceOutcome, TypeOK
  <2>2. /\ r \in RecordType /\ r.conv = rec[d].conv /\ r.src = src /\ r.del = rec[d].del
        /\ r.token = NoOne /\ r.lease = 0 /\ r.seq = rec[d].seq
        /\ (src = "saved" => r.assoc = assoc)
    BY <1>0 DEF RecordType, Unleased
  <2>3. /\ s \in WorkType
        /\ \/ s = work[d] \/ s.token = NoOne
           \/ /\ s.token = work[d].token /\ s.lease = work[d].lease
              /\ s.status = work[d].status /\ s.attempts = 0
        /\ src = "unknown" \/ (src = "saved" /\ assoc = "pending") => s.status = "pending"
    BY <1>0, AfterItem
  <2> HIDE DEF r, s
  <2>4. /\ rec' \in [Documents -> RecordType] /\ rec'[d] = r
        /\ \A e \in Documents : e # d => rec'[e] = rec[e]
    BY <1>0, <2>1, <2>2 DEF TypeOK
  <2>5. /\ work' \in [Documents -> WorkType] /\ work'[d] = s
        /\ \A e \in Documents : e # d => work'[e] = work[e]
    BY <1>0, <2>1, <2>3 DEF TypeOK
  <2>6. TypeOK'
    BY <1>0, <1>1, <2>4, <2>5 DEF TypeOK, Moves
  <2>7. rec[d].conv = "succeeded" /\ rec[d].del = "present"
        /\ (src = "saved" => event[d].state = "committed")
    BY <1>0, <1>3, <1>d DEF Holds, RunInv
  <2>8. \A e \in Documents : RecInv(e)'
    <3>1. RecInv(d)'
      BY <1>0, <2>2, <2>4, <2>7 DEF RecInv
    <3>2. ASSUME NEW e \in Documents, e # d PROVE RecInv(e)'
      BY <1>0, <2>4, <3>2 DEF IndInv, RecInv
    <3> QED BY <3>1, <3>2
  <2>9. WorkRemembered'
    <3>1. /\ Recoverable(rec'[d]) => src = "unknown"
          /\ AssociationRecoverable(rec'[d]) => src = "saved" /\ assoc = "pending"
          /\ rec'[d].del # "deleting"
      BY <1>0, <2>2, <2>4, <2>7 DEF Recoverable, AssociationRecoverable, Unconverted
    <3> QED BY <1>0, <2>3, <2>4, <2>5, <3>1
            DEF IndInv, WorkRemembered, Recoverable, AssociationRecoverable
  <2>10. \A e \in Documents : CountsSame(e) /\ StoreGoes(e) /\ RecGoes(e)
    BY <1>0, <2>2, <2>4, <2>7 DEF CountsSame, StoreGoes, RecGoes
  <2>11. FailuresCounted'
    BY <1>0, <2>10, CountsKept DEF counters
  <2>12. \A k \in Dispatchers, e \in Documents : ItemGoes(k, e)
    BY <1>0, <2>2, <2>3, <2>4, <2>5 DEF ItemGoes
  <2> QED BY <1>0, <1>1, <2>6, <2>8, <2>9, <2>10, <2>11, <2>12, Compose
<1> QED BY <1>2, <1>3

-----------------------------------------------------------------------------
(* The journal, the pipeline, and time.                                    *)

LEMMA OthersInv ==
    ASSUME NEW d \in Documents, IndInv,
           JournalReconciles(d) \/ ReserveIntent(d) \/ AssociateByPipeline(d)
    PROVE  IndInv'
<1>0. TypeOK /\ RecInv(d)
  BY DEF IndInv
<1>1. CASE JournalReconciles(d)
  <2>1. /\ event[d].state = "prepared" /\ Reconciled(d)
        /\ UNCHANGED <<rec, work, failed, latest, original, raw, intent, req, disp, run>>
    BY <1>1 DEF JournalReconciles, counters
  <2>2. rec[d].conv = "succeeded"
    BY <1>0, <2>1 DEF RecInv
  <2>3. /\ event' \in [Documents -> EventType] /\ StoreGoes(d)
        /\ \A e \in Documents : e # d => raw'[e] = raw[e] /\ event'[e] = event[e]
        /\ event'[d].state = "committed" => raw'[d]
    BY <1>0, <2>1, ReconciledGoes
  <2>4. TypeOK'
    BY <1>0, <2>1, <2>3 DEF TypeOK
  <2> QED BY <2>1, <2>2, <2>3, <2>4, Journal, Compose DEF Stays
<1>2. CASE ReserveIntent(d)
  <2>1. StoresRest /\ UNCHANGED <<original, req, disp, run>>
        /\ intent' = [intent EXCEPT ![d] = TRUE]
    BY <1>2 DEF ReserveIntent, StoresRest, counters
  <2>2. TypeOK'
    BY <1>0, <2>1 DEF TypeOK, StoresRest
  <2> QED BY <2>1, <2>2, Resting, Compose DEF Stays
<1>3. CASE AssociateByPipeline(d)
  <2>1. Associated(d) /\ UNCHANGED <<work, counters, raw, event, original, intent, req, disp, run>>
    BY <1>3 DEF AssociateByPipeline, objects
  <2>2. rec' \in [Documents -> RecordType] /\ \A e \in Documents : Minor(e)
    BY <1>0, <2>1, AssociatedMinor
  <2>3. TypeOK'
    BY <1>0, <2>1, <2>2 DEF TypeOK, counters
  <2> QED BY <2>1, <2>2, <2>3, MinorInv, Compose DEF Stays
<1> QED BY <1>1, <1>2, <1>3

LEMMA LessType == \A t \in Nat : Less(t) \in Nat /\ (t > 1 => Less(t) = t - 1)
BY DEF Less

\* What time changes: leases, deadlines and what ends with them.
LEMMA TickAges ==
    ASSUME TypeOK, Tick
    PROVE  /\ rec' \in [Documents -> RecordType]
           /\ \A d \in Documents :
                /\ rec'[d].conv = rec[d].conv /\ rec'[d].src = rec[d].src /\ rec'[d].del = rec[d].del
                /\ rec'[d].assoc = rec[d].assoc /\ rec'[d].seq = rec[d].seq
                /\ rec'[d].token = rec[d].token /\ rec'[d].lease = Less(rec[d].lease)
           /\ event' \in [Documents -> EventType]
           /\ \A d \in Documents : event'[d].state = event[d].state
           /\ run' \in [Workers -> RunType]
           /\ \A w \in Workers :
                /\ run'[w].doc = run[w].doc /\ run'[w].timer = Less(run[w].timer)
                /\ run'[w].pc = IF run[w].timer = 1 THEN "idle" ELSE run[w].pc
<1>1. /\ rec' \in [Documents -> RecordType]
      /\ \A d \in Documents :
           /\ rec'[d].conv = rec[d].conv /\ rec'[d].src = rec[d].src /\ rec'[d].del = rec[d].del
           /\ rec'[d].assoc = rec[d].assoc /\ rec'[d].seq = rec[d].seq
           /\ rec'[d].token = rec[d].token /\ rec'[d].lease = Less(rec[d].lease)
  <2>1. \A d \in Documents : rec[d] \in RecordType /\ Less(rec[d].lease) \in Nat
    BY LessType DEF TypeOK, RecordType
  <2>2. rec' = [d \in Documents |-> [rec[d] EXCEPT !.lease = Less(rec[d].lease)]]
    BY DEF Tick
  <2>3. \A d \in Documents : [rec[d] EXCEPT !.lease = Less(rec[d].lease)] \in RecordType
    BY <2>1 DEF RecordType
  <2> QED BY <2>1, <2>2, <2>3 DEF RecordType
<1>2. /\ event' \in [Documents -> EventType]
      /\ \A d \in Documents : event'[d].state = event[d].state
  <2>1. \A d \in Documents : event[d] \in EventType /\ Less(event[d].grace) \in Nat
    BY LessType DEF TypeOK, EventType
  <2>2. event' = [d \in Documents |-> [event[d] EXCEPT !.grace = Less(event[d].grace)]]
    BY DEF Tick
  <2> QED BY <2>1, <2>2 DEF EventType
<1>3. /\ run' \in [Workers -> RunType]
      /\ \A w \in Workers :
           /\ run'[w].doc = run[w].doc /\ run'[w].timer = Less(run[w].timer)
           /\ run'[w].pc = IF run[w].timer = 1 THEN "idle" ELSE run[w].pc
  <2>1. \A w \in Workers : run[w] \in RunType /\ Less(run[w].timer) \in Nat
    BY LessType DEF TypeOK, RunType
  <2> DEFINE aged(w) == [run[w] EXCEPT !.timer = Less(run[w].timer),
                           !.pc = IF Ends(run[w]) THEN "idle" ELSE run[w].pc]
  <2>2. run' = [w \in Workers |-> aged(w)]
    BY DEF Tick
  <2>3. \A w \in Workers :
           /\ aged(w) \in RunType
           /\ aged(w).doc = run[w].doc /\ aged(w).timer = Less(run[w].timer)
           /\ aged(w).pc = IF run[w].timer = 1 THEN "idle" ELSE run[w].pc
    BY <2>1 DEF RunType, Ends
  <2> HIDE DEF aged
  <2> QED BY <2>2, <2>3
<1> QED BY <1>1, <1>2, <1>3

LEMMA TickInv == IndInv /\ Tick => IndInv'
<1> SUFFICES ASSUME IndInv, Tick PROVE IndInv'
  OBVIOUS
<1>0. TypeOK /\ UNCHANGED <<failed, latest, original, raw, intent, req>>
  BY DEF IndInv, Tick, counters
<1>1. /\ rec' \in [Documents -> RecordType]
      /\ \A d \in Documents :
           /\ rec'[d].conv = rec[d].conv /\ rec'[d].src = rec[d].src /\ rec'[d].del = rec[d].del
           /\ rec'[d].assoc = rec[d].assoc /\ rec'[d].seq = rec[d].seq
           /\ rec'[d].token = rec[d].token /\ rec'[d].lease = Less(rec[d].lease)
  BY <1>0, TickAges
<1>2. /\ work' \in [Documents -> WorkType]
      /\ \A d \in Documents :
           /\ work'[d].status = work[d].status /\ work'[d].attempts = work[d].attempts
           /\ work'[d].token = work[d].token /\ work'[d].lease = Less(work[d].lease)
  <2>1. \A d \in Documents :
          work[d] \in WorkType /\ Less(work[d].lease) \in Nat /\ Less(work[d].due) \in Nat
    BY <1>0, LessType DEF TypeOK, WorkType
  <2> DEFINE aged(d) == [work[d] EXCEPT !.lease = Less(work[d].lease), !.due = Less(work[d].due)]
  <2>2. work' = [d \in Documents |-> aged(d)]
    BY DEF Tick
  <2>3. \A d \in Documents :
          /\ aged(d) \in WorkType /\ aged(d).status = work[d].status
          /\ aged(d).attempts = work[d].attempts /\ aged(d).token = work[d].token
          /\ aged(d).lease = Less(work[d].lease)
    BY <2>1 DEF WorkType
  <2> HIDE DEF aged
  <2> QED BY <2>2, <2>3
<1>3. /\ event' \in [Documents -> EventType]
      /\ \A d \in Documents : event'[d].state = event[d].state
  BY <1>0, TickAges
<1>4. /\ disp' \in [Dispatchers -> DispatcherType]
      /\ \A k \in Dispatchers :
           /\ disp'[k].doc = disp[k].doc /\ disp'[k].timer = Less(disp[k].timer)
           /\ disp'[k].pc = IF disp[k].timer = 1 THEN "idle" ELSE disp[k].pc
           /\ disp[k].timer # 1 => disp'[k].cause = disp[k].cause
  <2>1. \A k \in Dispatchers : disp[k] \in DispatcherType /\ Less(disp[k].timer) \in Nat
    BY <1>0, LessType DEF TypeOK, DispatcherType
  <2> DEFINE aged(k) == [disp[k] EXCEPT !.timer = Less(disp[k].timer),
                           !.pc = IF Ends(disp[k]) THEN "idle" ELSE disp[k].pc,
                           !.cause = IF Ends(disp[k]) THEN "none" ELSE disp[k].cause]
  <2>2. disp' = [k \in Dispatchers |-> aged(k)]
    BY DEF Tick
  <2>3. \A k \in Dispatchers :
           /\ aged(k) \in DispatcherType
           /\ aged(k).doc = disp[k].doc /\ aged(k).timer = Less(disp[k].timer)
           /\ aged(k).pc = IF disp[k].timer = 1 THEN "idle" ELSE disp[k].pc
           /\ disp[k].timer # 1 => aged(k).cause = disp[k].cause
    BY <2>1 DEF DispatcherType, Ends
  <2> HIDE DEF aged
  <2> QED BY <2>2, <2>3
<1>5. /\ run' \in [Workers -> RunType]
      /\ \A w \in Workers :
           /\ run'[w].doc = run[w].doc /\ run'[w].timer = Less(run[w].timer)
           /\ run'[w].pc = IF run[w].timer = 1 THEN "idle" ELSE run[w].pc
  BY <1>0, TickAges
<1>6. TypeOK'
  BY <1>0, <1>1, <1>2, <1>3, <1>4, <1>5 DEF TypeOK
<1>7. \A d \in Documents : RecInv(d)'
  <2>1. Less(0) = 0
    BY DEF Less
  <2> QED BY <1>0, <1>1, <1>3, <2>1 DEF IndInv, RecInv
<1>8. ASSUME NEW w \in Workers PROVE RunInv(w)'
  <2>1. /\ RunInv(w) /\ run[w].doc \in Documents /\ run[w].timer \in Nat
        /\ rec[run[w].doc].lease \in Nat
    BY DEF IndInv, TypeOK, RunType, RecordType
  <2>2. CASE run'[w].pc = "idle"
    BY <2>2 DEF RunInv, Saving
  <2>3. CASE run'[w].pc # "idle"
    <3>1. run'[w].pc = run[w].pc /\ run'[w].doc = run[w].doc /\ run[w].timer # 1
      BY <1>5, <2>3
    <3>2. run[w].pc = "convert" /\ run[w].timer <= rec[run[w].doc].lease =>
            run'[w].timer > 0 /\ run'[w].timer <= rec'[run[w].doc].lease
      BY <1>1, <1>5, <2>1, <3>1, LessType DEF RunInv
    <3>3. run[w].pc = "convert" => run'[w].timer > 0
      BY <1>5, <2>1, <3>1, LessType DEF RunInv
    <3> QED BY <1>0, <1>1, <1>3, <2>1, <3>1, <3>2, <3>3 DEF RunInv
  <2> QED BY <2>2, <2>3
<1>9. ASSUME NEW k \in Dispatchers PROVE DispInv(k)'
  <2>1. /\ DispInv(k) /\ disp[k].doc \in Documents /\ disp[k].timer \in Nat
        /\ work[disp[k].doc].lease \in Nat
    BY DEF IndInv, TypeOK, DispatcherType, WorkType
  <2>2. CASE disp'[k].pc = "idle"
    BY <2>2 DEF DispInv
  <2>3. CASE disp'[k].pc # "idle"
    <3>1. /\ disp'[k].pc = disp[k].pc /\ disp'[k].doc = disp[k].doc /\ disp'[k].cause = disp[k].cause
          /\ disp[k].timer # 1
      BY <1>4, <2>3
    <3>2. disp'[k].timer > 0
      BY <1>4, <2>1, <2>3, <3>1, LessType DEF DispInv
    <3>3. disp[k].timer <= work[disp[k].doc].lease => disp'[k].timer <= work'[disp[k].doc].lease
      BY <1>2, <1>4, <2>1, <2>3, <3>1, LessType DEF DispInv
    <3> QED BY <1>1, <1>2, <2>1, <2>3, <3>1, <3>2, <3>3 DEF DispInv, HoldsItem
  <2> QED BY <2>2, <2>3
<1>10. OneConversion'
  BY <1>5 DEF IndInv, OneConversion
<1>11. WorkRemembered'
  BY <1>1, <1>2 DEF IndInv, WorkRemembered, Recoverable, AssociationRecoverable
<1>12. FailuresCounted'
  BY <1>0, <1>1, CountsKept DEF CountsSame, counters
<1> QED BY <1>6, <1>7, <1>8, <1>9, <1>10, <1>11, <1>12 DEF IndInv

-----------------------------------------------------------------------------
(* The theorems.                                                           *)

LEMMA DispatchersInv == ASSUME NEW k \in Dispatchers PROVE IndInv /\ DispatchNext(k) => IndInv'
BY ClaimWorkInv, StartJobInv, ReadRecordInv, MarkJobInv, AssociateInv, CleanupInv,
   FinishDeletionInv, FinishInv, DispatcherEndsInv DEF DispatchNext

LEMMA WorkersInv == ASSUME NEW w \in Workers PROVE IndInv /\ WorkerNext(w) => IndInv'
<1> SUFFICES ASSUME IndInv, WorkerNext(w) PROVE IndInv'
  OBVIOUS
<1>1. ASSUME NEW landed \in BOOLEAN, NEW ok \in BOOLEAN,
             PrepareSource(w, landed, ok) \/ WriteRaw(w, landed, ok) \/ ConfirmSource(w, landed, ok)
      PROVE  IndInv'
  BY <1>1, SavingInv
<1>2. ASSUME NEW fails \in BOOLEAN, ReconcileSource(w, fails) PROVE IndInv'
  BY <1>2, SavingInv
<1>3. ASSUME NEW assoc \in {"none", "pending"}, SetSourceOutcome(w, assoc) PROVE IndInv'
  BY <1>3, SetSourceOutcomeInv
<1> QED BY <1>1, <1>2, <1>3, ClaimRecordInv, CompleteConversionInv, FailConversionInv, WorkerEndsInv
        DEF WorkerNext

LEMMA DocumentsInv == ASSUME NEW d \in Documents PROVE IndInv /\ DocumentNext(d) => IndInv'
BY DeleteInv, ExhaustInv, OthersInv DEF DocumentNext

LEMMA NextInv == IndInv /\ [Next]_vars => IndInv'
<1> SUFFICES ASSUME IndInv, [Next]_vars PROVE IndInv'
  OBVIOUS
<1>1. CASE UNCHANGED vars
  <2>1. StoresRest /\ UNCHANGED <<original, intent, req, disp, run>>
    BY <1>1 DEF vars, StoresRest
  <2>2. TypeOK'
    BY <2>1 DEF IndInv, TypeOK, StoresRest
  <2> QED BY <2>1, <2>2, Resting, Compose DEF Stays
<1> QED BY <1>1, RequestsInv, DispatchersInv, WorkersInv, DocumentsInv, TickInv DEF Next

THEOREM Invariance == Spec => []IndInv
<1>1. Init => IndInv
  BY InitInv
<1>2. IndInv /\ [Next]_vars => IndInv'
  BY NextInv
<1> QED BY <1>1, <1>2, PTL DEF Spec

\* The types: the attempts of an item stay between -1, a wait's refund of an
\* attempt that was forgiven, and the limit (ProfileDispatcher.finish).
THEOREM ImportTypes == Spec => []TypeOK
<1>1. IndInv => TypeOK
  BY DEF IndInv
<1> QED BY <1>1, Invariance, PTL

\* No two executions of the worker convert one document at a time, whatever
\* launches are repeated and whichever lease runs out (Claim).
THEOREM ConvertedByOne == Spec => []OneConversion
<1>1. IndInv => OneConversion
  BY DEF IndInv
<1> QED BY <1>1, Invariance, PTL

\* What the record says of the source is what the journal has decided
\* (SetSourceOutcome, FailConversion, FailDispatchInTransaction).
THEOREM RecordIsTrue == Spec => []OutcomeIsTrue
<1>1. IndInv => OutcomeIsTrue
  BY DEF IndInv, RecInv, OutcomeIsTrue
<1> QED BY <1>1, Invariance, PTL

\* A document with something left to do has a work item, unless its attempts
\* were used up (finish, Requeue, SetSourceOutcome, MarkDeleting).
THEOREM NothingForgotten == Spec => []WorkRemembered
<1>1. IndInv => WorkRemembered
  BY DEF IndInv
<1> QED BY <1>1, Invariance, PTL

\* The project's count of failures is the number of its failed documents, and
\* each failure has its own place in the sequence (FailConversion,
\* FailDispatchInTransaction, FinishDeletion).
THEOREM CountIsExact == Spec => []FailuresCounted
<1>1. IndInv => FailuresCounted
  BY DEF IndInv
<1> QED BY <1>1, Invariance, PTL

\* What a step may not do to a record that has its outcome.
Final(d) ==
    /\ rec[d].conv = "failed" => (rec'[d].conv = "failed" /\ rec'[d].seq = rec[d].seq)
    /\ rec[d].src \in {"saved", "failed"} => rec'[d].src = rec[d].src
    /\ rec[d].del = "complete" => rec'[d] = rec[d]

LEMMA MinorFinal ==
    ASSUME NEW d \in Documents, Marked(d, TRUE) \/ Marked(d, FALSE) \/ Associated(d), IndInv
    PROVE  \A e \in Documents : Final(e)
<1>1. \A e \in Documents : Minor(e)
  BY MarkedMinor, AssociatedMinor DEF IndInv
<1>2. \A e \in Documents : rec[e].del = "complete" => rec'[e] = rec[e]
  <2>1. rec[d].del = "complete" => rec' = rec
    BY DEF Marked, Markable, Associated, AssociationRecoverable
  <2>2. \A e \in Documents : e # d => rec'[e] = rec[e]
    BY DEF IndInv, TypeOK, Marked, Associated
  <2> QED BY <2>1, <2>2
<1> QED BY <1>1, <1>2 DEF Minor, Final

LEMMA FailDispatchFinal ==
    ASSUME NEW d \in Documents, FailDispatch(d), IndInv
    PROVE  \A e \in Documents : Final(e)
<1>0. /\ rec[d] \in RecordType /\ rec \in [Documents -> RecordType]
  BY DEF IndInv, TypeOK
<1> DEFINE r == [Unleased(rec[d]) EXCEPT !.started = FALSE]
<1>r. /\ r \in RecordType /\ r.conv = rec[d].conv /\ r.src = rec[d].src /\ r.del = rec[d].del
      /\ r.seq = rec[d].seq
  BY <1>0 DEF RecordType, Unleased
<1> HIDE DEF r
<1>1. CASE rec[d].del = "deleting"
  <2>1. rec' = [rec EXCEPT ![d] = [r EXCEPT !.del = "failed"]]
    BY <1>1, <1>r DEF FailDispatch, r
  <2> QED BY <1>0, <1>1, <1>r, <2>1 DEF Final, RecordType
<1>2. CASE rec[d].del # "deleting" /\ Recoverable(rec[d]) /\ rec[d].conv \in Unconverted
  <2>1. rec' = [rec EXCEPT ![d] = [Unleased(r) EXCEPT !.conv = "failed", !.stage = "dispatch",
                                                      !.seq = latest + 1]]
    BY <1>2, <1>r DEF FailDispatch, r, CountFailure
  <2>2. rec[d].conv # "failed" /\ rec[d].del = "present"
    BY <1>2 DEF Recoverable, Unconverted
  <2>3. rec'[d].src = rec[d].src /\ \A e \in Documents : e # d => rec'[e] = rec[e]
    BY <1>0, <1>r, <2>1 DEF RecordType, Unleased
  <2> QED BY <2>2, <2>3 DEF Final
<1>3. CASE rec[d].del # "deleting" /\ Recoverable(rec[d]) /\ rec[d].conv \notin Unconverted
  <2>1. rec' = [rec EXCEPT ![d] = [r EXCEPT !.src = "unknown", !.stage = "source_save"]]
    BY <1>3, <1>r DEF FailDispatch, r
  <2>2. rec[d].conv = "succeeded" /\ rec[d].src \notin {"saved", "failed"}
        /\ rec[d].del = "present"
    BY <1>3 DEF Recoverable
  <2>3. \A e \in Documents : e # d => rec'[e] = rec[e]
    BY <1>0, <2>1
  <2> QED BY <2>2, <2>3 DEF Final
<1>4. CASE rec[d].del # "deleting" /\ ~Recoverable(rec[d])
  <2>1. \/ rec' = rec
        \/ /\ rec' = [rec EXCEPT ![d] = [r EXCEPT !.stage = "none"]]
           /\ AssociationRecoverable(rec[d])
    BY <1>4, <1>r DEF FailDispatch, r
  <2>2. AssociationRecoverable(rec[d]) => rec[d].del = "present"
    BY DEF AssociationRecoverable
  <2> QED BY <1>0, <1>r, <2>1, <2>2 DEF Final, RecordType
<1> QED BY <1>1, <1>2, <1>3, <1>4

LEMMA RestingFinal == UNCHANGED rec => \A e \in Documents : Final(e)
BY DEF Final

LEMMA RequestsFinal ==
    ASSUME NEW q \in Requests, RequestNext(q), IndInv
    PROVE  \A e \in Documents : Final(e)
<1>d. PICK d \in Documents : d = req[q].doc
  BY DEF IndInv, TypeOK, RequestType
<1>0. rec \in [Documents -> RecordType] /\ \A e \in Documents : rec[e] \in RecordType /\ RecInv(e)
  BY DEF IndInv, TypeOK
<1>1. ASSUME NEW e \in Documents, Submit(q, e) PROVE \A f \in Documents : Final(f)
  <2>1. \/ rec' = rec
        \/ rec[e].conv = "none" /\ rec' = [rec EXCEPT ![e].conv = "receiving"]
    BY <1>1 DEF Submit
  <2> QED BY <1>0, <2>1 DEF Final, RecInv, RecordType
<1>2. CASE Accept(q)
  <2>1. \/ rec' = rec
        \/ rec[d].conv = "receiving" /\ rec' = [rec EXCEPT ![d].conv = "accepted"]
    BY <1>2, <1>d DEF Accept
  <2> QED BY <1>0, <2>1 DEF Final, RecInv, RecordType
<1>3. CASE RequestMark(q)
  <2>1. Marked(d, TRUE) \/ Marked(d, FALSE)
    BY <1>3, <1>d DEF RequestMark
  <2> QED BY <2>1, MinorFinal
<1>4. StoreOriginal(q) \/ RequestEnds(q)
      \/ (\E launched, ok \in BOOLEAN : RequestStart(q, launched, ok)) => UNCHANGED rec
  BY DEF StoreOriginal, RequestStart, RequestEnds
<1> QED BY <1>1, <1>2, <1>3, <1>4, RestingFinal DEF RequestNext

LEMMA DispatchersFinal ==
    ASSUME NEW k \in Dispatchers, DispatchNext(k), IndInv
    PROVE  \A e \in Documents : Final(e)
<1>d. PICK d \in Documents : d = disp[k].doc
  BY DEF IndInv, TypeOK, DispatcherType
<1>0. rec \in [Documents -> RecordType] /\ \A e \in Documents : rec[e] \in RecordType /\ RecInv(e)
  BY DEF IndInv, TypeOK
<1>1. ASSUME NEW fails \in BOOLEAN, MarkJob(k, fails) PROVE \A e \in Documents : Final(e)
  <2>1. rec' = rec \/ Marked(d, TRUE) \/ Marked(d, FALSE)
    BY <1>1, <1>d DEF MarkJob
  <2> QED BY <2>1, MinorFinal, RestingFinal
<1>2. ASSUME NEW fails \in BOOLEAN, Associate(k, fails) PROVE \A e \in Documents : Final(e)
  <2>1. rec' = rec \/ Associated(d)
    BY <1>2, <1>d DEF Associate
  <2> QED BY <2>1, MinorFinal, RestingFinal
<1>3. CASE FinishDeletion(k)
  <2>1. \/ rec' = rec
        \/ /\ rec[d].del \in {"deleting", "failed"}
           /\ rec' = [rec EXCEPT ![d].del = IF disp[k].pc = "cleaned" THEN "complete" ELSE "failed"]
    BY <1>3, <1>d DEF FinishDeletion
  <2> QED BY <1>0, <2>1 DEF Final, RecordType
<1>4. CASE Finish(k)
  <2>1. rec' = rec \/ FailDispatch(d)
    BY <1>4, <1>d DEF Finish
  <2> QED BY <2>1, FailDispatchFinal, RestingFinal
<1>5. \/ \E e \in Documents : ClaimWork(k, e)
      \/ \E launched, ok \in BOOLEAN : StartJob(k, launched, ok)
      \/ \E fails \in BOOLEAN : ReadRecord(k, fails) \/ Cleanup(k, fails)
      \/ DispatcherEnds(k)
      => UNCHANGED rec
  BY DEF ClaimWork, StartJob, ReadRecord, Cleanup, DispatcherEnds
<1> QED BY <1>1, <1>2, <1>3, <1>4, <1>5, RestingFinal DEF DispatchNext

LEMMA WorkersFinal ==
    ASSUME NEW w \in Workers, WorkerNext(w), IndInv
    PROVE  \A e \in Documents : Final(e)
<1>d. PICK d \in Documents : d = run[w].doc
  BY DEF IndInv, TypeOK, RunType
<1>0. rec \in [Documents -> RecordType] /\ \A e \in Documents : rec[e] \in RecordType /\ RecInv(e)
  BY DEF IndInv, TypeOK
\* Only a record whose result is open is written to.
<1>a. ASSUME \A e \in Documents : e # d => rec'[e] = rec[e],
             rec[d].conv # "failed", rec[d].del = "present",
             rec[d].src \in {"saved", "failed"} => rec'[d].src = rec[d].src
      PROVE  \A e \in Documents : Final(e)
  BY <1>a DEF Final
<1>1. CASE ClaimRecord(w)
  <2>1. CASE rec' = rec
    BY <2>1, RestingFinal
  <2>2. CASE rec' # rec
    <3>1. Recoverable(rec[d])
      BY <1>1, <1>d, <2>2 DEF ClaimRecord
    <3>2. rec' = [rec EXCEPT ![d].conv = IF rec[d].conv = "succeeded" THEN rec[d].conv ELSE "converting",
                             ![d].token = w, ![d].lease = RecordLease]
      BY <1>1, <1>d, <2>2 DEF ClaimRecord
    <3>3. /\ rec'[d].src = rec[d].src /\ \A e \in Documents : e # d => rec'[e] = rec[e]
      BY <1>0, <3>2 DEF RecordType
    <3>4. rec[d].conv # "failed" /\ rec[d].del = "present"
      BY <3>1 DEF Recoverable, Unconverted
    <3> QED BY <1>a, <3>3, <3>4
  <2> QED BY <2>1, <2>2
<1>2. CASE CompleteConversion(w)
  <2>1. CASE ~Holds(w, d, "converting")
    BY <1>2, <1>d, <2>1, RestingFinal DEF CompleteConversion
  <2>2. CASE Holds(w, d, "converting")
    <3>1. rec' = [rec EXCEPT ![d].conv = "succeeded", ![d].src = "saving", ![d].stage = "none"]
      BY <1>2, <1>d, <2>2 DEF CompleteConversion
    <3>2. \A e \in Documents : e # d => rec'[e] = rec[e]
      BY <1>0, <3>1
    <3>3. rec[d].conv = "converting" /\ rec[d].del = "present" /\ rec[d].src = "not_started"
      BY <1>0, <2>2 DEF Holds, RecInv
    <3> QED BY <1>a, <3>2, <3>3
  <2> QED BY <2>1, <2>2
<1>3. CASE FailConversion(w)
  <2>1. CASE ~Holds(w, d, "converting")
    BY <1>3, <1>d, <2>1, RestingFinal DEF FailConversion
  <2>2. CASE Holds(w, d, "converting")
    <3>1. \E r : rec' = [rec EXCEPT ![d] = r]
      BY <1>3, <1>d, <2>2 DEF FailConversion, CountFailure
    <3>2. \A e \in Documents : e # d => rec'[e] = rec[e]
      BY <1>0, <3>1
    <3>3. rec[d].conv = "converting" /\ rec[d].del = "present" /\ rec[d].src = "not_started"
      BY <1>0, <2>2 DEF Holds, RecInv
    <3> QED BY <1>a, <3>2, <3>3
  <2> QED BY <2>1, <2>2
<1>4. ASSUME NEW assoc \in {"none", "pending"}, SetSourceOutcome(w, assoc)
      PROVE  \A e \in Documents : Final(e)
  <2>1. CASE ~Holds(w, d, "succeeded")
    BY <1>4, <1>d, <2>1, RestingFinal DEF SetSourceOutcome
  <2>2. CASE Holds(w, d, "succeeded")
    <3>1. \E r : rec' = [rec EXCEPT ![d] = r]
      <4>1. \A r : (r = rec[d] => rec = [rec EXCEPT ![d] = r])
        BY <1>0
      <4> QED BY <1>4, <1>d, <4>1 DEF SetSourceOutcome
    <3>2. \A e \in Documents : e # d => rec'[e] = rec[e]
      BY <1>0, <3>1
    <3>3. /\ rec[d].conv = "succeeded" /\ rec[d].del = "present"
          /\ rec[d].src \notin {"saved", "failed"}
      BY <1>0, <2>2 DEF Holds, RecInv
    <3> QED BY <1>a, <3>2, <3>3
  <2> QED BY <2>1, <2>2
<1>5. \/ \E landed, ok \in BOOLEAN : PrepareSource(w, landed, ok) \/ WriteRaw(w, landed, ok)
                                     \/ ConfirmSource(w, landed, ok)
      \/ \E fails \in BOOLEAN : ReconcileSource(w, fails)
      \/ WorkerEnds(w)
      => UNCHANGED rec
  BY DEF PrepareSource, WriteRaw, ConfirmSource, ReconcileSource, WorkerEnds
<1> QED BY <1>1, <1>2, <1>3, <1>4, <1>5, RestingFinal DEF WorkerNext

LEMMA DocumentsFinal ==
    ASSUME NEW d \in Documents, DocumentNext(d), IndInv
    PROVE  \A e \in Documents : Final(e)
<1>0. rec \in [Documents -> RecordType] /\ rec[d] \in RecordType
  BY DEF IndInv, TypeOK
<1>1. CASE Delete(d)
  <2>1. rec' = [rec EXCEPT ![d].del = "deleting", ![d].token = NoOne] /\ rec[d].del # "complete"
    BY <1>1 DEF Delete
  <2> QED BY <1>0, <2>1 DEF Final, RecordType
<1>2. CASE ExhaustWork(d)
  BY <1>2, FailDispatchFinal DEF ExhaustWork
<1>3. CASE AssociateByPipeline(d)
  BY <1>3, MinorFinal DEF AssociateByPipeline
<1>4. JournalReconciles(d) \/ ReserveIntent(d) => UNCHANGED rec
  BY DEF JournalReconciles, ReserveIntent
<1> QED BY <1>1, <1>2, <1>3, <1>4, RestingFinal DEF DocumentNext

LEMMA TickFinal == IndInv /\ Tick => \A e \in Documents : Final(e)
<1> SUFFICES ASSUME IndInv, Tick, NEW e \in Documents PROVE Final(e)
  OBVIOUS
<1>1. rec[e] \in RecordType /\ RecInv(e)
  BY DEF IndInv, TypeOK
<1>2. rec'[e] = [rec[e] EXCEPT !.lease = Less(rec[e].lease)]
  BY DEF Tick
<1>3. rec[e].del = "complete" => rec[e].lease = 0
  BY <1>1 DEF RecInv
<1>4. rec[e].lease = 0 => rec'[e] = rec[e]
  BY <1>1, <1>2 DEF Less, RecordType
<1> QED BY <1>1, <1>2, <1>3, <1>4 DEF Final, RecordType

\* An outcome is final: no late worker, dispatcher or request changes what a
\* record was told in the end (the comparisons of the record's lease and state
\* in each transaction of documentimport/firestore.go).
THEOREM OutcomesAreFinal == Spec => OutcomeStays
<1>1. IndInv /\ [Next]_vars => [\A d \in Documents : Final(d)]_vars
  BY RequestsFinal, DispatchersFinal, WorkersFinal, DocumentsFinal, TickFinal DEF Next
<1>2. [\A d \in Documents : Final(d)]_vars <=>
        [\A d \in Documents :
           /\ rec[d].conv = "failed" => (rec'[d].conv = "failed" /\ rec'[d].seq = rec[d].seq)
           /\ rec[d].src \in {"saved", "failed"} => rec'[d].src = rec[d].src
           /\ rec[d].del = "complete" => rec'[d] = rec[d]]_vars
  BY DEF Final
<1> QED BY <1>1, <1>2, Invariance, PTL DEF Spec, OutcomeStays

-----------------------------------------------------------------------------
(* The life of a document, as DocumentLife tells it.                       *)

Busy(d) == {w \in Workers : run[w].pc = "convert" /\ run[w].doc = d}

\* What a step changes of a document's life, part by part.
PhaseKept(d)   == PhaseOf(rec'[d]) = PhaseOf(rec[d])
SourceKept(d)  == event'[d].state = "committed" <=> event[d].state = "committed"
RemovedKept(d) == rec'[d].del = "complete" <=> rec[d].del = "complete"
BusyKept(d)    == Busy(d)' = Busy(d)

RecordKept(d) == PhaseKept(d) /\ RemovedKept(d)

LEMMA Phases ==
    ASSUME NEW r
    PROVE  /\ r.conv \in {"none", "receiving"} => PhaseOf(r) = "new"
           /\ r.conv \in Unconverted => PhaseOf(r) = "accepted"
           /\ r.conv = "failed" => PhaseOf(r) = "failed"
           /\ r.conv = "succeeded" =>
                /\ r.src = "saved" => PhaseOf(r) = "saved"
                /\ r.src = "failed" => PhaseOf(r) = "unsaved"
                /\ r.src \notin {"saved", "failed"} => PhaseOf(r) = "converted"
BY DEF PhaseOf, Unconverted

LEMMA SameResult ==
    ASSUME NEW r, NEW s, r.conv = s.conv, r.src = s.src
    PROVE  PhaseOf(r) = PhaseOf(s)
BY DEF PhaseOf

\* A step that moves nobody's life.
LEMMA LifeRests ==
    ASSUME \A e \in Documents : RecordKept(e) /\ SourceKept(e) /\ BusyKept(e),
           UNCHANGED counters
    PROVE  UNCHANGED Life!lifeVars
BY DEF Life!lifeVars, RecordKept, PhaseKept, SourceKept, RemovedKept, BusyKept, Busy, counters

\* A step that moves one document from one phase to the next.
LEMMA PhaseMoves ==
    ASSUME NEW d \in Documents, NEW p, PhaseOf(rec'[d]) = p,
           \A e \in Documents : e # d => PhaseKept(e)
    PROVE  [e \in Documents |-> PhaseOf(rec[e])]'
             = [[e \in Documents |-> PhaseOf(rec[e])] EXCEPT ![d] = p]
BY DEF PhaseKept

LEMMA OthersKept ==
    ASSUME NEW d, \A e \in Documents : e # d => rec'[e] = rec[e]
    PROVE  \A e \in Documents : e # d => RecordKept(e)
BY DEF RecordKept, PhaseKept, RemovedKept

LEMMA MinorKept == \A e \in Documents : Minor(e) => RecordKept(e)
BY SameResult DEF Minor, RecordKept, PhaseKept, RemovedKept

LEMMA RunRests == UNCHANGED run => \A e \in Documents : BusyKept(e)
BY DEF BusyKept, Busy

LEMMA EventRests == UNCHANGED event => \A e \in Documents : SourceKept(e)
BY DEF SourceKept

LEMMA RecRests == UNCHANGED rec => \A e \in Documents : RecordKept(e)
BY DEF RecordKept, PhaseKept, RemovedKept

\* A worker that neither converted nor begins to.
LEMMA ElsewhereBusy ==
    ASSUME NEW w \in Workers, run[w].pc # "convert", run'[w].pc # "convert",
           \A v \in Workers : v # w => run'[v] = run[v]
    PROVE  \A e \in Documents : BusyKept(e)
BY DEF BusyKept, Busy

LEMMA LaunchRests ==
    ASSUME TypeOK, NEW d \in Documents, NEW launched \in BOOLEAN, Launch(d, launched)
    PROVE  \A e \in Documents : BusyKept(e)
<1>1. CASE launched
  <2>1. PICK w \in Workers :
          /\ run[w].pc = "idle"
          /\ run' = [run EXCEPT ![w] = [doc |-> d, timer |-> 0, pc |-> "launched"]]
    BY <1>1 DEF Launch
  <2> QED BY <2>1, ElsewhereBusy DEF TypeOK
<1>2. CASE ~launched
  BY <1>2, RunRests DEF Launch
<1> QED BY <1>1, <1>2

\* Nothing is counted of a document that is not failed, and at least itself of one
\* that is.
LEMMA CountedOne ==
    ASSUME IndInv, NEW d \in Documents, FailedCounted(rec[d])
    PROVE  failed > 0
<1> DEFINE F == {e \in Documents : FailedCounted(rec[e])}
<1>1. IsFiniteSet(F) /\ d \in F
  BY FS_Subset
<1>2. Cardinality(F) \in Nat /\ Cardinality(F) # 0
  BY <1>1, FS_CardinalityType, FS_EmptySet
<1> QED BY <1>2 DEF IndInv, FailuresCounted

LEMMA FailDispatchLives ==
    ASSUME IndInv, NEW d \in Documents, FailDispatch(d), UNCHANGED <<run, event>>
    PROVE  Life!LifeNext \/ UNCHANGED Life!lifeVars
<1>0. rec[d] \in RecordType /\ rec \in [Documents -> RecordType]
  BY DEF IndInv, TypeOK
<1> DEFINE r == [Unleased(rec[d]) EXCEPT !.started = FALSE]
<1>r. /\ r \in RecordType /\ r.conv = rec[d].conv /\ r.src = rec[d].src /\ r.del = rec[d].del
  BY <1>0 DEF RecordType, Unleased
<1> HIDE DEF r
<1>k. \A e \in Documents : SourceKept(e) /\ BusyKept(e)
  BY RunRests, EventRests
<1>1. CASE rec[d].del # "deleting" /\ Recoverable(rec[d]) /\ rec[d].conv \in Unconverted
  <2>1. CountFailure(d, r, "dispatch")
    BY <1>1, <1>r DEF FailDispatch, r
  <2>2. /\ rec'[d].conv = "failed" /\ rec'[d].del = rec[d].del
        /\ \A e \in Documents : e # d => rec'[e] = rec[e]
    BY <1>0, <1>r, <2>1 DEF CountFailure, RecordType, Unleased
  <2>3. PhaseOf(rec[d]) = "accepted" /\ PhaseOf(rec'[d]) = "failed"
    BY <1>1, <2>2, Phases
  <2>4. \A e \in Documents : RemovedKept(e) /\ (e # d => PhaseKept(e))
    BY <2>2, OthersKept DEF RecordKept, RemovedKept
  <2>5. failed' = failed + 1 /\ latest' = latest + 1
    BY <2>1 DEF CountFailure
  <2>6. Life!Fail(d)
    BY <1>k, <2>3, <2>4, <2>5, PhaseMoves
    DEF Life!Fail, Life!Enters, SourceKept, RemovedKept, BusyKept, Busy
  <2> QED BY <2>6 DEF Life!LifeNext
<1>2. CASE ~(rec[d].del # "deleting" /\ Recoverable(rec[d]) /\ rec[d].conv \in Unconverted)
  <2>1. /\ UNCHANGED counters
        /\ \/ rec' = rec
           \/ rec[d].del = "deleting" /\ rec' = [rec EXCEPT ![d] = [r EXCEPT !.del = "failed"]]
           \/ /\ Recoverable(rec[d]) /\ rec[d].conv \notin Unconverted
              /\ rec' = [rec EXCEPT ![d] = [r EXCEPT !.src = "unknown", !.stage = "source_save"]]
           \/ rec' = [rec EXCEPT ![d] = [r EXCEPT !.stage = "none"]]
    BY <1>2, <1>r DEF FailDispatch, r
  <2>2. \A e \in Documents : e # d => RecordKept(e)
    BY <1>0, <2>1, OthersKept
  <2>3. RecordKept(d)
    <3>1. CASE Recoverable(rec[d]) /\ rec[d].conv \notin Unconverted
               /\ rec' = [rec EXCEPT ![d] = [r EXCEPT !.src = "unknown", !.stage = "source_save"]]
      <4>1. /\ rec'[d].conv = "succeeded" /\ rec'[d].src = "unknown" /\ rec'[d].del = rec[d].del
            /\ rec[d].conv = "succeeded" /\ rec[d].src \notin {"saved", "failed"}
        BY <1>0, <1>r, <3>1 DEF Recoverable, RecordType
      <4> QED BY <4>1, Phases DEF RecordKept, PhaseKept, RemovedKept
    <3>2. CASE rec' = rec
      BY <3>2, RecRests
    <3>3. CASE rec[d].del = "deleting" /\ rec' = [rec EXCEPT ![d] = [r EXCEPT !.del = "failed"]]
      <4>1. rec'[d].conv = rec[d].conv /\ rec'[d].src = rec[d].src /\ rec'[d].del = "failed"
        BY <1>0, <1>r, <3>3 DEF RecordType
      <4> QED BY <3>3, <4>1, SameResult DEF RecordKept, PhaseKept, RemovedKept
    <3>4. CASE rec' = [rec EXCEPT ![d] = [r EXCEPT !.stage = "none"]]
      <4>1. rec'[d].conv = rec[d].conv /\ rec'[d].src = rec[d].src /\ rec'[d].del = rec[d].del
        BY <1>0, <1>r, <3>4 DEF RecordType
      <4> QED BY <4>1, SameResult DEF RecordKept, PhaseKept, RemovedKept
    <3> QED BY <2>1, <3>1, <3>2, <3>3, <3>4
  <2> QED BY <1>k, <2>1, <2>2, <2>3, LifeRests
<1> QED BY <1>1, <1>2

\* Only its acceptance is a request's part in a document's life.
LEMMA RequestsLive ==
    ASSUME IndInv, NEW q \in Requests, RequestNext(q)
    PROVE  Life!LifeNext \/ UNCHANGED Life!lifeVars
<1>d. PICK d \in Documents : d = req[q].doc
  BY DEF IndInv, TypeOK, RequestType
<1>0. TypeOK /\ rec \in [Documents -> RecordType] /\ \A e \in Documents : rec[e] \in RecordType
  BY DEF IndInv, TypeOK
<1>1. ASSUME NEW e \in Documents, Submit(q, e) PROVE UNCHANGED Life!lifeVars
  <2>1. \/ rec' = rec
        \/ rec[e].conv = "none" /\ rec' = [rec EXCEPT ![e].conv = "receiving"]
    BY <1>1 DEF Submit
  <2>2. RecordKept(e)
    <3>1. CASE rec' = rec
      BY <3>1, RecRests
    <3>2. CASE rec[e].conv = "none" /\ rec' = [rec EXCEPT ![e].conv = "receiving"]
      <4>1. rec'[e].conv = "receiving" /\ rec'[e].del = rec[e].del
        BY <1>0, <3>2 DEF RecordType
      <4> QED BY <3>2, <4>1, Phases DEF RecordKept, PhaseKept, RemovedKept
    <3> QED BY <2>1, <3>1, <3>2
  <2>3. \A f \in Documents : f # e => RecordKept(f)
    BY <1>0, <2>1, OthersKept
  <2> QED BY <1>1, <2>2, <2>3, RunRests, EventRests, LifeRests DEF Submit, objects
<1>2. CASE Accept(q)
  <2>0. UNCHANGED <<counters, run, event>>
    BY <1>2 DEF Accept, objects
  <2>1. CASE rec' = rec
    BY <2>0, <2>1, RecRests, RunRests, EventRests, LifeRests
  <2>2. CASE rec[d].conv = "receiving" /\ rec' = [rec EXCEPT ![d].conv = "accepted"]
    <3>1. /\ rec'[d].conv = "accepted" /\ rec'[d].del = rec[d].del
          /\ \A e \in Documents : e # d => rec'[e] = rec[e]
      BY <1>0, <2>2 DEF RecordType
    <3>2. PhaseOf(rec[d]) = "new" /\ PhaseOf(rec'[d]) = "accepted"
      BY <2>2, <3>1, Phases DEF Unconverted
    <3>3. \A e \in Documents : RemovedKept(e) /\ (e # d => PhaseKept(e))
      BY <3>1, OthersKept DEF RecordKept, RemovedKept
    <3>4. Life!Accept(d)
      BY <2>0, <3>2, <3>3, PhaseMoves DEF Life!Accept, Life!Enters, RemovedKept, counters
    <3> QED BY <3>4 DEF Life!LifeNext
  <2> QED BY <1>2, <1>d, <2>1, <2>2 DEF Accept
<1>3. CASE RequestMark(q)
  <2>1. Marked(d, TRUE) \/ Marked(d, FALSE)
    BY <1>3, <1>d DEF RequestMark
  <2>2. \A e \in Documents : RecordKept(e)
    BY <1>0, <2>1, MarkedMinor, MinorKept
  <2> QED BY <1>3, <2>2, RunRests, EventRests, LifeRests DEF RequestMark, objects
<1>4. ASSUME NEW launched \in BOOLEAN, NEW ok \in BOOLEAN, RequestStart(q, launched, ok)
      PROVE  UNCHANGED Life!lifeVars
  BY <1>0, <1>4, <1>d, LaunchRests, RecRests, EventRests, LifeRests DEF RequestStart, objects
<1>5. CASE StoreOriginal(q) \/ RequestEnds(q)
  BY <1>5, RecRests, RunRests, EventRests, LifeRests DEF StoreOriginal, RequestEnds, objects
<1> QED BY <1>1, <1>2, <1>3, <1>4, <1>5 DEF RequestNext

\* A converted document's event is committed, or nothing is.
LEMMA CommittedLives ==
    ASSUME IndInv, NEW d \in Documents, Committed(d), rec[d].conv = "succeeded",
           UNCHANGED <<rec, counters>>, \A e \in Documents : BusyKept(e)
    PROVE  Life!LifeNext \/ UNCHANGED Life!lifeVars
<1>0. /\ event \in [Documents -> EventType] /\ event[d] \in EventType /\ RecInv(d)
      /\ \A e \in Documents : RecordKept(e)
  BY RecRests DEF IndInv, TypeOK
<1>1. CASE event' = event
  BY <1>0, <1>1, EventRests, LifeRests
<1>2. CASE event[d].state = "prepared" /\ event' = [event EXCEPT ![d].state = "committed"]
  <2>1. {e \in Documents : event[e].state = "committed"}'
          = {e \in Documents : event[e].state = "committed"} \cup {d}
    BY <1>0, <1>2 DEF EventType
  <2>2. PhaseOf(rec[d]) \in {"converted", "unsaved"}
    BY <1>0, <1>2, Phases DEF RecInv
  <2>3. Life!Commit(d)
    BY <1>0, <2>1, <2>2
    DEF Life!Commit, RecordKept, PhaseKept, RemovedKept, BusyKept, Busy, counters
  <2> QED BY <2>3 DEF Life!LifeNext
<1> QED BY <1>1, <1>2 DEF Committed

LEMMA ReconciledLives ==
    ASSUME IndInv, NEW d \in Documents, Reconciled(d),
           UNCHANGED <<rec, counters>>, \A e \in Documents : BusyKept(e)
    PROVE  Life!LifeNext \/ UNCHANGED Life!lifeVars
<1>0. /\ event \in [Documents -> EventType] /\ event[d] \in EventType
      /\ RecInv(d) /\ \A e \in Documents : RecordKept(e)
  BY RecRests DEF IndInv, TypeOK
<1>1. CASE raw[d]
  <2>1. rec[d].conv = "succeeded"
    BY <1>0, <1>1 DEF RecInv
  <2> QED BY <1>1, <2>1, CommittedLives DEF Reconciled
<1>2. CASE ~raw[d]
  <2>1. \/ event' = event
        \/ event[d].state = "prepared" /\ event' = [event EXCEPT ![d].state = "aborted"]
    BY <1>2 DEF Reconciled
  <2>2. \A e \in Documents : SourceKept(e)
    BY <1>0, <2>1 DEF SourceKept, EventType
  <2> QED BY <1>0, <2>2, LifeRests
<1> QED BY <1>1, <1>2

\* A dispatcher completes removals, and gives documents up.
LEMMA DispatchersLive ==
    ASSUME IndInv, NEW k \in Dispatchers, DispatchNext(k)
    PROVE  Life!LifeNext \/ UNCHANGED Life!lifeVars
<1>d. PICK d \in Documents : d = disp[k].doc
  BY DEF IndInv, TypeOK, DispatcherType
<1>0. /\ TypeOK /\ rec \in [Documents -> RecordType]
      /\ \A e \in Documents : rec[e] \in RecordType /\ RecInv(e)
  BY DEF IndInv, TypeOK
<1>1. ASSUME NEW launched \in BOOLEAN, NEW ok \in BOOLEAN, StartJob(k, launched, ok)
      PROVE  UNCHANGED Life!lifeVars
  BY <1>0, <1>1, <1>d, LaunchRests, RecRests, EventRests, LifeRests DEF StartJob, objects
<1>2. ASSUME NEW fails \in BOOLEAN, MarkJob(k, fails) \/ Associate(k, fails)
      PROVE  UNCHANGED Life!lifeVars
  <2>1. rec' = rec \/ Marked(d, TRUE) \/ Marked(d, FALSE) \/ Associated(d)
    BY <1>2, <1>d DEF MarkJob, Associate
  <2>2. \A e \in Documents : RecordKept(e)
    BY <1>0, <2>1, RecRests, MarkedMinor, AssociatedMinor, MinorKept
  <2> QED BY <1>2, <2>2, RunRests, EventRests, LifeRests DEF MarkJob, Associate, objects
<1>3. CASE FinishDeletion(k)
  <2> DEFINE r == [rec[d] EXCEPT !.del = IF disp[k].pc = "cleaned" THEN "complete" ELSE "failed"]
  <2>1. /\ UNCHANGED <<run, event, latest>>
        /\ IF rec[d].del \in {"deleting", "failed"}
           THEN /\ rec' = [rec EXCEPT ![d] = r]
                /\ failed' = IF disp[k].pc = "cleaned" /\ FailedCounted(rec[d]) /\ failed > 0
                             THEN failed - 1 ELSE failed
           ELSE rec' = rec /\ failed' = failed
    BY <1>3, <1>d, <1>0 DEF FinishDeletion, objects
  <2>k. \A e \in Documents : SourceKept(e) /\ BusyKept(e)
    BY <2>1, RunRests, EventRests
  <2>2. CASE rec[d].del \notin {"deleting", "failed"}
    BY <2>1, <2>2, <2>k, RecRests, LifeRests DEF counters
  <2>3. CASE rec[d].del \in {"deleting", "failed"}
    <3>1. /\ rec'[d].conv = rec[d].conv /\ rec'[d].src = rec[d].src
          /\ rec'[d].del = IF disp[k].pc = "cleaned" THEN "complete" ELSE "failed"
          /\ \A e \in Documents : e # d => rec'[e] = rec[e]
      BY <1>0, <2>1, <2>3 DEF RecordType
    <3>2. \A e \in Documents : PhaseKept(e) /\ (e # d => RemovedKept(e))
      BY <3>1, SameResult, OthersKept DEF RecordKept, PhaseKept
    <3>3. CASE disp[k].pc # "cleaned"
      <4>1. RecordKept(d)
        BY <2>3, <3>1, <3>2, <3>3 DEF RecordKept, RemovedKept
      <4> QED BY <2>1, <2>3, <2>k, <3>2, <3>3, <4>1, LifeRests DEF RecordKept, counters
    <3>4. CASE disp[k].pc = "cleaned"
      <4>1. RecInv(d) /\ rec[d].conv \in {"none", "receiving", "failed", "succeeded"} \cup Unconverted
        BY <1>0 DEF RecordType
      <4>2. rec[d].conv = "failed" \/ (rec[d].conv = "succeeded" /\ rec[d].src = "failed")
        BY <2>3, <4>1 DEF RecInv
      <4>3. /\ PhaseOf(rec[d]) \in {"failed", "unsaved"}
            /\ PhaseOf(rec[d]) = "failed" <=> rec[d].conv = "failed"
        BY <4>2, Phases
      <4>4. failed' = IF PhaseOf(rec[d]) = "failed" THEN failed - 1 ELSE failed
        BY <2>1, <2>3, <3>4, <4>3, CountedOne DEF FailedCounted
      <4>5. {e \in Documents : rec[e].del = "complete"}'
              = {e \in Documents : rec[e].del = "complete"} \cup {d}
        BY <3>1, <3>2, <3>4 DEF RemovedKept
      <4>6. d \notin {e \in Documents : rec[e].del = "complete"}
        BY <2>3
      <4>7. Life!Remove(d)
        BY <2>1, <2>k, <3>2, <4>3, <4>4, <4>5, <4>6
        DEF Life!Remove, PhaseKept, SourceKept, BusyKept, Busy
      <4> QED BY <4>7 DEF Life!LifeNext
    <3> QED BY <3>3, <3>4
  <2> QED BY <2>2, <2>3
<1>4. CASE Finish(k)
  <2>1. UNCHANGED <<run, event>> /\ (UNCHANGED <<rec, counters>> \/ FailDispatch(d))
    BY <1>4, <1>d DEF Finish, objects
  <2> QED BY <2>1, FailDispatchLives, RecRests, RunRests, EventRests, LifeRests
<1>5. /\ \A e \in Documents : ClaimWork(k, e) => UNCHANGED <<rec, counters, run, event>>
      /\ \A fails \in BOOLEAN :
           /\ ReadRecord(k, fails) => UNCHANGED <<rec, counters, run, event>>
           /\ Cleanup(k, fails) => UNCHANGED <<rec, counters, run, event>>
      /\ DispatcherEnds(k) => UNCHANGED <<rec, counters, run, event>>
  <2>1. \A e \in Documents : ClaimWork(k, e) => UNCHANGED <<rec, counters, run, event>>
    BY DEF ClaimWork, objects
  <2>2. \A fails \in BOOLEAN : ReadRecord(k, fails) => UNCHANGED <<rec, counters, run, event>>
    BY DEF ReadRecord, objects
  <2>3. \A fails \in BOOLEAN : Cleanup(k, fails) => UNCHANGED <<rec, counters, run, event>>
    BY DEF Cleanup
  <2>4. DispatcherEnds(k) => UNCHANGED <<rec, counters, run, event>>
    BY DEF DispatcherEnds, objects
  <2> QED BY <2>1, <2>2, <2>3, <2>4
<1>6. UNCHANGED <<rec, counters, run, event>> => UNCHANGED Life!lifeVars
  BY RecRests, RunRests, EventRests, LifeRests
<1> QED BY <1>1, <1>2, <1>3, <1>4, <1>5, <1>6 DEF DispatchNext

\* Deletions that are asked for, work that is given up and the journal's queue.
LEMMA DocumentsLive ==
    ASSUME IndInv, NEW d \in Documents, DocumentNext(d)
    PROVE  Life!LifeNext \/ UNCHANGED Life!lifeVars
<1>0. /\ TypeOK /\ rec \in [Documents -> RecordType] /\ rec[d] \in RecordType /\ RecInv(d)
  BY DEF IndInv, TypeOK
<1>1. CASE Delete(d)
  <2>1. /\ rec' = [rec EXCEPT ![d].del = "deleting", ![d].token = NoOne]
        /\ rec[d].del # "complete" /\ UNCHANGED <<counters, run, event>>
    BY <1>1 DEF Delete, objects
  <2>2. /\ rec'[d].conv = rec[d].conv /\ rec'[d].src = rec[d].src /\ rec'[d].del = "deleting"
        /\ \A e \in Documents : e # d => rec'[e] = rec[e]
    BY <1>0, <2>1 DEF RecordType
  <2>3. RecordKept(d)
    BY <2>1, <2>2, SameResult DEF RecordKept, PhaseKept, RemovedKept
  <2>4. \A e \in Documents : RecordKept(e)
    BY <2>2, <2>3, OthersKept
  <2> QED BY <2>1, <2>4, RunRests, EventRests, LifeRests
<1>2. CASE ExhaustWork(d)
  BY <1>2, FailDispatchLives DEF ExhaustWork, objects
<1>3. CASE JournalReconciles(d)
  <2>1. Reconciled(d) /\ UNCHANGED <<rec, counters, raw, run>>
    BY <1>3 DEF JournalReconciles
  <2> QED BY <1>0, <2>1, ReconciledLives, RunRests
<1>4. CASE ReserveIntent(d)
  BY <1>4, RecRests, RunRests, EventRests, LifeRests DEF ReserveIntent
<1>5. CASE AssociateByPipeline(d)
  <2>1. \A e \in Documents : RecordKept(e)
    BY <1>0, <1>5, AssociatedMinor, MinorKept DEF AssociateByPipeline
  <2> QED BY <1>5, <2>1, RunRests, EventRests, LifeRests DEF AssociateByPipeline, objects
<1> QED BY <1>1, <1>2, <1>3, <1>4, <1>5 DEF DocumentNext

\* A worker that converts is the only one, and leaves the document to nobody.
LEMMA BusyEnds ==
    ASSUME IndInv, NEW w \in Workers, NEW d \in Documents, d = run[w].doc,
           run[w].pc = "convert", Moves(w), run'[w].pc # "convert"
    PROVE  /\ Busy(d) # {} /\ Busy(d)' = {}
           /\ \A e \in Documents : e # d => BusyKept(e)
<1>1. \A v \in Workers : run[v].pc = "convert" /\ run[v].doc = d => v = w
  BY DEF IndInv, OneConversion
<1>2. w \in Busy(d)
  BY DEF Busy
<1>3. Busy(d)' = {}
  BY <1>1 DEF Busy, Moves
<1>4. \A e \in Documents : e # d => BusyKept(e)
  BY DEF BusyKept, Busy, Moves
<1> QED BY <1>2, <1>3, <1>4

LEMMA BusyMoves ==
    ASSUME NEW d \in Documents, NEW B, Busy(d)' = B,
           \A e \in Documents : e # d => BusyKept(e)
    PROVE  [e \in Documents |-> Busy(e)]' = [[e \in Documents |-> Busy(e)] EXCEPT ![d] = B]
BY DEF BusyKept

\* A conversion that ends without a word.
LEMMA StopsOne ==
    ASSUME NEW d \in Documents, Busy(d)' = {}, \A e \in Documents : e # d => BusyKept(e),
           \A e \in Documents : RecordKept(e) /\ SourceKept(e), UNCHANGED counters
    PROVE  Life!LifeNext
<1>1. [e \in Documents |-> Busy(e)]'
        = [e \in Documents |-> IF e \in {d} THEN {} ELSE [f \in Documents |-> Busy(f)][e]]
  BY DEF BusyKept
<1>2. Life!Stop({d})
  BY <1>1 DEF Life!Stop, RecordKept, PhaseKept, RemovedKept, SourceKept, Busy, counters
<1> QED BY <1>2 DEF Life!LifeNext

LEMMA ClaimLives ==
    ASSUME IndInv, NEW w \in Workers, ClaimRecord(w)
    PROVE  Life!LifeNext \/ UNCHANGED Life!lifeVars
<1>d. PICK d \in Documents : d = run[w].doc
  BY DEF IndInv, TypeOK, RunType
<1>0. /\ TypeOK /\ rec \in [Documents -> RecordType] /\ rec[d] \in RecordType /\ RecInv(d)
      /\ run \in [Workers -> RunType] /\ run[w] \in RunType /\ run[w].pc = "launched"
      /\ UNCHANGED <<counters, event>>
  BY DEF IndInv, TypeOK, ClaimRecord, objects
<1>k. \A e \in Documents : SourceKept(e)
  BY <1>0, EventRests
<1>1. CASE ~(Recoverable(rec[d]) /\ rec[d].lease = 0)
  <2>1. Go(w, "idle") /\ UNCHANGED rec
    BY <1>1, <1>d DEF ClaimRecord
  <2>2. Moves(w) /\ run'[w].pc = "idle"
    BY <1>0, <2>1, GoMoves
  <2>3. \A e \in Documents : BusyKept(e)
    BY <1>0, <2>2, ElsewhereBusy DEF Moves
  <2> QED BY <1>0, <1>k, <2>1, <2>3, RecRests, LifeRests
<1>2. CASE Recoverable(rec[d]) /\ rec[d].lease = 0
  <2> DEFINE conv == IF rec[d].conv = "succeeded" THEN "succeeded" ELSE "converting"
             pc   == IF rec[d].conv = "succeeded" THEN "save" ELSE "convert"
  <2>1. /\ rec' = [rec EXCEPT ![d].conv = IF @ = "succeeded" THEN @ ELSE "converting",
                              ![d].token = w, ![d].lease = RecordLease]
        /\ run' = [run EXCEPT ![w].timer = RecordLease,
                     ![w].pc = IF rec[d].conv = "succeeded" THEN "save" ELSE "convert"]
    BY <1>2, <1>d DEF ClaimRecord
  <2>2. /\ rec'[d].conv = conv /\ rec'[d].src = rec[d].src /\ rec'[d].del = rec[d].del
        /\ \A e \in Documents : e # d => rec'[e] = rec[e]
    BY <1>0, <2>1 DEF RecordType
  <2>3. run'[w].pc = pc /\ run'[w].doc = d /\ \A v \in Workers : v # w => run'[v] = run[v]
    BY <1>0, <1>d, <2>1 DEF RunType
  <2>4. \A e \in Documents : e # d => RecordKept(e)
    BY <2>2, OthersKept
  <2>5. CASE rec[d].conv = "succeeded"
    <3>1. RecordKept(d)
      BY <2>2, <2>5, SameResult DEF RecordKept, PhaseKept, RemovedKept
    <3>2. \A e \in Documents : BusyKept(e)
      BY <1>0, <2>3, <2>5, ElsewhereBusy
    <3> QED BY <1>0, <1>k, <2>4, <3>1, <3>2, LifeRests
  <2>6. CASE rec[d].conv # "succeeded"
    <3>1. rec[d].conv \in Unconverted
      BY <1>2, <2>6 DEF Recoverable
    <3>2. PhaseOf(rec[d]) = "accepted" /\ PhaseOf(rec'[d]) = "accepted"
      BY <2>2, <2>6, <3>1, Phases DEF Unconverted
    <3>3. RecordKept(d)
      BY <2>2, <3>2 DEF RecordKept, PhaseKept, RemovedKept
    <3>4. Busy(d) = {}
      <4>1. ASSUME NEW v \in Workers, run[v].pc = "convert", run[v].doc = d PROVE FALSE
        <5>1. RunInv(v) /\ run[v].timer \in Nat
          BY <1>0 DEF IndInv, RunType
        <5> QED BY <1>2, <3>1, <4>1, <5>1 DEF RunInv, Unconverted
      <4> QED BY <4>1 DEF Busy
    <3>5. Busy(d)' = {w}
      BY <2>3, <2>6, <3>4 DEF Busy
    <3>6. \A e \in Documents : e # d => BusyKept(e)
      BY <1>0, <1>d, <2>3 DEF BusyKept, Busy
    <3>7. [e \in Documents |-> Busy(e)]' = [[e \in Documents |-> Busy(e)] EXCEPT ![d] = {w}]
      BY <3>5, <3>6, BusyMoves
    <3>8. Life!Convert(d, w)
      BY <1>0, <1>k, <2>4, <3>2, <3>3, <3>4, <3>7
      DEF Life!Convert, RecordKept, PhaseKept, RemovedKept, SourceKept, Busy, counters
    <3> QED BY <3>8 DEF Life!LifeNext
  <2> QED BY <2>5, <2>6
<1> QED BY <1>1, <1>2

LEMMA ConversionLives ==
    ASSUME IndInv, NEW w \in Workers, CompleteConversion(w) \/ FailConversion(w)
    PROVE  Life!LifeNext \/ UNCHANGED Life!lifeVars
<1>d. PICK d \in Documents : d = run[w].doc
  BY DEF IndInv, TypeOK, RunType
<1>0. /\ TypeOK /\ rec \in [Documents -> RecordType] /\ rec[d] \in RecordType /\ RecInv(d)
      /\ run[w].pc = "convert" /\ UNCHANGED event
  BY DEF IndInv, TypeOK, CompleteConversion, FailConversion, objects
<1>1. \E pc \in {"idle", "save"} : Go(w, pc)
  BY DEF CompleteConversion, FailConversion
<1>2. Moves(w) /\ run'[w].pc # "convert"
  BY <1>0, <1>1, GoMoves
<1>3. /\ Busy(d) # {} /\ Busy(d)' = {} /\ \A e \in Documents : e # d => BusyKept(e)
      /\ \A e \in Documents : SourceKept(e)
  BY <1>0, <1>2, <1>d, BusyEnds, EventRests
<1>4. [e \in Documents |-> Busy(e)]' = [[e \in Documents |-> Busy(e)] EXCEPT ![d] = {}]
  BY <1>3, BusyMoves
<1>5. CASE ~Holds(w, d, "converting")
  <2>1. UNCHANGED <<rec, counters>>
    BY <1>5, <1>d DEF CompleteConversion, FailConversion
  <2> QED BY <1>3, <2>1, RecRests, StopsOne
<1>6. CASE Holds(w, d, "converting") /\ CompleteConversion(w)
  <2>1. /\ rec' = [rec EXCEPT ![d].conv = "succeeded", ![d].src = "saving", ![d].stage = "none"]
        /\ UNCHANGED counters
    BY <1>6, <1>d DEF CompleteConversion
  <2>2. /\ rec'[d].conv = "succeeded" /\ rec'[d].src = "saving" /\ rec'[d].del = rec[d].del
        /\ \A e \in Documents : e # d => rec'[e] = rec[e]
    BY <1>0, <2>1 DEF RecordType
  <2>3. PhaseOf(rec[d]) = "accepted" /\ PhaseOf(rec'[d]) = "converted"
    BY <1>6, <2>2, Phases DEF Holds, Unconverted
  <2>4. \A e \in Documents : RemovedKept(e) /\ (e # d => PhaseKept(e))
    BY <2>2, OthersKept DEF RecordKept, RemovedKept
  <2>5. [e \in Documents |-> PhaseOf(rec[e])]'
          = [[e \in Documents |-> PhaseOf(rec[e])] EXCEPT ![d] = "converted"]
    BY <2>3, <2>4, PhaseMoves
  <2>6. /\ {e \in Documents : event[e].state = "committed"}'
             = {e \in Documents : event[e].state = "committed"}
        /\ {e \in Documents : rec[e].del = "complete"}'
             = {e \in Documents : rec[e].del = "complete"}
    BY <1>3, <2>4 DEF SourceKept, RemovedKept
  <2>7. Life!Converted(d)
    BY <1>3, <1>4, <2>1, <2>3, <2>5, <2>6 DEF Life!Converted, Life!Enters, Busy, counters
  <2> QED BY <2>7 DEF Life!LifeNext
<1>7. CASE Holds(w, d, "converting") /\ FailConversion(w)
  <2>1. CountFailure(d, rec[d], "conversion")
    BY <1>7, <1>d DEF FailConversion
  <2>2. /\ rec'[d].conv = "failed" /\ rec'[d].del = rec[d].del
        /\ \A e \in Documents : e # d => rec'[e] = rec[e]
        /\ failed' = failed + 1 /\ latest' = latest + 1
    BY <1>0, <2>1 DEF CountFailure, RecordType, Unleased
  <2>3. PhaseOf(rec[d]) = "accepted" /\ PhaseOf(rec'[d]) = "failed"
    BY <1>7, <2>2, Phases DEF Holds, Unconverted
  <2>4. \A e \in Documents : RemovedKept(e) /\ (e # d => PhaseKept(e))
    BY <2>2, OthersKept DEF RecordKept, RemovedKept
  <2>5. Life!Fail(d)
    BY <1>3, <1>4, <2>2, <2>3, <2>4, PhaseMoves
    DEF Life!Fail, Life!Enters, RemovedKept, SourceKept, Busy
  <2> QED BY <2>5 DEF Life!LifeNext
<1> QED BY <1>5, <1>6, <1>7

\* What a saving worker reports of a converted document.
LEMMA OutcomeLives ==
    ASSUME IndInv, NEW w \in Workers, NEW assoc \in {"none", "pending"},
           SetSourceOutcome(w, assoc)
    PROVE  Life!LifeNext \/ UNCHANGED Life!lifeVars
<1>d. PICK d \in Documents : d = run[w].doc
  BY DEF IndInv, TypeOK, RunType
<1> DEFINE src == run[w].pc
<1>0. /\ TypeOK /\ rec \in [Documents -> RecordType] /\ rec[d] \in RecordType
      /\ RecInv(d) /\ RunInv(w) /\ src \in {"saved", "failed", "unknown"}
      /\ UNCHANGED <<counters, event>> /\ Go(w, "idle")
  BY DEF IndInv, TypeOK, SetSourceOutcome, objects
<1>1. Moves(w) /\ run'[w].pc = "idle"
  BY <1>0, GoMoves
<1>2. \A e \in Documents : SourceKept(e) /\ BusyKept(e)
  BY <1>0, <1>1, ElsewhereBusy, EventRests DEF Moves
<1>3. CASE rec' = rec
  BY <1>0, <1>2, <1>3, RecRests, LifeRests
<1>4. CASE rec' # rec
  <2>1. Holds(w, d, "succeeded")
    BY <1>4, <1>d DEF SetSourceOutcome
  <2>2. rec' = [rec EXCEPT ![d] = [Unleased(rec[d]) EXCEPT !.src = src,
                 !.stage = IF src = "saved" THEN "none" ELSE "source_save",
                 !.assoc = IF src = "saved" THEN assoc ELSE rec[d].assoc]]
    BY <1>4, <1>d DEF SetSourceOutcome
  <2>3. /\ rec'[d].conv = rec[d].conv /\ rec'[d].src = src /\ rec'[d].del = rec[d].del
        /\ \A e \in Documents : e # d => rec'[e] = rec[e]
    BY <1>0, <2>2 DEF RecordType, Unleased
  <2>4. rec[d].conv = "succeeded" /\ rec[d].src \notin {"saved", "failed"}
    BY <1>0, <2>1 DEF Holds, RecInv
  <2>5. \A e \in Documents : RemovedKept(e) /\ (e # d => RecordKept(e))
    BY <2>3, OthersKept DEF RecordKept, RemovedKept
  <2>6. PhaseOf(rec[d]) = "converted"
    BY <2>4, Phases
  <2>7. CASE src = "unknown"
    <3>1. PhaseOf(rec'[d]) = "converted"
      BY <2>3, <2>4, <2>7, Phases
    <3>2. \A e \in Documents : RecordKept(e)
      BY <2>5, <2>6, <3>1 DEF RecordKept, PhaseKept
    <3> QED BY <1>0, <1>2, <3>2, LifeRests
  <2>8. CASE src \in {"saved", "failed"}
    <3> DEFINE p == IF src = "saved" THEN "saved" ELSE "unsaved"
    <3>1. PhaseOf(rec'[d]) = p
      BY <2>3, <2>4, <2>8, Phases
    <3>2. [e \in Documents |-> PhaseOf(rec[e])]'
            = [[e \in Documents |-> PhaseOf(rec[e])] EXCEPT ![d] = p]
      BY <2>5, <3>1, PhaseMoves DEF RecordKept
    <3>3. src = "saved" => event[d].state = "committed"
      BY <1>0, <1>d DEF RunInv
    <3>4. UNCHANGED [e \in Documents |-> Busy(e)]
      BY <1>2 DEF BusyKept
    <3>5. /\ {e \in Documents : event[e].state = "committed"}'
               = {e \in Documents : event[e].state = "committed"}
          /\ {e \in Documents : rec[e].del = "complete"}'
               = {e \in Documents : rec[e].del = "complete"}
      BY <1>2, <2>5 DEF SourceKept, RemovedKept
    <3>6. Life!Save(d)
      BY <1>0, <2>6, <2>8, <3>2, <3>3, <3>4, <3>5 DEF Life!Save, Life!Enters, Busy, counters
    <3> QED BY <3>6 DEF Life!LifeNext
  <2> QED BY <1>0, <2>7, <2>8
<1> QED BY <1>3, <1>4

LEMMA WorkersLive ==
    ASSUME IndInv, NEW w \in Workers, WorkerNext(w)
    PROVE  Life!LifeNext \/ UNCHANGED Life!lifeVars
<1>d. PICK d \in Documents : d = run[w].doc
  BY DEF IndInv, TypeOK, RunType
<1>0. /\ TypeOK /\ RecInv(d) /\ RunInv(w) /\ event \in [Documents -> EventType]
      /\ event[d] \in EventType
  BY DEF IndInv, TypeOK
<1>s. ASSUME NEW pc \in {"idle", "write", "confirm", "reconcile", "saved", "failed", "unknown"},
             Go(w, pc), run[w].pc # "convert"
      PROVE  \A e \in Documents : BusyKept(e)
  <2>1. Moves(w) /\ run'[w].pc # "convert"
    BY <1>0, <1>s, GoMoves
  <2> QED BY <1>s, <2>1, ElsewhereBusy DEF Moves
<1>1. ASSUME NEW landed \in BOOLEAN, NEW ok \in BOOLEAN, PrepareSource(w, landed, ok)
      PROVE  UNCHANGED Life!lifeVars
  <2>1. /\ UNCHANGED <<rec, counters>> /\ run[w].pc = "save" /\ (Go(w, "write") \/ Go(w, "failed"))
        /\ \/ event' = event
           \/ /\ event[d].state = "none"
              /\ event' = [event EXCEPT ![d] = [state |-> "prepared", grace |-> Grace]]
    BY <1>1, <1>d DEF PrepareSource
  <2>2. \A e \in Documents : SourceKept(e)
    BY <1>0, <2>1 DEF SourceKept
  <2> QED BY <1>s, <2>1, <2>2, RecRests, LifeRests
<1>2. ASSUME NEW landed \in BOOLEAN, NEW ok \in BOOLEAN, WriteRaw(w, landed, ok)
      PROVE  UNCHANGED Life!lifeVars
  <2>1. /\ UNCHANGED <<rec, counters, event>> /\ run[w].pc = "write"
        /\ (Go(w, "confirm") \/ Go(w, "reconcile"))
    BY <1>2 DEF WriteRaw
  <2> QED BY <1>s, <2>1, RecRests, EventRests, LifeRests
<1>3. ASSUME NEW landed \in BOOLEAN, NEW ok \in BOOLEAN, ConfirmSource(w, landed, ok)
      PROVE  Life!LifeNext \/ UNCHANGED Life!lifeVars
  <2>1. /\ UNCHANGED <<rec, counters>> /\ run[w].pc = "confirm"
        /\ (Go(w, "saved") \/ Go(w, "reconcile")) /\ (Committed(d) \/ event' = event)
    BY <1>3, <1>d DEF ConfirmSource
  <2>2. rec[d].conv = "succeeded" /\ \A e \in Documents : BusyKept(e)
    BY <1>0, <1>d, <1>s, <2>1 DEF RunInv, Saving
  <2> QED BY <2>1, <2>2, CommittedLives, RecRests, EventRests, LifeRests
<1>4. ASSUME NEW fails \in BOOLEAN, ReconcileSource(w, fails)
      PROVE  Life!LifeNext \/ UNCHANGED Life!lifeVars
  <2>1. /\ UNCHANGED <<rec, counters>> /\ run[w].pc = "reconcile"
        /\ \E pc \in {"saved", "failed", "unknown"} : Go(w, pc)
        /\ (Reconciled(d) \/ event' = event)
    BY <1>4, <1>d DEF ReconcileSource, OutcomeOf
  <2>2. \A e \in Documents : BusyKept(e)
    BY <1>s, <2>1
  <2> QED BY <2>1, <2>2, ReconciledLives, RecRests, EventRests, LifeRests
<1>5. CASE WorkerEnds(w)
  <2>1. UNCHANGED <<rec, counters, event>> /\ Go(w, "idle")
    BY <1>5 DEF WorkerEnds, objects
  <2>2. CASE run[w].pc # "convert"
    BY <1>s, <2>1, <2>2, RecRests, EventRests, LifeRests
  <2>3. CASE run[w].pc = "convert"
    <3>1. Moves(w) /\ run'[w].pc # "convert"
      BY <1>0, <2>1, GoMoves
    <3> QED BY <1>d, <2>1, <2>3, <3>1, BusyEnds, RecRests, EventRests, StopsOne
  <2> QED BY <2>2, <2>3
<1> QED BY <1>1, <1>2, <1>3, <1>4, <1>5, ClaimLives, ConversionLives, OutcomeLives DEF WorkerNext

\* Time ends executions of several documents at once.
LEMMA TickLives == IndInv /\ Tick => Life!LifeNext
<1> SUFFICES ASSUME IndInv, Tick PROVE Life!LifeNext
  OBVIOUS
<1>0. TypeOK
  BY DEF IndInv
<1>t. UNCHANGED counters
  BY DEF Tick
<1>1. \A e \in Documents : RecordKept(e)
  <2>1. \A e \in Documents : /\ rec'[e].conv = rec[e].conv /\ rec'[e].src = rec[e].src
                             /\ rec'[e].del = rec[e].del
    BY <1>0, TickAges
  <2> QED BY <2>1, SameResult DEF RecordKept, PhaseKept, RemovedKept
<1>2. \A e \in Documents : SourceKept(e)
  BY <1>0, TickAges DEF SourceKept
<1>3. \A v \in Workers : run'[v].doc = run[v].doc /\ run'[v].pc \in {run[v].pc, "idle"}
  BY <1>0, TickAges
<1>4. \A e \in Documents : Busy(e)' = {} \/ Busy(e)' = Busy(e)
  <2>1. \A e \in Documents : \A v, w \in Busy(e) : v = w
    BY DEF IndInv, OneConversion, Busy
  <2>2. \A e \in Documents : Busy(e)' \subseteq Busy(e)
    BY <1>3 DEF Busy
  <2> QED BY <2>1, <2>2
<1>5. PICK D \in SUBSET Documents : \A e \in Documents : e \in D <=> Busy(e)' = {}
  <2>1. \A e \in Documents : Busy(e)' = {}
          <=> ~\E v \in Workers : run'[v].pc = "convert" /\ run'[v].doc = e
    BY DEF Busy
  <2> WITNESS {e \in Documents : ~\E v \in Workers :
                 run'[v].pc = "convert" /\ run'[v].doc = e} \in SUBSET Documents
  <2> QED BY <2>1
<1>6. [e \in Documents |-> Busy(e)]'
        = [e \in Documents |-> IF e \in D THEN {} ELSE [f \in Documents |-> Busy(f)][e]]
  BY <1>4, <1>5
<1>7. UNCHANGED <<[e \in Documents |-> PhaseOf(rec[e])],
                  {e \in Documents : event[e].state = "committed"},
                  {e \in Documents : rec[e].del = "complete"}, failed, latest>>
  BY <1>t, <1>1, <1>2 DEF RecordKept, PhaseKept, RemovedKept, SourceKept, counters
<1>8. Life!Stop(D)
  BY <1>6, <1>7 DEF Life!Stop, Busy
<1> QED BY <1>8 DEF Life!LifeNext

\* Requests, the queue, workers, the journal's reconcile, crashes and time implement
\* the life of a document as its user is promised it (documentimport/firestore.go,
\* worker.go and profile_runtime.go): converted by one execution at a time, decided
\* once, a source only after its conversion, and counted as failed until removed.
THEOREM ImportImplementsLife == Spec => ImplementsLife
<1>1. Init => Life!LifeInit
  <2> SUFFICES ASSUME Init PROVE Life!LifeInit
    OBVIOUS
  <2>1. \A e \in Documents : PhaseOf(rec[e]) = "new"
    BY Phases DEF Init
  <2>2. \A e \in Documents : Busy(e) = {}
    BY DEF Init, Busy
  <2>3. {e \in Documents : event[e].state = "committed"} = {}
        /\ {e \in Documents : rec[e].del = "complete"} = {}
    BY DEF Init
  <2> QED BY <2>1, <2>2, <2>3 DEF Init, Life!LifeInit, Busy
<1>2. IndInv /\ [Next]_vars => [Life!LifeNext]_(Life!lifeVars)
  <2> SUFFICES ASSUME IndInv, [Next]_vars PROVE Life!LifeNext \/ UNCHANGED Life!lifeVars
    OBVIOUS
  <2>1. CASE Next
    BY <2>1, RequestsLive, DispatchersLive, WorkersLive, DocumentsLive, TickLives DEF Next
  <2>2. CASE UNCHANGED vars
    BY <2>2, RecRests, RunRests, EventRests, LifeRests DEF vars, counters
  <2> QED BY <2>1, <2>2
<1> QED BY <1>1, <1>2, Invariance, PTL DEF Spec, ImplementsLife, Life!LifeSpec

=============================================================================
