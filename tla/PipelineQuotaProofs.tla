------------------------- MODULE PipelineQuotaProofs -------------------------
(***************************************************************************)
(* Machine-checked proofs about PipelineQuota, for any number of runs,     *)
(* sweeps, dispatchers and reconcilers and any limits.                     *)
(***************************************************************************)
EXTENDS PipelineQuota, FiniteSetTheorems, TLAPS

-----------------------------------------------------------------------------
(* The inductive invariant.                                                *)

\* The provider was, or may still be, made to start r.
Started(r) == r \in sent \/ \E e \in DOMAIN execs : execs[e].res = r

\* A caller at one of these has not started anything yet, or never will.
Unsent == {"invoke", "rejected", "mark"}
Fresh  == {None, "preparing", "ready"}

\* The sweep s is over, and what it had reserved was not started under its name.
NeverStartedBy(r, s) ==
    /\ s \in Attempts /\ call[s].pc = "done"
    /\ Started(r) => res[r].attempt # s

\* What a caller may be doing, and for which reservations.
Crossing    == {"invoke", "waiting", "accepted", "rejected"}
Controls(c) ==
    {"new"} \cup Crossing
    \cup (IF c \in Dispatchers THEN {"prepare", "begin", "mark", "unknown", "finish"}
          ELSE {"done"})
    \cup (IF c \in Manual THEN {"reserved", "begin", "mark", "unknown"} ELSE {})
    \cup (IF c \in Attempts THEN {"asked", "mark"} ELSE {})
Mine(c) == IF c \in Manual \cup Admin THEN {c} ELSE IF c \in Attempts THEN Days ELSE Manual

CallerInv(c) ==
    /\ call[c].pc \in Controls(c)
    /\ call[c].pc \notin {"new", "done"} => call[c].res \in Mine(c)
    /\ call[c].pc = "accepted" =>
         call[c].exec \in DOMAIN execs /\ execs[call[c].exec].res = call[c].res

\* Who has not started its reservation yet: nobody else has, and what is being
\* invoked is in the slot.
UnsentInv(c) ==
    call[c].pc \in Unsent =>
      /\ Started(call[c].res) => c \in Attempts /\ res[call[c].res].attempt # c
      /\ call[c].pc = "invoke" =>
           /\ quota.active = call[c].res
           /\ c \in Attempts => res[call[c].res].attempt = c
      /\ \A d \in Callers : call[d].pc \in Unsent /\ call[d].res = call[c].res
                              /\ call[c].res \in Manual => d = c

SlotInv == \A r \in Ids : res[r].settle = "pending" <=> quota.active = r

OnceInv ==
    \A r \in Ids :
      /\ r \in sent => \A e \in DOMAIN execs : execs[e].res # r
      /\ \A e, f \in DOMAIN execs : execs[e].res = r /\ execs[f].res = r => e = f

\* What was started is not released, and an intent that is fresh was not.
ResInv(r) ==
    /\ Started(r) => res[r].settle \notin {"none", "released"}
    /\ r \in Manual /\ res[r].settle = "none" => res[r].intent = None
    /\ r \in Manual /\ res[r].intent \in Fresh =>
         ~Started(r) /\ \A c \in Callers : call[c].pc \in Unsent => call[c].res # r
    /\ r \in Days => (used[r] <=> res[r].settle \notin {"none", "released"})

MarkInv(d) == marker[d] = None \/ NeverStartedBy(d, marker[d])

RecInv(k) ==
    /\ rec[k].pc # "idle" => rec[k].res \in Ids
    /\ rec[k].pc = "release" =>
         rec[k].res \in Days /\ NeverStartedBy(rec[k].res, rec[k].attempt)
    /\ rec[k].pc \in {"link", "settle"} =>
         /\ rec[k].exec \in DOMAIN execs /\ execs[rec[k].exec].res = rec[k].res
         /\ rec[k].status # "running" => execs[rec[k].exec].status = rec[k].status

RunInv ==
    /\ \A e \in DOMAIN execs : execs[e].status = "running" => quota.active = execs[e].res
    /\ sent \subseteq {quota.active}

\* What the executions of r were, once it is settled.
Deserved(r, settle) ==
    /\ settle = "refunded" =>
         \A e \in DOMAIN execs : execs[e].res = r => execs[e].status = "failed"
    /\ settle = "charged" =>
         \E e \in DOMAIN execs :
           execs[e].res = r /\ execs[e].status \in {"succeeded", "cancelled", "cleanup_failed"}

ControlInv ==
    /\ SlotInv
    /\ \A c \in Callers : CallerInv(c)
    /\ OnceInv
    /\ \A r \in Ids : ResInv(r)
    /\ \A c \in Callers : UnsentInv(c)
    /\ \A d \in Days : MarkInv(d)
    /\ \A k \in Reconcilers : RecInv(k)
    /\ RunInv
    /\ \A r \in Manual : Deserved(r, res[r].settle)

IndInv == TypeOK /\ ControlInv

-----------------------------------------------------------------------------
(* The constants and the clock.                                            *)

LEMMA Apart ==
    /\ \A S \in {Manual, Admin, Attempts, Dispatchers} :
         S \cap Days = {} /\ None \notin S /\ NoAttempt \notin S
    /\ Manual \cap Admin = {} /\ Attempts \cap (Manual \cup Admin) = {}
    /\ Dispatchers \cap (Manual \cup Admin \cup Attempts) = {}
    /\ None \notin Ids /\ NoAttempt \notin Ids /\ None # NoAttempt
    /\ Days \subseteq Int /\ None \notin IntentStatuses
BY QuotaAssumption DEF Days, Ids

LEMMA DayOfTime ==
    ASSUME NEW t \in Times
    PROVE  t \in Nat /\ Day(t) \in Days
<1> Horizon \in Nat /\ TicksPerDay \in Nat \ {0} /\ t \in Nat /\ t <= Horizon
  BY QuotaAssumption DEF Times
<1> QED BY Z3 DEF Day, Days

LEMMA TimesAreNat == 0 \in Times /\ Times \subseteq Nat
BY QuotaAssumption DEF Times

LEMMA KindOf ==
    ASSUME NEW c \in Callers, NEW r \in Mine(c)
    PROVE  /\ r \in Ids
           /\ c \in Manual \cup Admin => r = c
           /\ c \in Attempts <=> r \in Days
           /\ c \in Admin <=> r \in Admin
           /\ c \in Manual \cup Dispatchers <=> r \in Manual
BY Apart DEF Mine, Callers, Ids

LEMMA NoneIsNoId == \A r \in Ids : r # None /\ r # NoAttempt
BY Apart

-----------------------------------------------------------------------------
(* Types.                                                                  *)

LEMMA InitInv == Init => IndInv
<1> SUFFICES ASSUME Init PROVE IndInv
  OBVIOUS
<1>1. TypeOK
  <2>1. quota \in QuotaDocument
    BY DEF Init, QuotaDocument
  <2>2. NoReservation \in ReservationDocument
    BY TimesAreNat DEF NoReservation, ReservationDocument
  <2>3. NewCall \in CallState
    BY TimesAreNat DEF NewCall, CallState
  <2>4. IdleRec \in RecState
    BY DEF IdleRec, RecState, ExecStatuses
  <2> QED BY <2>1, <2>2, <2>3, <2>4, TimesAreNat DEF Init, TypeOK
<1>2. ControlInv
  <2>1. \A r \in Ids : res[r].settle = "none" /\ res[r].intent = None
    BY DEF Init, NoReservation
  <2>2. \A c \in Callers : call[c].pc = "new"
    BY DEF Init, NewCall
  <2>3. quota.active = None /\ sent = {} /\ DOMAIN execs = {}
    BY DEF Init
  <2>4. \A d \in Days : marker[d] = None /\ ~used[d]
    BY DEF Init, Ids
  <2>5. \A k \in Reconcilers : rec[k].pc = "idle"
    BY DEF Init, IdleRec
  <2>6. SlotInv
    BY <2>1, <2>3, NoneIsNoId DEF SlotInv
  <2>7. (\A c \in Callers : CallerInv(c)) /\ (\A c \in Callers : UnsentInv(c))
    BY <2>2 DEF CallerInv, UnsentInv, Controls, Unsent
  <2>8. OnceInv /\ RunInv
    BY <2>3 DEF OnceInv, RunInv
  <2>9. \A r \in Ids : ResInv(r)
    BY <2>1, <2>2, <2>3, <2>4 DEF ResInv, Started, Unsent
  <2>10. (\A d \in Days : MarkInv(d)) /\ (\A k \in Reconcilers : RecInv(k))
    BY <2>4, <2>5 DEF MarkInv, RecInv
  <2>11. \A r \in Manual : Deserved(r, res[r].settle)
    BY <2>1 DEF Deserved, Ids
  <2> QED BY <2>6, <2>7, <2>8, <2>9, <2>10, <2>11 DEF ControlInv
<1> QED BY <1>1, <1>2 DEF IndInv


-----------------------------------------------------------------------------
(* Steps that start nothing new and give nobody the slot.                  *)

\* Callers go on, but none to a new invocation.
CallsGoOn ==
    \A c \in Callers :
      /\ CallerInv(c)'
      /\ call'[c].pc \in Unsent => call[c].pc \in Unsent /\ call'[c].res = call[c].res
      /\ call'[c].pc = "invoke" => call[c].pc = "invoke"
      /\ c \in Attempts /\ call[c].pc = "done" => call'[c].pc = "done"

\* Nothing happens to the slot.
Stays ==
    /\ quota'.active = quota.active /\ used' = used
    /\ \A r \in Ids : res'[r].settle = res[r].settle

\* r leaves the slot, settled, with nothing of it under way.
Leaves(r, settle) ==
    /\ res[r].settle = "pending" /\ settle \in Settled
    /\ quota'.active = IF quota.active = r THEN None ELSE quota.active
    /\ res'[r].settle = settle
    /\ \A q \in Ids \ {r} : res'[q].settle = res[q].settle
    /\ \A d \in Days : used'[d] = IF d = r THEN settle # "released" ELSE used[d]
    /\ settle = "released" => ~Started(r)
    /\ r \notin sent
    /\ \A e \in DOMAIN execs : execs[e].res = r => execs[e].status # "running"
    /\ \A c \in Callers : call[c].pc = "invoke" => call[c].res # r
    /\ r \in Manual => Deserved(r, settle)

\* Intents go on.
IntentsGoOn ==
    /\ \A r \in Ids : res'[r].attempt = res[r].attempt
    /\ \A r \in Manual :
         /\ res'[r].intent \in Fresh => res[r].intent \in Fresh
         /\ res'[r].settle = "none" => res'[r].intent = None

\* What is known of sweeps that are over stays true.
LEMMA OverStays ==
    ASSUME CallsGoOn, sent' \subseteq sent, execs' = execs,
           \A r \in Ids : res'[r].attempt = res[r].attempt,
           NEW d \in Ids, NEW s, NeverStartedBy(d, s)
    PROVE  NeverStartedBy(d, s)'
<1>1. Started(d)' => Started(d)
  BY DEF Started
<1> QED BY <1>1 DEF NeverStartedBy, CallsGoOn, Callers

LEMMA GoOn ==
    ASSUME IndInv, TypeOK',
           CallsGoOn, IntentsGoOn, sent' \subseteq sent, execs' = execs,
           Stays \/ \E r \in Ids, settle \in Settled : Leaves(r, settle),
           \A d \in Days : marker'[d] = marker[d] \/ MarkInv(d)',
           \A k \in Reconcilers : rec'[k] = rec[k] \/ RecInv(k)'
    PROVE  ControlInv'
<1>1. /\ \A r \in Ids : Started(r)' => Started(r)
      /\ \A r \in Ids : res'[r].attempt = res[r].attempt
      /\ \A d \in Ids, s \in Attempts : NeverStartedBy(d, s) => NeverStartedBy(d, s)'
      /\ \A d \in Ids : \A s : NeverStartedBy(d, s) => s \in Attempts
  <2>1. \A r \in Ids : Started(r)' => Started(r)
    BY DEF Started
  <2>2. \A r \in Ids : res'[r].attempt = res[r].attempt
    BY DEF IntentsGoOn
  <2> QED BY <2>1, <2>2, OverStays DEF NeverStartedBy
<1>2. /\ ControlInv /\ Days \subseteq Ids /\ Manual \subseteq Ids
  BY DEF IndInv, Ids
<1>3. SlotInv'
  <2>1. CASE Stays
    BY <1>2, <2>1 DEF ControlInv, SlotInv, Stays
  <2>2. CASE \E r \in Ids, settle \in Settled : Leaves(r, settle)
    <3> PICK r \in Ids, settle \in Settled : Leaves(r, settle)
      BY <2>2
    <3>1. quota.active = r /\ quota'.active = None /\ settle # "pending"
      BY <1>2 DEF ControlInv, SlotInv, Leaves, Settled
    <3>2. \A q \in Ids \ {r} : res[q].settle # "pending"
      BY <1>2, <3>1 DEF ControlInv, SlotInv
    <3> QED BY <3>1, <3>2, NoneIsNoId DEF SlotInv, Leaves
  <2> QED BY <2>1, <2>2
<1>4. \A c \in Callers : CallerInv(c)'
  BY DEF CallsGoOn
<1>5. OnceInv'
  BY <1>2 DEF ControlInv, OnceInv
<1>6. \A r \in Ids : ResInv(r)'
  <2> SUFFICES ASSUME NEW r \in Ids PROVE ResInv(r)'
    OBVIOUS
  <2>1. ResInv(r)
    BY <1>2 DEF ControlInv
  <2>2. /\ Started(r)' => res'[r].settle \notin {"none", "released"}
        /\ r \in Days => (used'[r] <=> res'[r].settle \notin {"none", "released"})
    <3>1. CASE Stays
      BY <1>1, <2>1, <3>1 DEF ResInv, Stays
    <3>2. CASE \E q \in Ids, settle \in Settled : Leaves(q, settle)
      <4> PICK q \in Ids, settle \in Settled : Leaves(q, settle)
        BY <3>2
      <4>1. CASE q = r
        BY <1>1, <2>1, <4>1 DEF ResInv, Leaves, Settled
      <4>2. CASE q # r
        BY <1>1, <2>1, <4>2 DEF ResInv, Leaves
      <4> QED BY <4>1, <4>2
    <3> QED BY <3>1, <3>2
  <2>3. r \in Manual /\ res'[r].intent \in Fresh =>
          ~Started(r)' /\ \A c \in Callers : call'[c].pc \in Unsent => call'[c].res # r
    BY <1>1, <2>1 DEF ResInv, IntentsGoOn, CallsGoOn
  <2> QED BY <2>2, <2>3 DEF ResInv, IntentsGoOn
<1>7. \A c \in Callers : UnsentInv(c)'
  <2> SUFFICES ASSUME NEW c \in Callers, call'[c].pc \in Unsent PROVE UnsentInv(c)'
    BY DEF UnsentInv
  <2>1. call[c].pc \in Unsent /\ call'[c].res = call[c].res /\ UnsentInv(c) /\ CallerInv(c)
    BY <1>2 DEF CallsGoOn, ControlInv
  <2>2. call[c].res \in Ids
    BY <2>1, KindOf DEF CallerInv, Unsent
  <2>3. call'[c].pc = "invoke" => quota'.active = call[c].res
    <3>1. call'[c].pc = "invoke" => call[c].pc = "invoke" /\ quota.active = call[c].res
      BY <2>1 DEF CallsGoOn, UnsentInv
    <3>2. CASE Stays
      BY <3>1, <3>2 DEF Stays
    <3>3. CASE \E q \in Ids, settle \in Settled : Leaves(q, settle)
      BY <3>1, <3>3 DEF Leaves
    <3> QED BY <3>2, <3>3
  <2>4. \A d \in Callers : call'[d].pc \in Unsent => call[d].pc \in Unsent /\ call'[d].res = call[d].res
    BY DEF CallsGoOn
  <2>5. call'[c].pc = "invoke" => call[c].pc = "invoke"
    BY DEF CallsGoOn
  <2> QED BY <1>1, <2>1, <2>2, <2>3, <2>4, <2>5 DEF UnsentInv
<1>8. \A d \in Days : MarkInv(d)'
  BY <1>1, <1>2 DEF ControlInv, MarkInv
<1>9. \A k \in Reconcilers : RecInv(k)'
  <2> SUFFICES ASSUME NEW k \in Reconcilers, rec'[k] = rec[k] PROVE RecInv(k)'
    OBVIOUS
  <2> QED BY <1>1, <1>2 DEF ControlInv, RecInv
<1>10. RunInv'
  <2>1. CASE Stays
    BY <1>2, <2>1 DEF ControlInv, RunInv, Stays
  <2>2. CASE \E r \in Ids, settle \in Settled : Leaves(r, settle)
    <3> PICK r \in Ids, settle \in Settled : Leaves(r, settle)
      BY <2>2
    <3>1. quota.active = r
      BY <1>2 DEF ControlInv, SlotInv, Leaves
    <3> QED BY <1>2, <3>1 DEF ControlInv, RunInv, Leaves
  <2> QED BY <2>1, <2>2
<1>11. \A r \in Manual : Deserved(r, res[r].settle)'
  <2> SUFFICES ASSUME NEW r \in Manual PROVE Deserved(r, res'[r].settle)
    BY DEF Deserved
  <2>1. CASE Stays
    BY <1>2, <2>1 DEF ControlInv, Stays
  <2>2. CASE \E q \in Ids, settle \in Settled : Leaves(q, settle)
    BY <1>2, <2>2 DEF ControlInv, Leaves
  <2> QED BY <2>1, <2>2
<1> QED BY <1>3, <1>4, <1>5, <1>6, <1>7, <1>8, <1>9, <1>10, <1>11 DEF ControlInv

-----------------------------------------------------------------------------
(* What the operators of the module do, field by field.                    *)

Pcs == {"new", "asked", "reserved", "prepare", "begin", "invoke", "waiting", "accepted",
        "rejected", "mark", "unknown", "finish", "done"}

LEMMA Moved ==
    ASSUME TypeOK, NEW c \in Callers, NEW x \in CallState, call' = [call EXCEPT ![c] = x]
    PROVE  /\ call' \in [Callers -> CallState]
           /\ call'[c] = x
           /\ \A d \in Callers : d # c => call'[d] = call[d]
BY DEF TypeOK

LEMMA GoneState ==
    /\ NewCall \in CallState /\ NewCall.pc = "new"
    /\ Gone \in CallState /\ Gone.pc = "done"
BY TimesAreNat DEF NewCall, Gone, CallState

LEMMA WithPc ==
    ASSUME NEW x \in CallState, NEW pc \in Pcs
    PROVE  /\ [x EXCEPT !.pc = pc] \in CallState
           /\ [x EXCEPT !.pc = pc].pc = pc
           /\ [x EXCEPT !.pc = pc].res = x.res
           /\ [x EXCEPT !.pc = pc].exec = x.exec
BY DEF CallState, Pcs

LEMMA GotoIs ==
    ASSUME TypeOK, NEW c \in Callers, NEW pc \in Pcs, Goto(c, pc)
    PROVE  /\ call' \in [Callers -> CallState]
           /\ call'[c].pc = pc
           /\ pc # "done" => call'[c].res = call[c].res /\ call'[c].exec = call[c].exec
           /\ \A d \in Callers : d # c => call'[d] = call[d]
<1>1. call[c] \in CallState
  BY DEF TypeOK
<1>2. CASE pc = "done"
  BY <1>2, Moved, GoneState DEF Goto
<1>3. CASE pc # "done"
  <2>1. call' = [call EXCEPT ![c] = [call[c] EXCEPT !.pc = pc]]
    BY <1>3 DEF Goto, TypeOK
  <2> QED BY <1>1, <1>3, <2>1, Moved, WithPc
<1> QED BY <1>2, <1>3

\* The next control state of a caller that is under way.
LEMMA GoesOn ==
    ASSUME IndInv, execs' = execs, NEW c \in Callers, NEW pc \in Pcs, Goto(c, pc),
           call[c].pc \notin {"new", "done"}, pc \in Controls(c),
           pc \notin {"new", "invoke", "accepted"},
           pc \in Unsent => call[c].pc \in Unsent
    PROVE  CallsGoOn /\ call' \in [Callers -> CallState]
<1>1. TypeOK /\ \A d \in Callers : CallerInv(d)
  BY DEF IndInv, ControlInv
<1>2. /\ call' \in [Callers -> CallState]
      /\ call'[c].pc = pc /\ (pc # "done" => call'[c].res = call[c].res)
      /\ \A d \in Callers : d # c => call'[d] = call[d]
  BY <1>1, GotoIs
<1>3. "done" \notin Unsent
  BY DEF Unsent
<1> QED BY <1>1, <1>2, <1>3 DEF CallsGoOn, CallerInv

LEMMA CallsRest ==
    ASSUME IndInv, execs' = execs, call' = call
    PROVE  CallsGoOn
BY DEF IndInv, ControlInv, CallsGoOn, CallerInv

LEMMA RefundIs ==
    ASSUME TypeOK, NEW r \in Ids
    PROVE  /\ Refund(r) \in QuotaDocument
           /\ Refund(r).active = IF quota.active = r THEN None ELSE quota.active
<1>1. quota \in QuotaDocument /\ res[r] \in ReservationDocument
  BY DEF TypeOK
<1>2. /\ quota.active \in Ids \cup {None} /\ quota.runs \in Nat
      /\ quota.last \in Times \cup {None} /\ res[r].prev \in Times \cup {None}
  BY <1>1 DEF QuotaDocument, ReservationDocument
<1> DEFINE n == IF r \in Manual /\ quota.day = Day(res[r].at) /\ quota.runs > 0
                THEN quota.runs - 1 ELSE quota.runs
           a == IF quota.active = r THEN None ELSE quota.active
           t == IF r \notin Admin /\ quota.last = res[r].at THEN res[r].prev ELSE quota.last
<1>3. a \in Ids \cup {None} /\ n \in Nat /\ t \in Times \cup {None}
  BY <1>2
<1>4. Refund(r) = [quota EXCEPT !.active = a, !.runs = n, !.last = t]
  BY <1>1 DEF Refund, QuotaDocument
<1> HIDE DEF a, n, t
<1>5. /\ [quota EXCEPT !.active = a, !.runs = n, !.last = t] \in QuotaDocument
      /\ [quota EXCEPT !.active = a, !.runs = n, !.last = t].active = a
  BY <1>1, <1>3 DEF QuotaDocument
<1>6. Refund(r) \in QuotaDocument /\ Refund(r).active = a
  BY <1>4, <1>5
<1> QED BY <1>6 DEF a

LEMMA VacateIs ==
    ASSUME TypeOK, NEW r \in Ids
    PROVE  /\ Vacate(r) \in QuotaDocument
           /\ Vacate(r).active = IF quota.active = r THEN None ELSE quota.active
<1>1. quota \in QuotaDocument
  BY DEF TypeOK
<1> QED BY <1>1 DEF Vacate, QuotaDocument

LEMMA Written ==
    ASSUME TypeOK, NEW r \in Ids, NEW x \in ReservationDocument, res' = [res EXCEPT ![r] = x]
    PROVE  /\ res' \in [Ids -> ReservationDocument]
           /\ res'[r] = x
           /\ \A q \in Ids : q # r => res'[q] = res[q]
BY DEF TypeOK

StoreTypes ==
    /\ quota' \in QuotaDocument /\ res' \in [Ids -> ReservationDocument]
    /\ used' \in [Days -> BOOLEAN]

\* A transaction that changes nothing.
LEMMA NothingWritten ==
    ASSUME IndInv, UNCHANGED <<quota, used, res>>
    PROVE  Stays /\ IntentsGoOn /\ StoreTypes
BY DEF IndInv, TypeOK, ControlInv, ResInv, Stays, IntentsGoOn, StoreTypes, Ids

\* Only an intent's status changes.
LEMMA IntentWritten ==
    ASSUME IndInv, NEW r \in Ids, NEW i \in IntentStatuses,
           res' = [res EXCEPT ![r].intent = i], UNCHANGED <<quota, used>>,
           r \in Manual => res[r].intent # None,
           i \in Fresh => res[r].intent \in Fresh
    PROVE  Stays /\ IntentsGoOn /\ StoreTypes
<1>1. TypeOK /\ res[r] \in ReservationDocument
  BY DEF IndInv, TypeOK
<1>2. res' = [res EXCEPT ![r] = [res[r] EXCEPT !.intent = i]]
  BY <1>1 DEF TypeOK
<1> DEFINE y == [res[r] EXCEPT !.intent = i]
<1>0. /\ y \in ReservationDocument
      /\ y.settle = res[r].settle /\ y.intent = i /\ y.attempt = res[r].attempt
  BY <1>1 DEF ReservationDocument
<1> HIDE DEF y
<1>3. /\ res' \in [Ids -> ReservationDocument] /\ res'[r] = y
      /\ \A q \in Ids : q # r => res'[q] = res[q]
  BY <1>0, <1>1, <1>2, Written DEF y
<1>4. res'[r].settle = res[r].settle /\ res'[r].intent = i /\ res'[r].attempt = res[r].attempt
  BY <1>0, <1>3
<1>5. \A q \in Manual : q \in Ids /\ ResInv(q)
  BY DEF IndInv, ControlInv, Ids
<1>6. Stays
  BY <1>3, <1>4 DEF Stays
<1>7. IntentsGoOn
  BY <1>3, <1>4, <1>5 DEF IntentsGoOn, ResInv
<1> QED BY <1>1, <1>3, <1>6, <1>7 DEF StoreTypes, TypeOK

LEMMA LinkWritten ==
    ASSUME IndInv, NEW r \in Ids, NEW e \in Nat, Link(r, e), UNCHANGED <<quota, used>>
    PROVE  Stays /\ IntentsGoOn /\ StoreTypes
<1>1. TypeOK /\ res[r] \in ReservationDocument
  BY DEF IndInv, TypeOK
<1> DEFINE i == IF res[r].intent \in {None, "failed", "succeeded"} THEN res[r].intent
                ELSE "compiling"
<1>2. i \in IntentStatuses \cup {None}
  BY <1>1 DEF ReservationDocument, IntentStatuses
<1>3. res' = [res EXCEPT ![r] = [res[r] EXCEPT !.exec = e, !.intent = i]]
  BY <1>1 DEF TypeOK, Link, ReservationDocument
<1>4. (i \in Fresh => res[r].intent \in Fresh) /\ (res[r].intent = None => i = None)
  BY Apart DEF Fresh, IntentStatuses
<1> HIDE DEF i
<1> DEFINE y == [res[r] EXCEPT !.exec = e, !.intent = i]
<1>0. /\ y \in ReservationDocument
      /\ y.settle = res[r].settle /\ y.intent = i /\ y.attempt = res[r].attempt
  BY <1>1, <1>2 DEF ReservationDocument
<1> HIDE DEF y
<1>5. /\ res' \in [Ids -> ReservationDocument] /\ res'[r] = y
      /\ \A q \in Ids : q # r => res'[q] = res[q]
  BY <1>0, <1>1, <1>3, Written DEF y
<1>6. res'[r].settle = res[r].settle /\ res'[r].intent = i /\ res'[r].attempt = res[r].attempt
  BY <1>0, <1>5
<1>7. \A q \in Manual : q \in Ids /\ ResInv(q)
  BY DEF IndInv, ControlInv, Ids
<1>8. Stays
  BY <1>5, <1>6 DEF Stays
<1>9. IntentsGoOn
  BY <1>4, <1>5, <1>6, <1>7 DEF IntentsGoOn, ResInv
<1> QED BY <1>1, <1>5, <1>8, <1>9 DEF StoreTypes, TypeOK

\* What was not started is released.
LEMMA ReleaseWritten ==
    ASSUME IndInv, NEW r \in Ids, Release(r), ~Started(r),
           \A c \in Callers : call[c].pc = "invoke" => call[c].res # r
    PROVE  Leaves(r, "released") /\ IntentsGoOn /\ StoreTypes
<1>1. TypeOK /\ res[r] \in ReservationDocument /\ res[r].settle = "pending"
  BY DEF IndInv, TypeOK, Release, Uninvoked
<1> DEFINE i == IF r \in Manual THEN "failed" ELSE res[r].intent
<1>2. i \in IntentStatuses \cup {None} /\ (r \in Manual => i \notin Fresh)
  BY <1>1, Apart DEF ReservationDocument, IntentStatuses, Fresh
<1>3. res' = [res EXCEPT ![r] = [res[r] EXCEPT !.settle = "released", !.intent = i]]
  BY <1>1 DEF TypeOK, Release, ReservationDocument
<1> HIDE DEF i
<1> DEFINE y == [res[r] EXCEPT !.settle = "released", !.intent = i]
<1>0. /\ y \in ReservationDocument
      /\ y.settle = "released" /\ y.intent = i /\ y.attempt = res[r].attempt
  BY <1>1, <1>2 DEF ReservationDocument, Settled
<1> HIDE DEF y
<1>4. /\ res' \in [Ids -> ReservationDocument] /\ res'[r] = y
      /\ \A q \in Ids : q # r => res'[q] = res[q]
  BY <1>0, <1>1, <1>3, Written DEF y
<1>5. /\ res'[r].settle = "released" /\ res'[r].intent = i
      /\ res'[r].attempt = res[r].attempt
  BY <1>0, <1>4
<1>6. \A q \in Manual : q \in Ids /\ ResInv(q)
  BY DEF IndInv, ControlInv, Ids
<1>7. IntentsGoOn
  BY <1>2, <1>4, <1>5, <1>6 DEF IntentsGoOn, ResInv
<1>8. quota' \in QuotaDocument /\ quota'.active = IF quota.active = r THEN None ELSE quota.active
  BY <1>1, RefundIs DEF Release
<1>9. used' \in [Days -> BOOLEAN] /\ \A d \in Days : used'[d] = IF d = r THEN FALSE ELSE used[d]
  BY <1>1 DEF TypeOK, Release
<1>10. Leaves(r, "released")
  BY <1>1, <1>4, <1>5, <1>8, <1>9 DEF Leaves, Settled, Started, Deserved
<1> QED BY <1>4, <1>7, <1>8, <1>9, <1>10 DEF StoreTypes

\* What has run to its end is settled; it is settled once.
LEMMA SettleWritten ==
    ASSUME IndInv, NEW r \in Ids, NEW e \in DOMAIN execs, execs[e].res = r,
           execs[e].status # "running", Settle(r, Outcome(execs[e].status))
    PROVE  /\ Stays \/ \E q \in Ids, settle \in Settled : Leaves(q, settle)
           /\ IntentsGoOn /\ StoreTypes
<1> DEFINE outcome == Outcome(execs[e].status)
<1>1. CASE res[r].settle # "pending"
  BY <1>1, NothingWritten DEF Settle
<1>2. CASE res[r].settle = "pending"
  <2>1. /\ TypeOK /\ ControlInv /\ res[r] \in ReservationDocument /\ execs[e] \in Execution
    BY DEF IndInv, TypeOK
  <2>2. execs[e].status \in {"succeeded", "failed", "cancelled", "cleanup_failed"}
    BY <2>1 DEF Execution, ExecStatuses
  <2>3. /\ outcome \in {"succeeded", "failed", "cancelled"}
        /\ outcome = "failed" <=> execs[e].status = "failed"
    BY <2>2 DEF Outcome
  <2> DEFINE refunded == outcome = "failed" /\ r \in Manual
             s == IF r \in Admin THEN "not_applicable"
                  ELSE IF refunded THEN "refunded" ELSE "charged"
             i == IF res[r].intent = None THEN None ELSE outcome
             y == [res[r] EXCEPT !.settle = s, !.intent = i]
  <2>4. /\ s \in Settled /\ s # "released" /\ s # "none"
        /\ i \in IntentStatuses \cup {None}
        /\ i \in Fresh => res[r].intent \in Fresh
    BY <2>3, Apart DEF Settled, IntentStatuses, Fresh
  <2>5. res' = [res EXCEPT ![r] = y]
    BY <1>2, <2>1 DEF TypeOK, Settle, ReservationDocument
  <2>6. quota' = IF refunded THEN Refund(r) ELSE Vacate(r)
    BY <1>2 DEF Settle
  <2>7. used' = IF r \in Days THEN [used EXCEPT ![r] = TRUE] ELSE used
    BY <1>2 DEF Settle
  <2>8. quota' \in QuotaDocument /\ quota'.active = IF quota.active = r THEN None ELSE quota.active
    BY <2>1, <2>6, RefundIs, VacateIs
  <2>9. used' \in [Days -> BOOLEAN] /\ \A d \in Days : used'[d] = IF d = r THEN TRUE ELSE used[d]
    BY <2>1, <2>7 DEF TypeOK
  <2>10. /\ r \notin sent
         /\ \A f \in DOMAIN execs : execs[f].res = r => f = e
    BY <2>1 DEF ControlInv, OnceInv
  <2>11. \A c \in Callers : call[c].pc = "invoke" => call[c].res # r
    <3> SUFFICES ASSUME NEW c \in Callers, call[c].pc = "invoke", call[c].res = r PROVE FALSE
      OBVIOUS
    <3>1. UnsentInv(c) /\ Started(r) /\ call[c].pc \in Unsent
      BY <2>1 DEF ControlInv, Started, Unsent
    <3> QED BY <3>1 DEF UnsentInv
  <2>12. r \in Manual => Deserved(r, s)
    <3>1. r \in Manual => r \notin Admin
      BY Apart
    <3> QED BY <2>2, <2>3, <2>10, <3>1 DEF Deserved
  <2> HIDE DEF s, i, refunded, outcome
  <2>13. /\ y \in ReservationDocument
         /\ y.settle = s /\ y.intent = i /\ y.attempt = res[r].attempt
    BY <2>1, <2>4 DEF ReservationDocument
  <2> HIDE DEF y
  <2>14. /\ res' \in [Ids -> ReservationDocument] /\ res'[r] = y
         /\ \A q \in Ids : q # r => res'[q] = res[q]
    BY <2>1, <2>5, <2>13, Written
  <2>15. \A q \in Manual : q \in Ids /\ ResInv(q)
    BY <2>1 DEF ControlInv, Ids
  <2>16. IntentsGoOn
    BY <2>4, <2>13, <2>14, <2>15 DEF IntentsGoOn, ResInv
  <2>17. Leaves(r, s)
    BY <1>2, <2>4, <2>8, <2>9, <2>10, <2>11, <2>12, <2>13, <2>14 DEF Leaves
  <2> QED BY <2>4, <2>8, <2>9, <2>14, <2>16, <2>17 DEF StoreTypes
<1> QED BY <1>1, <1>2

\* A caller goes somewhere else than to an invocation.
LEMMA CallMoves ==
    ASSUME IndInv, execs' = execs, NEW c \in Callers, NEW x \in CallState,
           call' = [call EXCEPT ![c] = x],
           call[c].pc # "done", x.pc \in Controls(c) \ Unsent,
           x.pc \notin {"new", "done"} => x.res \in Mine(c),
           x.pc = "accepted" => x.exec \in DOMAIN execs /\ execs[x.exec].res = x.res
    PROVE  CallsGoOn /\ call' \in [Callers -> CallState]
<1>1. TypeOK /\ \A d \in Callers : CallerInv(d)
  BY DEF IndInv, ControlInv
<1>2. /\ call' \in [Callers -> CallState] /\ call'[c] = x
      /\ \A d \in Callers : d # c => call'[d] = call[d]
  BY <1>1, Moved
<1>3. "invoke" \in Unsent
  BY DEF Unsent
<1> QED BY <1>1, <1>2, <1>3 DEF CallsGoOn, CallerInv

Work == [pending : BOOLEAN, holder : Dispatchers \cup {None}]

LEMMA WorkWritten ==
    ASSUME TypeOK, NEW r \in Manual
    PROVE  /\ WithWork(r) \in [Manual -> Work]
           /\ \A d \in Dispatchers : [work EXCEPT ![r].holder = d] \in [Manual -> Work]
           /\ [work EXCEPT ![r] = [pending |-> FALSE, holder |-> None]] \in [Manual -> Work]
BY DEF TypeOK, WithWork, Work

\* A step that leaves the reconcilers and the markers alone.
LEMMA CallerGoesOn ==
    ASSUME IndInv, CallsGoOn, call' \in [Callers -> CallState],
           IntentsGoOn, StoreTypes, work' \in [Manual -> Work], now' \in Times,
           Stays \/ \E r \in Ids, settle \in Settled : Leaves(r, settle),
           sent' \subseteq sent, UNCHANGED <<execs, marker, rec>>
    PROVE  IndInv'
<1>1. TypeOK'
  BY DEF IndInv, TypeOK, StoreTypes, Work
<1> QED BY <1>1, GoOn DEF IndInv

-----------------------------------------------------------------------------
(* One lemma per action: requests, sweeps and dispatchers.                 *)

LEMMA Parts ==
    ASSUME IndInv
    PROVE  /\ TypeOK /\ ControlInv
           /\ now \in Times /\ work \in [Manual -> Work]
           /\ call \in [Callers -> CallState]
           /\ \A c \in Callers : CallerInv(c) /\ UnsentInv(c) /\ call[c] \in CallState
           /\ \A r \in Ids : ResInv(r) /\ res[r] \in ReservationDocument
           /\ Manual \subseteq Ids /\ Admin \subseteq Ids /\ Days \subseteq Ids
BY DEF IndInv, ControlInv, TypeOK, Work, Ids

LEMMA CallerKinds ==
    /\ Manual \subseteq Callers /\ Admin \subseteq Callers
    /\ Attempts \subseteq Callers /\ Dispatchers \subseteq Callers
BY DEF Callers

\* What a caller under way has of its own.
LEMMA ItsOwn ==
    ASSUME IndInv, NEW c \in Callers, call[c].pc \notin {"new", "done"}
    PROVE  /\ call[c].res \in Mine(c) /\ call[c].res \in Ids
           /\ c \in Manual \cup Admin => call[c].res = c
           /\ c \in Attempts <=> call[c].res \in Days
           /\ c \in Admin <=> call[c].res \in Admin
           /\ c \in Manual \cup Dispatchers <=> call[c].res \in Manual
<1>1. call[c].res \in Mine(c)
  BY Parts DEF CallerInv
<1> QED BY <1>1, KindOf

LEMMA AfterIs ==
    ASSUME NEW c \in Callers
    PROVE  /\ After(c) \in Pcs /\ After(c) \in Controls(c)
           /\ After(c) \in {"finish", "done"}
BY DEF After, Pcs, Controls

LEMMA ContinueStep ==
    ASSUME IndInv, NEW r \in Manual, Continue(r)
    PROVE  IndInv'
<1>1. r \in Callers /\ call[r].pc = "reserved" /\ work' \in [Manual -> Work]
  BY Parts, CallerKinds, WorkWritten DEF Continue, At
<1>2. Stays /\ IntentsGoOn /\ StoreTypes
  BY NothingWritten DEF Continue
<1> DEFINE pc == IF res[r].intent = "ready" THEN "begin" ELSE "done"
<1>3. pc \in Pcs /\ pc \in Controls(r) /\ pc \in {"begin", "done"} /\ Goto(r, pc)
  <2>1. r \notin Dispatchers
    BY Apart
  <2> QED BY <2>1 DEF Continue, Pcs, Controls
<1> HIDE DEF pc
<1>4. CallsGoOn /\ call' \in [Callers -> CallState]
  BY <1>1, <1>3, GoesOn DEF Continue, Unsent
<1> QED BY <1>1, <1>2, <1>4, Parts, CallerGoesOn DEF Continue

LEMMA SweepStartStep ==
    ASSUME IndInv, NEW s \in Attempts, SweepStart(s)
    PROVE  IndInv'
<1> DEFINE x == [call[s] EXCEPT !.pc = "asked", !.at = now, !.res = Day(now)]
<1>1. s \in Callers /\ call[s].pc = "new" /\ call[s] \in CallState /\ Day(now) \in Days
  BY Parts, CallerKinds, DayOfTime DEF SweepStart, At
<1>2. Stays /\ IntentsGoOn /\ StoreTypes
  BY NothingWritten DEF SweepStart
<1>3. x \in CallState /\ x.pc = "asked" /\ x.res = Day(now)
  BY <1>1, Parts DEF CallState
<1>4. call' = [call EXCEPT ![s] = x]
  BY Parts DEF SweepStart, CallState
<1> HIDE DEF x
<1>5. x.pc \in Controls(s) \ Unsent /\ x.res \in Mine(s)
  BY <1>1, <1>3, Apart DEF Controls, Unsent, Mine
<1>6. CallsGoOn /\ call' \in [Callers -> CallState]
  BY <1>1, <1>3, <1>4, <1>5, CallMoves DEF SweepStart
<1> QED BY <1>2, <1>6, Parts, CallerGoesOn DEF SweepStart

LEMMA ClaimStep ==
    ASSUME IndInv, NEW d \in Dispatchers, NEW r \in Manual, Claim(d, r)
    PROVE  IndInv'
<1> DEFINE pc == CASE res[r].intent = "preparing" -> "prepare"
                   [] res[r].intent = "ready" -> "begin"
                   [] OTHER -> "finish"
           x  == [call[d] EXCEPT !.res = r, !.pc = pc]
<1>1. d \in Callers /\ call[d].pc = "new" /\ call[d] \in CallState /\ r \in Ids
  BY Parts, CallerKinds DEF Claim, At
<1>2. Stays /\ IntentsGoOn /\ StoreTypes
  BY NothingWritten DEF Claim
<1>3. pc \in {"prepare", "begin", "finish"}
  OBVIOUS
<1>4. call' = [call EXCEPT ![d] = x]
  BY Parts DEF Claim, CallState
<1> HIDE DEF pc
<1>5. x \in CallState /\ x.pc = pc /\ x.res = r
  BY <1>1, <1>3 DEF CallState
<1> HIDE DEF x
<1>6. x.pc \in Controls(d) \ Unsent /\ x.res \in Mine(d)
  BY <1>1, <1>3, <1>5, Apart DEF Controls, Unsent, Mine
<1>7. CallsGoOn /\ call' \in [Callers -> CallState]
  BY <1>1, <1>3, <1>4, <1>5, <1>6, CallMoves DEF Claim
<1>8. work' \in [Manual -> Work]
  BY Parts, WorkWritten DEF Claim
<1> QED BY <1>2, <1>7, <1>8, Parts, CallerGoesOn DEF Claim

LEMMA PreparedStep ==
    ASSUME IndInv, NEW d \in Dispatchers, Prepared(d)
    PROVE  IndInv'
<1> DEFINE r == call[d].res
           completes == Uninvoked(r) /\ res[r].intent = "preparing"
           pc == IF completes \/ res[r].intent = "ready" THEN "begin" ELSE "finish"
<1>1. d \in Callers /\ call[d].pc = "prepare" /\ r \in Ids /\ r \in Manual
  BY CallerKinds, ItsOwn DEF Prepared, At
<1>2. Stays /\ IntentsGoOn /\ StoreTypes
  <2>1. CASE completes
    <3>1. res' = [res EXCEPT ![r].intent = "ready"] /\ UNCHANGED <<quota, used>>
      BY <2>1 DEF Prepared, Res
    <3>2. res[r].intent \in Fresh /\ res[r].intent # None /\ "ready" \in IntentStatuses
      BY <2>1, Apart DEF Fresh, IntentStatuses
    <3> HIDE DEF r
    <3> QED BY <1>1, <3>1, <3>2, IntentWritten
  <2>2. CASE ~completes
    BY <2>2, NothingWritten DEF Prepared, Res
  <2> QED BY <2>1, <2>2
<1>3. pc \in Pcs /\ pc \in Controls(d) /\ pc \in {"begin", "finish"}
  BY DEF Pcs, Controls
<1>4. Goto(d, pc)
  BY DEF Prepared, Res
<1> HIDE DEF pc
<1>5. CallsGoOn /\ call' \in [Callers -> CallState]
  BY <1>1, <1>3, <1>4, GoesOn DEF Prepared, Unsent
<1> QED BY <1>2, <1>5, Parts, CallerGoesOn DEF Prepared

\* A failure of an intent that nobody has started, or that has failed before.
LEMMA FailWritten ==
    ASSUME IndInv, NEW r \in Manual, NEW expected, Fail(r, expected),
           res[r].intent = expected =>
             ~Started(r) /\ \A c \in Callers : call[c].pc = "invoke" => call[c].res # r
    PROVE  /\ Stays \/ \E q \in Ids, settle \in Settled : Leaves(q, settle)
           /\ IntentsGoOn /\ StoreTypes
<1>1. CASE res[r].intent = "failed" /\ res[r].settle = "released"
  BY <1>1, NothingWritten DEF Fail
<1>2. CASE ~(res[r].intent = "failed" /\ res[r].settle = "released")
  <2>1. Leaves(r, "released") /\ IntentsGoOn /\ StoreTypes /\ r \in Ids
    BY <1>2, Parts, ReleaseWritten DEF Fail
  <2> QED BY <2>1 DEF Settled
<1> QED BY <1>1, <1>2

LEMMA FreshIsUnsent ==
    ASSUME IndInv, NEW r \in Manual, res[r].intent \in {"preparing", "ready"}
    PROVE  ~Started(r) /\ \A c \in Callers : call[c].pc = "invoke" => call[c].res # r
BY Parts DEF ResInv, Fresh, Unsent

LEMMA PreparationFailsStep ==
    ASSUME IndInv, NEW d \in Dispatchers, PreparationFails(d)
    PROVE  IndInv'
<1> DEFINE r == call[d].res
<1>1. d \in Callers /\ call[d].pc = "prepare" /\ r \in Manual
  BY CallerKinds, ItsOwn DEF PreparationFails, At
<1>2. Fail(r, "preparing")
  BY DEF PreparationFails, Res
<1> HIDE DEF r
<1>3. /\ Stays \/ \E q \in Ids, settle \in Settled : Leaves(q, settle)
      /\ IntentsGoOn /\ StoreTypes
  BY <1>1, <1>2, FailWritten, FreshIsUnsent
<1>4. "finish" \in Pcs /\ "finish" \in Controls(d) /\ Goto(d, "finish")
  BY DEF PreparationFails, Pcs, Controls
<1>5. CallsGoOn /\ call' \in [Callers -> CallState]
  BY <1>1, <1>4, GoesOn DEF PreparationFails, Unsent
<1> QED BY <1>3, <1>5, Parts, CallerGoesOn DEF PreparationFails

LEMMA FinishStep ==
    ASSUME IndInv, NEW d \in Dispatchers, Finish(d)
    PROVE  IndInv'
<1>1. d \in Callers /\ call[d].pc = "finish" /\ call[d].res \in Manual
  BY CallerKinds, ItsOwn DEF Finish, At
<1>2. Stays /\ IntentsGoOn /\ StoreTypes
  BY NothingWritten DEF Finish
<1>3. work' \in [Manual -> Work]
  BY <1>1, Parts, WorkWritten DEF Finish, Res
<1>4. NewCall.pc \in Controls(d) \ Unsent /\ call' = [call EXCEPT ![d] = NewCall]
  BY GoneState DEF Finish, Controls, Unsent
<1>5. CallsGoOn /\ call' \in [Callers -> CallState]
  BY <1>1, <1>4, GoneState, CallMoves DEF Finish
<1> QED BY <1>2, <1>3, <1>5, Parts, CallerGoesOn DEF Finish

LEMMA ExhaustStep ==
    ASSUME IndInv, NEW r \in Manual, Exhaust(r)
    PROVE  IndInv'
<1>1. work' \in [Manual -> Work]
  BY Parts, WorkWritten DEF Exhaust
<1>2. /\ Stays \/ \E q \in Ids, settle \in Settled : Leaves(q, settle)
      /\ IntentsGoOn /\ StoreTypes
  <2>1. CASE res[r].intent \in {"preparing", "ready"}
    BY <2>1, FailWritten, FreshIsUnsent DEF Exhaust
  <2>2. CASE res[r].intent = "invoking"
    <3>1. /\ res' = [res EXCEPT ![r].intent = "invocation_unknown"]
          /\ UNCHANGED <<quota, used>>
      BY <2>2 DEF Exhaust
    <3>2. /\ res[r].intent # None /\ "invocation_unknown" \in IntentStatuses
          /\ "invocation_unknown" \notin Fresh
      BY <2>2, Apart DEF IntentStatuses, Fresh
    <3> QED BY <3>1, <3>2, Parts, IntentWritten
  <2>3. CASE res[r].intent \notin {"preparing", "ready", "invoking"}
    BY <2>3, NothingWritten DEF Exhaust
  <2> QED BY <2>1, <2>2, <2>3
<1>3. CallsGoOn
  BY CallsRest DEF Exhaust
<1> QED BY <1>1, <1>2, <1>3, Parts, CallerGoesOn DEF Exhaust

-----------------------------------------------------------------------------
(* One lemma per action: the provider boundary.                            *)

\* A caller that gives up, is refused, or fails to say what it knows.
LEMMA OnlyGoto ==
    ASSUME IndInv, NEW c \in Callers, NEW pc \in Pcs, Goto(c, pc),
           call[c].pc \notin {"new", "done"}, pc \in Controls(c),
           pc \notin {"new", "invoke", "accepted"},
           pc \in Unsent => call[c].pc \in Unsent,
           UNCHANGED <<now, quota, res, used, marker, work, sent, execs, rec>>
    PROVE  IndInv'
<1>1. Stays /\ IntentsGoOn /\ StoreTypes
  BY NothingWritten
<1>2. CallsGoOn /\ call' \in [Callers -> CallState]
  BY GoesOn
<1> QED BY <1>1, <1>2, Parts, CallerGoesOn

LEMMA RefusedStep ==
    ASSUME IndInv, NEW c \in Callers, Refused(c)
    PROVE  IndInv'
<1>1. "rejected" \in Pcs /\ "rejected" \in Controls(c) /\ call[c].pc = "invoke" /\ Goto(c, "rejected")
  BY DEF Refused, At, Pcs, Controls, Crossing
<1> QED BY <1>1, OnlyGoto DEF Refused, Unsent

LEMMA UnsureIs ==
    ASSUME IndInv, NEW c \in Callers, call[c].pc \notin {"new", "done"}
    PROVE  /\ Unsure(c) \in Pcs /\ Unsure(c) \in Controls(c)
           /\ Unsure(c) \in {"unknown", "done"}
           /\ c \in Attempts => Unsure(c) = "done"
<1>1. c \in Manual \cup Dispatchers <=> call[c].res \in Manual
  BY ItsOwn
<1>2. c \in Attempts => c \notin Manual \cup Dispatchers
  BY Apart
<1> QED BY <1>1, <1>2 DEF Unsure, Res, Pcs, Controls

LEMMA NoAnswerStep ==
    ASSUME IndInv, NEW c \in Callers, NoAnswer(c)
    PROVE  IndInv'
<1>1. call[c].pc = "waiting" /\ Goto(c, Unsure(c))
  BY DEF NoAnswer, At
<1> QED BY <1>1, UnsureIs, OnlyGoto DEF NoAnswer, Unsent

LEMMA LinkFailsStep ==
    ASSUME IndInv, NEW c \in Callers, LinkFails(c)
    PROVE  IndInv'
<1>1. call[c].pc = "accepted" /\ Goto(c, Unsure(c))
  BY DEF LinkFails, At
<1> QED BY <1>1, UnsureIs, OnlyGoto DEF LinkFails, Unsent

LEMMA UnreleasedIs ==
    ASSUME IndInv, NEW c \in Callers, call[c].pc \notin {"new", "done"}
    PROVE  /\ Unreleased(c) \in Pcs /\ Unreleased(c) \in Controls(c)
           /\ Unreleased(c) \in {"mark", "done"}
<1>1. c \in Admin <=> call[c].res \in Admin
  BY ItsOwn
<1>2. c \in Admin => c \notin Dispatchers
  BY Apart
<1> QED BY <1>1, <1>2 DEF Unreleased, Res, Pcs, Controls, Callers

LEMMA ReleaseFailsStep ==
    ASSUME IndInv, NEW c \in Callers, ReleaseFails(c)
    PROVE  IndInv'
<1>1. call[c].pc = "rejected" /\ Goto(c, Unreleased(c))
  BY DEF ReleaseFails, At
<1> QED BY <1>1, UnreleasedIs, OnlyGoto DEF ReleaseFails, Unsent

LEMMA AnswerStep ==
    ASSUME IndInv, NEW c \in Callers, Answer(c)
    PROVE  IndInv'
<1> PICK e \in DOMAIN execs :
      /\ execs[e].res = call[c].res
      /\ call' = [call EXCEPT ![c].pc = "accepted", ![c].exec = e]
  BY DEF Answer, Res
<1> DEFINE x == [call[c] EXCEPT !.pc = "accepted", !.exec = e]
<1>1. call[c].pc = "waiting" /\ call[c] \in CallState /\ call[c].res \in Mine(c) /\ e \in Nat
  BY Parts, ItsOwn DEF Answer, At, TypeOK
<1>2. x \in CallState /\ x.pc = "accepted" /\ x.res = call[c].res /\ x.exec = e
  BY <1>1 DEF CallState
<1>3. call' = [call EXCEPT ![c] = x]
  BY Parts DEF CallState
<1> HIDE DEF x
<1>4. x.pc \in Controls(c) \ Unsent
  BY <1>2 DEF Controls, Crossing, Unsent
<1>5. CallsGoOn /\ call' \in [Callers -> CallState]
  BY <1>1, <1>2, <1>3, <1>4, CallMoves DEF Answer
<1>6. Stays /\ IntentsGoOn /\ StoreTypes
  BY NothingWritten DEF Answer
<1> QED BY <1>5, <1>6, Parts, CallerGoesOn DEF Answer

LEMMA AcceptedStep ==
    ASSUME IndInv, NEW c \in Callers, Accepted(c)
    PROVE  IndInv'
<1>1. call[c].pc = "accepted" /\ call[c] \in CallState /\ call[c].res \in Ids
  BY Parts, ItsOwn DEF Accepted, At
<1>2. call[c].exec \in Nat
  BY <1>1 DEF CallState
<1>3. Link(call[c].res, call[c].exec) /\ UNCHANGED <<quota, used>>
  BY DEF Accepted, Res
<1>4. Stays /\ IntentsGoOn /\ StoreTypes
  BY <1>1, <1>2, <1>3, LinkWritten
<1>5. CallsGoOn /\ call' \in [Callers -> CallState]
  BY <1>1, AfterIs, GoesOn DEF Accepted, Unsent
<1> QED BY <1>4, <1>5, Parts, CallerGoesOn DEF Accepted

\* What was refused was not started, and nobody else invokes it.
LEMMA RefusedIsUnsent ==
    ASSUME IndInv, NEW c \in Callers, call[c].pc = "rejected",
           call[c].res \in Days => res[call[c].res].attempt = c
    PROVE  /\ ~Started(call[c].res)
           /\ \A d \in Callers : call[d].pc = "invoke" => call[d].res # call[c].res
<1>1. UnsentInv(c) /\ call[c].pc \in Unsent /\ "invoke" \in Unsent
  BY Parts DEF Unsent
<1>2. c \in Attempts <=> call[c].res \in Days
  BY ItsOwn
<1>3. ~Started(call[c].res)
  BY <1>1, <1>2 DEF UnsentInv
<1>4. ASSUME NEW d \in Callers, call[d].pc = "invoke", call[d].res = call[c].res PROVE FALSE
  <2>1. /\ UnsentInv(d) /\ d # c
        /\ d \in Attempts <=> call[c].res \in Days
        /\ d \in Manual \cup Admin => call[c].res = d
        /\ c \in Manual \cup Admin => call[c].res = c
        /\ call[c].res \in Ids
    BY <1>4, Parts, ItsOwn
  <2>2. CASE call[c].res \in Manual
    BY <1>1, <1>4, <2>1, <2>2 DEF UnsentInv
  <2>3. CASE call[c].res \in Admin
    <3>1. c \in Admin /\ d \in Admin
      BY <1>4, <2>3, ItsOwn
    <3> QED BY <2>1, <3>1
  <2>4. CASE call[c].res \in Days
    BY <1>1, <1>4, <2>1, <2>4 DEF UnsentInv
  <2> QED BY <2>1, <2>2, <2>3, <2>4 DEF Ids
<1> QED BY <1>3, <1>4

LEMMA RejectedStep ==
    ASSUME IndInv, NEW c \in Callers, Rejected(c)
    PROVE  IndInv'
<1> DEFINE r == call[c].res
<1>1. call[c].pc = "rejected" /\ r \in Ids
  BY ItsOwn DEF Rejected, At
<1>2. /\ Stays \/ \E q \in Ids, settle \in Settled : Leaves(q, settle)
      /\ IntentsGoOn /\ StoreTypes
  <2>1. CASE r \in Manual
    <3>1. Fail(r, "invoking") /\ r \notin Days
      BY <2>1, Apart DEF Rejected, Res
    <3> QED BY <1>1, <2>1, <3>1, RefusedIsUnsent, FailWritten
  <2>2. CASE r \in Admin
    <3>1. Release(r) /\ r \notin Days
      BY <2>2, Apart DEF Rejected, Res
    <3>2. Leaves(r, "released") /\ IntentsGoOn /\ StoreTypes
      BY <1>1, <3>1, RefusedIsUnsent, ReleaseWritten
    <3> QED BY <1>1, <3>2 DEF Settled
  <2>3. CASE r \in Days
    <3>1. ReleaseAttempt(r, c)
      BY <2>3, Apart DEF Rejected, Res
    <3>2. CASE res[r].attempt = c
      <4>1. Leaves(r, "released") /\ IntentsGoOn /\ StoreTypes
        BY <1>1, <3>1, <3>2, RefusedIsUnsent, ReleaseWritten DEF ReleaseAttempt
      <4> QED BY <1>1, <4>1 DEF Settled
    <3>3. CASE res[r].attempt # c
      BY <3>1, <3>3, NothingWritten DEF ReleaseAttempt
    <3> QED BY <3>2, <3>3
  <2> QED BY <1>1, <2>1, <2>2, <2>3 DEF Ids
<1>3. PICK pc \in {After(c), Unreleased(c)} : Goto(c, pc)
  BY DEF Rejected
<1>4. /\ pc \in Pcs /\ pc \in Controls(c) /\ pc \in {"finish", "done", "mark"}
  BY <1>1, <1>3, AfterIs, UnreleasedIs
<1>5. CallsGoOn /\ call' \in [Callers -> CallState]
  BY <1>1, <1>3, <1>4, GoesOn DEF Rejected, Unsent
<1> QED BY <1>2, <1>5, Parts, CallerGoesOn DEF Rejected

LEMMA UnknownStep ==
    ASSUME IndInv, NEW c \in Callers, Unknown(c)
    PROVE  IndInv'
<1> DEFINE r == call[c].res
<1>1. call[c].pc = "unknown" /\ r \in Ids
  BY ItsOwn DEF Unknown, At
<1>2. Stays /\ IntentsGoOn /\ StoreTypes
  <2>1. CASE res[r].intent = "invoking"
    <3>1. /\ res' = [res EXCEPT ![r].intent = "invocation_unknown"]
          /\ UNCHANGED <<quota, used>>
      BY <2>1 DEF Unknown, Res
    <3>2. /\ res[r].intent # None /\ "invocation_unknown" \in IntentStatuses
          /\ "invocation_unknown" \notin Fresh
      BY <2>1, Apart DEF IntentStatuses, Fresh
    <3> HIDE DEF r
    <3> QED BY <1>1, <3>1, <3>2, IntentWritten
  <2>2. CASE res[r].intent # "invoking"
    BY <2>2, NothingWritten DEF Unknown, Res
  <2> QED BY <2>1, <2>2
<1>3. CallsGoOn /\ call' \in [Callers -> CallState]
  BY <1>1, AfterIs, GoesOn DEF Unknown, Unsent
<1> QED BY <1>2, <1>3, Parts, CallerGoesOn DEF Unknown

LEMMA CrashStep ==
    ASSUME IndInv, NEW c \in Callers, Crash(c)
    PROVE  IndInv'
<1> DEFINE x == IF c \in Dispatchers THEN NewCall ELSE Gone
<1>1. /\ x \in CallState /\ x.pc \in {"new", "done"} /\ x.pc \in Controls(c) \ Unsent
      /\ call' = [call EXCEPT ![c] = x] /\ call[c].pc # "done"
  BY GoneState DEF Crash, Controls, Unsent
<1> HIDE DEF x
<1>2. CallsGoOn /\ call' \in [Callers -> CallState]
  BY <1>1, CallMoves DEF Crash
<1>3. Stays /\ IntentsGoOn /\ StoreTypes
  BY NothingWritten DEF Crash
<1> QED BY <1>2, <1>3, Parts, CallerGoesOn DEF Crash

LEMMA LoseStep ==
    ASSUME IndInv, NEW r \in sent, Lose(r)
    PROVE  IndInv'
<1>1. CallsGoOn /\ call' \in [Callers -> CallState]
  BY Parts, CallsRest DEF Lose
<1>2. Stays /\ IntentsGoOn /\ StoreTypes
  BY NothingWritten DEF Lose
<1> QED BY <1>1, <1>2, Parts, CallerGoesOn DEF Lose

LEMMA TickStep ==
    ASSUME IndInv, Tick
    PROVE  IndInv'
<1>1. CallsGoOn /\ call' \in [Callers -> CallState]
  BY Parts, CallsRest DEF Tick
<1>2. Stays /\ IntentsGoOn /\ StoreTypes
  BY NothingWritten DEF Tick
<1>3. now' \in Times
  BY Parts, QuotaAssumption DEF Tick, Times
<1> QED BY <1>1, <1>2, <1>3, Parts, CallerGoesOn DEF Tick

LEMMA MarkStep ==
    ASSUME IndInv, NEW c \in Callers, Mark(c)
    PROVE  IndInv'
<1> DEFINE r == call[c].res
           m == IF r \in Days THEN c ELSE r
<1>1. /\ call[c].pc = "mark" /\ r \in Ids /\ UnsentInv(c)
      /\ marker' = [marker EXCEPT ![r] = m] /\ Goto(c, Unsure(c))
  BY Parts, ItsOwn DEF Mark, At, Res
<1>2. c \notin Admin /\ (c \in Attempts <=> r \in Days) /\ (c \in Admin <=> r \in Admin)
  <2>1. c \in Admin => c \notin Manual \cup Attempts \cup Dispatchers
    BY Apart
  <2>2. CallerInv(c)
    BY Parts
  <2> QED BY <1>1, <2>1, <2>2, ItsOwn DEF CallerInv, Controls, Crossing
<1>3. m \in Manual \cup Attempts
  BY <1>1, <1>2 DEF Ids
<1>4. Stays /\ IntentsGoOn /\ StoreTypes
  BY NothingWritten DEF Mark
<1>5. CallsGoOn /\ call' \in [Callers -> CallState]
  BY <1>1, UnsureIs, GoesOn DEF Mark, Unsent
<1>6. marker' \in [Ids -> {None} \cup Manual \cup Attempts]
  BY <1>1, <1>3, Parts DEF TypeOK
<1>7. TypeOK'
  BY <1>4, <1>5, <1>6 DEF IndInv, TypeOK, StoreTypes, Mark
<1>8. \A d \in Days : marker'[d] = marker[d] \/ MarkInv(d)'
  <2> SUFFICES ASSUME NEW d \in Days, marker'[d] # marker[d] PROVE MarkInv(d)'
    OBVIOUS
  <2>1. d = r /\ marker'[d] = c /\ c \in Attempts
    BY <1>1, <1>2, Parts DEF TypeOK
  <2>2. call'[c].pc = "done"
    BY <1>1, <2>1, Parts, UnsureIs, GotoIs
  <2>3. Started(d)' => res'[d].attempt # c
    BY <1>1, <2>1 DEF UnsentInv, Unsent, Started, Mark
  <2> QED BY <2>1, <2>2, <2>3 DEF MarkInv, NeverStartedBy
<1> QED BY <1>4, <1>5, <1>7, <1>8, GoOn DEF IndInv, Mark

-----------------------------------------------------------------------------
(* One lemma per action: reconcilers.                                      *)

\* A reconciler's step; what it knows afterwards has to be shown.
LEMMA RecGoesOn ==
    ASSUME IndInv, NEW k \in Reconcilers, NEW x \in RecState, rec' = [rec EXCEPT ![k] = x],
           RecInv(k)',
           IntentsGoOn, StoreTypes, work' \in [Manual -> Work],
           Stays \/ \E r \in Ids, settle \in Settled : Leaves(r, settle),
           UNCHANGED <<now, marker, call, sent, execs>>
    PROVE  IndInv'
<1>1. rec' \in [Reconcilers -> RecState] /\ \A j \in Reconcilers : j # k => rec'[j] = rec[j]
  BY Parts DEF TypeOK
<1>2. TypeOK'
  BY <1>1 DEF IndInv, TypeOK, StoreTypes, Work
<1>3. CallsGoOn
  BY CallsRest
<1> QED BY <1>1, <1>2, <1>3, GoOn DEF IndInv

LEMMA RecParts ==
    ASSUME IndInv, NEW k \in Reconcilers
    PROVE  RecInv(k) /\ rec[k] \in RecState /\ rec \in [Reconcilers -> RecState]
BY DEF IndInv, ControlInv, TypeOK

LEMMA IdleState == IdleRec \in RecState /\ IdleRec.pc = "idle"
BY DEF IdleRec, RecState, ExecStatuses

LEMMA RecReadStep ==
    ASSUME IndInv, NEW k \in Reconcilers, NEW r \in Ids, RecRead(k, r)
    PROVE  IndInv'
<1> DEFINE x == [IdleRec EXCEPT !.pc = "look", !.res = r, !.attempt = res[r].attempt,
                                !.intent = res[r].intent, !.exec = res[r].exec]
<1>1. x \in RecState /\ x.pc = "look" /\ x.res = r
  BY Parts DEF IdleRec, RecState, ReservationDocument, ExecStatuses
<1>2. rec' = [rec EXCEPT ![k] = x] /\ UNCHANGED <<now, quota, res, used, marker, call, sent, execs>>
  BY DEF RecRead
<1> HIDE DEF x
<1>3. RecInv(k)'
  BY <1>1, <1>2, RecParts DEF RecInv
<1>4. work' \in [Manual -> Work]
  BY Parts, WorkWritten DEF RecRead
<1> QED BY <1>1, <1>2, <1>3, <1>4, NothingWritten, RecGoesOn

\* The marker that confirms names a sweep that started nothing.
LEMMA RecConfirmedStep ==
    ASSUME IndInv, NEW k \in Reconcilers, RecConfirmed(k)
    PROVE  IndInv'
<1> DEFINE x == [rec[k] EXCEPT !.pc = "release"]
<1>1. /\ rec[k].pc = "look" /\ rec[k] \in RecState /\ rec[k].res \in Ids /\ Confirms(k)
      /\ rec' = [rec EXCEPT ![k] = x]
      /\ UNCHANGED <<now, quota, res, used, marker, work, call, sent, execs>>
  BY RecParts DEF RecConfirmed, RecInv
<1>2. x \in RecState /\ x.pc = "release" /\ x.res = rec[k].res /\ x.attempt = rec[k].attempt
  BY <1>1 DEF RecState
<1>3. marker[rec[k].res] \in {None} \cup Manual \cup Attempts
  BY <1>1, Parts DEF TypeOK
<1>4. rec[k].res \in Days /\ marker[rec[k].res] = rec[k].attempt
  <2>1. NoAttempt \notin {None} \cup Manual \cup Attempts
    BY Apart
  <2> QED BY <1>1, <1>3, <2>1 DEF Confirms
<1>5. rec[k].attempt # None
  <2>1. rec[k].attempt \in Ids \cup Attempts \cup {NoAttempt}
    BY <1>1 DEF RecState
  <2> QED BY <2>1, Apart
<1>6. NeverStartedBy(rec[k].res, rec[k].attempt)
  BY <1>4, <1>5 DEF IndInv, ControlInv, MarkInv
<1> HIDE DEF x
<1>7. rec'[k] = x
  BY <1>1, RecParts
<1>8. RecInv(k)'
  BY <1>1, <1>2, <1>4, <1>6, <1>7 DEF RecInv, NeverStartedBy, Started
<1> QED BY <1>1, <1>2, <1>8, Parts, NothingWritten, RecGoesOn

LEMMA RecFetchStep ==
    ASSUME IndInv, NEW k \in Reconcilers, NEW e \in DOMAIN execs, RecFetch(k, e)
    PROVE  IndInv'
<1> DEFINE pc == IF rec[k].exec = None THEN "link" ELSE "settle"
           x  == [rec[k] EXCEPT !.exec = e, !.status = execs[e].status, !.pc = pc]
<1>1. /\ rec[k].pc = "look" /\ rec[k] \in RecState /\ rec[k].res \in Ids
      /\ execs[e].res = rec[k].res
      /\ rec' = [rec EXCEPT ![k] = x]
      /\ UNCHANGED <<now, quota, res, used, marker, work, call, sent, execs>>
  BY RecParts DEF RecFetch, RecInv
<1>2. e \in Nat /\ execs[e].status \in ExecStatuses /\ pc \in {"link", "settle"}
  <2>1. e \in Nat /\ execs[e] \in Execution
    BY Parts DEF TypeOK
  <2> QED BY <2>1 DEF Execution
<1> HIDE DEF pc
<1>3. /\ x \in RecState /\ x.pc = pc /\ x.res = rec[k].res /\ x.exec = e
      /\ x.status = execs[e].status
  BY <1>1, <1>2 DEF RecState
<1> HIDE DEF x
<1>4. rec'[k] = x
  BY <1>1, RecParts
<1>5. RecInv(k)'
  BY <1>1, <1>2, <1>3, <1>4 DEF RecInv
<1> QED BY <1>1, <1>3, <1>5, Parts, NothingWritten, RecGoesOn

LEMMA RecIdles ==
    ASSUME IndInv, NEW k \in Reconcilers, rec' = [rec EXCEPT ![k] = IdleRec]
    PROVE  RecInv(k)'
<1>1. rec'[k].pc = "idle"
  BY RecParts, IdleState
<1> QED BY <1>1 DEF RecInv

LEMMA RecReleaseStep ==
    ASSUME IndInv, NEW k \in Reconcilers, RecRelease(k)
    PROVE  IndInv'
<1> DEFINE r == rec[k].res
           s == rec[k].attempt
<1>1. rec[k].pc = "release" /\ r \in Days /\ r \in Ids /\ NeverStartedBy(r, s)
  BY RecParts DEF RecRelease, RecInv
<1>2. /\ rec' = [rec EXCEPT ![k] = IdleRec] /\ ReleaseAttempt(r, s)
      /\ UNCHANGED <<now, marker, work, call, sent, execs>>
  BY <1>1, Apart DEF RecRelease
<1>3. /\ Stays \/ \E q \in Ids, settle \in Settled : Leaves(q, settle)
      /\ IntentsGoOn /\ StoreTypes
  <2>1. CASE res[r].attempt = s
    <3>1. ~Started(r)
      BY <1>1, <2>1 DEF NeverStartedBy
    <3>2. ASSUME NEW c \in Callers, call[c].pc = "invoke", call[c].res = r PROVE FALSE
      <4>1. UnsentInv(c) /\ c \in Attempts
        BY <1>1, <3>2, Parts, ItsOwn
      <4> QED BY <1>1, <2>1, <3>2, <4>1 DEF UnsentInv, Unsent, NeverStartedBy
    <3>3. Leaves(r, "released") /\ IntentsGoOn /\ StoreTypes
      BY <1>1, <1>2, <2>1, <3>1, <3>2, ReleaseWritten DEF ReleaseAttempt
    <3> QED BY <1>1, <3>3 DEF Settled
  <2>2. CASE res[r].attempt # s
    BY <1>2, <2>2, NothingWritten DEF ReleaseAttempt
  <2> QED BY <2>1, <2>2
<1> QED BY <1>2, <1>3, IdleState, RecIdles, Parts, RecGoesOn

LEMMA RecLinkStep ==
    ASSUME IndInv, NEW k \in Reconcilers, RecLink(k)
    PROVE  IndInv'
<1> DEFINE x == [rec[k] EXCEPT !.pc = "settle"]
<1>1. /\ rec[k].pc = "link" /\ rec[k] \in RecState /\ RecInv(k)
      /\ rec' = [rec EXCEPT ![k] = x] /\ Link(rec[k].res, rec[k].exec)
      /\ UNCHANGED <<now, quota, used, marker, work, call, sent, execs>>
  BY RecParts DEF RecLink
<1>2. /\ rec[k].res \in Ids /\ rec[k].exec \in DOMAIN execs /\ rec[k].exec \in Nat
  BY <1>1, Parts DEF RecInv, TypeOK
<1>3. Stays /\ IntentsGoOn /\ StoreTypes
  BY <1>1, <1>2, LinkWritten
<1>4. /\ x \in RecState /\ x.pc = "settle" /\ x.res = rec[k].res /\ x.exec = rec[k].exec
      /\ x.status = rec[k].status
  BY <1>1 DEF RecState
<1> HIDE DEF x
<1>5. rec'[k] = x
  BY <1>1, RecParts
<1>6. RecInv(k)'
  BY <1>1, <1>4, <1>5 DEF RecInv
<1> QED BY <1>1, <1>3, <1>4, <1>6, Parts, RecGoesOn

LEMMA RecSettleStep ==
    ASSUME IndInv, NEW k \in Reconcilers, RecSettle(k)
    PROVE  IndInv'
<1>1. /\ rec[k].pc = "settle" /\ RecInv(k) /\ rec[k].status # "running"
      /\ rec' = [rec EXCEPT ![k] = IdleRec]
      /\ Settle(rec[k].res, Outcome(rec[k].status))
      /\ UNCHANGED <<now, marker, work, call, sent, execs>>
  BY RecParts DEF RecSettle
<1>2. /\ rec[k].res \in Ids /\ rec[k].exec \in DOMAIN execs
      /\ execs[rec[k].exec].res = rec[k].res /\ execs[rec[k].exec].status = rec[k].status
  BY <1>1 DEF RecInv
<1>3. /\ Stays \/ \E q \in Ids, settle \in Settled : Leaves(q, settle)
      /\ IntentsGoOn /\ StoreTypes
  BY <1>1, <1>2, SettleWritten
<1> QED BY <1>1, <1>3, IdleState, RecIdles, Parts, RecGoesOn

LEMMA RecDropStep ==
    ASSUME IndInv, NEW k \in Reconcilers, RecDrop(k)
    PROVE  IndInv'
BY NothingWritten, IdleState, RecIdles, Parts, RecGoesOn DEF RecDrop

-----------------------------------------------------------------------------
(* One lemma per action: the provider.                                     *)

LEMMA AcceptStep ==
    ASSUME IndInv, NEW r \in sent, Accept(r)
    PROVE  IndInv'
<1> DEFINE n == Len(execs) + 1
<1>1. /\ TypeOK /\ ControlInv /\ r \in Ids /\ execs \in Seq(Execution) /\ sent' = sent \ {r}
      /\ [res |-> r, status |-> "running"] \in Execution
      /\ UNCHANGED <<now, quota, res, used, marker, work, call, rec>>
  BY Parts DEF TypeOK, Accept, Execution, ExecStatuses
<1>2. /\ execs' \in Seq(Execution) /\ DOMAIN execs' = DOMAIN execs \cup {n} /\ n \notin DOMAIN execs
      /\ execs'[n].res = r /\ execs'[n].status = "running"
      /\ \A e \in DOMAIN execs : execs'[e] = execs[e]
  BY <1>1 DEF Accept
<1> HIDE DEF n
<1>3. /\ quota.active = r /\ res[r].settle = "pending"
      /\ \A e \in DOMAIN execs : execs[e].res # r
  BY <1>1 DEF ControlInv, RunInv, SlotInv, OnceInv
<1>4. \A q \in Ids : Started(q)' => Started(q)
  BY <1>1, <1>2 DEF Started
<1>5. TypeOK'
  BY <1>1, <1>2 DEF TypeOK
<1>6. SlotInv'
  BY <1>1 DEF ControlInv, SlotInv
<1>7. \A c \in Callers : CallerInv(c)'
  BY <1>1, <1>2 DEF ControlInv, CallerInv
<1>8. OnceInv'
  BY <1>1, <1>2, <1>3 DEF ControlInv, OnceInv
<1>9. \A q \in Ids : ResInv(q)'
  BY <1>1, <1>4 DEF ControlInv, ResInv
<1>10. \A c \in Callers : UnsentInv(c)'
  <2> SUFFICES ASSUME NEW c \in Callers, call[c].pc \in Unsent PROVE UnsentInv(c)'
    BY <1>1 DEF UnsentInv
  <2>1. UnsentInv(c) /\ call[c].res \in Ids
    BY Parts, ItsOwn DEF Unsent
  <2> QED BY <1>1, <1>4, <2>1 DEF UnsentInv
<1>11. \A d \in Days : MarkInv(d)'
  BY <1>1, <1>4, Parts DEF ControlInv, MarkInv, NeverStartedBy
<1>12. \A k \in Reconcilers : RecInv(k)'
  <2> SUFFICES ASSUME NEW k \in Reconcilers PROVE RecInv(k)'
    OBVIOUS
  <2>1. RecInv(k)
    BY RecParts
  <2>2. rec[k].pc = "release" => NeverStartedBy(rec[k].res, rec[k].attempt)'
    BY <1>1, <1>4, <2>1, Parts DEF RecInv, NeverStartedBy
  <2> QED BY <1>1, <1>2, <2>1, <2>2 DEF RecInv
<1>13. RunInv'
  BY <1>1, <1>2, <1>3 DEF ControlInv, RunInv
<1>14. \A q \in Manual : Deserved(q, res[q].settle)'
  BY <1>1, <1>2, <1>3 DEF ControlInv, Deserved
<1> QED BY <1>5, <1>6, <1>7, <1>8, <1>9, <1>10, <1>11, <1>12, <1>13, <1>14 DEF IndInv, ControlInv

LEMMA EndStep ==
    ASSUME IndInv, NEW x \in DOMAIN execs, NEW status \in ExecStatuses \ {"running"},
           End(x, status)
    PROVE  IndInv'
<1>1. /\ TypeOK /\ ControlInv /\ execs \in Seq(Execution) /\ execs[x].status = "running"
      /\ execs' = [execs EXCEPT ![x].status = status]
      /\ UNCHANGED <<now, quota, res, used, marker, work, call, sent, rec>>
  BY Parts DEF TypeOK, End
<1>2. /\ execs' \in Seq(Execution) /\ DOMAIN execs' = DOMAIN execs
      /\ \A e \in DOMAIN execs : execs'[e].res = execs[e].res
      /\ \A e \in DOMAIN execs : e # x => execs'[e].status = execs[e].status
      /\ execs'[x].status = status
  <2> DEFINE y == [execs[x] EXCEPT !.status = status]
  <2>1. execs[x] \in Execution /\ execs' = [execs EXCEPT ![x] = y]
    BY <1>1
  <2>2. y \in Execution /\ y.res = execs[x].res /\ y.status = status
    BY <2>1 DEF Execution
  <2> HIDE DEF y
  <2>3. /\ execs' \in Seq(Execution) /\ DOMAIN execs' = DOMAIN execs
        /\ execs'[x] = y /\ \A e \in DOMAIN execs : e # x => execs'[e] = execs[e]
    BY <1>1, <2>1, <2>2
  <2> QED BY <2>2, <2>3
<1>3. execs[x].res \in Ids /\ quota.active = execs[x].res /\ res[execs[x].res].settle = "pending"
  <2>1. execs[x] \in Execution
    BY <1>1
  <2>2. execs[x].res \in Ids
    BY <2>1 DEF Execution
  <2> QED BY <1>1, <2>2 DEF ControlInv, RunInv, SlotInv
<1>4. \A q \in Ids : Started(q)' => Started(q)
  BY <1>1, <1>2 DEF Started
<1>5. TypeOK'
  BY <1>1, <1>2 DEF TypeOK
<1>6. SlotInv'
  BY <1>1 DEF ControlInv, SlotInv
<1>7. \A c \in Callers : CallerInv(c)'
  BY <1>1, <1>2 DEF ControlInv, CallerInv
<1>8. OnceInv'
  BY <1>1, <1>2 DEF ControlInv, OnceInv
<1>9. \A q \in Ids : ResInv(q)'
  BY <1>1, <1>4 DEF ControlInv, ResInv
<1>10. \A c \in Callers : UnsentInv(c)'
  <2> SUFFICES ASSUME NEW c \in Callers, call[c].pc \in Unsent PROVE UnsentInv(c)'
    BY <1>1 DEF UnsentInv
  <2>1. UnsentInv(c) /\ call[c].res \in Ids
    BY Parts, ItsOwn DEF Unsent
  <2> QED BY <1>1, <1>4, <2>1 DEF UnsentInv
<1>11. \A d \in Days : MarkInv(d)'
  BY <1>1, <1>4, Parts DEF ControlInv, MarkInv, NeverStartedBy
<1>12. \A k \in Reconcilers : RecInv(k)'
  <2> SUFFICES ASSUME NEW k \in Reconcilers PROVE RecInv(k)'
    OBVIOUS
  <2>1. RecInv(k)
    BY RecParts
  <2>2. rec[k].pc = "release" => NeverStartedBy(rec[k].res, rec[k].attempt)'
    BY <1>1, <1>4, <2>1, Parts DEF RecInv, NeverStartedBy
  <2> QED BY <1>1, <1>2, <2>1, <2>2 DEF RecInv
<1>13. RunInv'
  BY <1>1, <1>2 DEF ControlInv, RunInv
<1>14. \A q \in Manual : Deserved(q, res[q].settle)'
  <2> SUFFICES ASSUME NEW q \in Manual PROVE Deserved(q, res[q].settle)'
    OBVIOUS
  <2>1. Deserved(q, res[q].settle)
    BY <1>1 DEF ControlInv
  <2>2. res[q].settle \in {"refunded", "charged"} => q # execs[x].res
    BY <1>3
  <2> QED BY <1>1, <1>2, <2>1, <2>2 DEF Deserved
<1> QED BY <1>5, <1>6, <1>7, <1>8, <1>9, <1>10, <1>11, <1>12, <1>13, <1>14 DEF IndInv, ControlInv

-----------------------------------------------------------------------------
(* One lemma per action: admissions, the boundary and the invocation.      *)

\* c reserves r in the free slot, and invokes it at once unless r is an intent.
LEMMA Take ==
    ASSUME IndInv, TypeOK', NEW r \in Ids, NEW c \in Callers,
           quota.active = None, quota'.active = r, ~Started(r),
           res'[r].settle = "pending", \A q \in Ids : q # r => res'[q] = res[q],
           r \in Manual => res[r].settle = "none",
           call[c].pc \notin {"done"} \cup Unsent, r \in Mine(c), call'[c].res = r,
           call'[c].pc = IF r \in Manual THEN "reserved" ELSE "invoke",
           call'[c].pc \in Controls(c),
           c \in Attempts => res'[r].attempt = c,
           \A d \in Callers : d # c => call'[d] = call[d],
           \A d \in Days : used'[d] = IF d = r THEN TRUE ELSE used[d],
           UNCHANGED <<marker, sent, execs, rec>>
    PROVE  IndInv'
<1>1. /\ TypeOK /\ ControlInv /\ Days \subseteq Ids /\ Manual \subseteq Ids /\ Attempts \subseteq Callers
      /\ \A q \in Ids : Started(q)' => Started(q)
  BY Parts, CallerKinds DEF Started
<1>2. \A q \in Ids : res[q].settle # "pending"
  BY <1>1, NoneIsNoId DEF ControlInv, SlotInv
<1>3. sent = {} /\ \A e \in DOMAIN execs : execs[e].status # "running"
  <2>1. \A e \in DOMAIN execs : execs[e].res \in Ids
    <3>1. \A e \in DOMAIN execs : execs[e] \in Execution
      BY <1>1 DEF TypeOK
    <3> QED BY <3>1 DEF Execution
  <2> QED BY <1>1, <2>1, NoneIsNoId DEF ControlInv, RunInv, TypeOK
<1>4. \A d \in Ids : \A s : NeverStartedBy(d, s) => NeverStartedBy(d, s)'
  <2> SUFFICES ASSUME NEW d \in Ids, NEW s, NeverStartedBy(d, s) PROVE NeverStartedBy(d, s)'
    OBVIOUS
  <2>1. s \in Attempts /\ call'[s].pc = "done"
    BY <1>1 DEF NeverStartedBy
  <2>2. Started(d)' => res'[d].attempt # s
    BY <1>1 DEF NeverStartedBy
  <2> QED BY <2>1, <2>2 DEF NeverStartedBy
<1>5. SlotInv'
  BY <1>2, NoneIsNoId DEF SlotInv
<1>6. \A d \in Callers : CallerInv(d)'
  BY <1>1 DEF ControlInv, CallerInv
<1>7. OnceInv'
  BY <1>1 DEF ControlInv, OnceInv
<1>8. \A q \in Ids : ResInv(q)'
  <2> SUFFICES ASSUME NEW q \in Ids PROVE ResInv(q)'
    OBVIOUS
  <2>1. ResInv(q)
    BY <1>1 DEF ControlInv
  <2>2. CASE q # r
    <3>1. q \in Manual => call'[c].pc \notin Unsent \/ call'[c].res # q
      BY <2>2
    <3> QED BY <1>1, <2>1, <2>2, <3>1 DEF ResInv
  <2>3. CASE q = r
    <3>1. r \in Manual => \A d \in Callers : call'[d].pc \in Unsent => call'[d].res # r
      <4>1. r \in Manual => \A d \in Callers : call[d].pc \in Unsent => call[d].res # r
        BY <2>1, <2>3 DEF ResInv, Fresh
      <4> QED BY <4>1 DEF Unsent
    <3> QED BY <1>1, <2>1, <2>3, <3>1 DEF ResInv
  <2> QED BY <2>2, <2>3
<1>9. \A d \in Callers : UnsentInv(d)'
  <2> SUFFICES ASSUME NEW d \in Callers, call'[d].pc \in Unsent PROVE UnsentInv(d)'
    BY DEF UnsentInv
  <2>1. r \in Manual => call'[c].pc \notin Unsent
    BY DEF Unsent
  <2>2. CASE d = c
    <3>1. r \notin Manual
      BY <2>1, <2>2
    <3> QED BY <1>1, <2>2, <3>1 DEF UnsentInv
  <2>3. CASE d # c
    <3>1. /\ UnsentInv(d) /\ call[d] = call'[d] /\ call[d].res \in Ids
          /\ d \in Attempts <=> call[d].res \in Days
      BY <2>3, Parts, ItsOwn DEF Unsent
    <3>2. call[d].pc # "invoke"
      BY <3>1, NoneIsNoId DEF UnsentInv, Unsent
    <3>3. Started(call[d].res)' => d \in Attempts /\ res'[call[d].res].attempt # d
      BY <1>1, <2>3, <3>1 DEF UnsentInv
    <3>4. ASSUME NEW f \in Callers, call'[f].pc \in Unsent, call'[f].res = call[d].res,
                 call[d].res \in Manual
          PROVE  f = d
      <4>1. f # c
        BY <2>1, <3>4
      <4> QED BY <3>1, <3>4, <4>1 DEF UnsentInv
    <3> QED BY <3>1, <3>2, <3>3, <3>4 DEF UnsentInv
  <2> QED BY <2>2, <2>3
<1>10. \A d \in Days : MarkInv(d)'
  BY <1>1, <1>4 DEF ControlInv, MarkInv
<1>11. \A k \in Reconcilers : RecInv(k)'
  BY <1>1, <1>4 DEF ControlInv, RecInv
<1>12. RunInv'
  BY <1>3 DEF RunInv
<1>13. \A q \in Manual : Deserved(q, res[q].settle)'
  <2> SUFFICES ASSUME NEW q \in Manual PROVE Deserved(q, res'[q].settle)
    BY DEF Deserved
  <2>1. CASE q = r
    BY <2>1 DEF Deserved
  <2>2. CASE q # r
    BY <1>1, <2>2 DEF ControlInv
  <2> QED BY <2>1, <2>2
<1> QED BY <1>5, <1>6, <1>7, <1>8, <1>9, <1>10, <1>11, <1>12, <1>13 DEF IndInv, ControlInv

LEMMA NewReservation ==
    ASSUME TypeOK, NEW r \in Ids, NEW t \in Times, NEW attempt \in Ids \cup Attempts \cup {NoAttempt},
           NEW intent \in {None, "preparing", "ready"},
           res' = [res EXCEPT ![r] = Reservation(r, t, attempt, intent)]
    PROVE  /\ res' \in [Ids -> ReservationDocument]
           /\ res'[r].settle = "pending" /\ res'[r].attempt = attempt
           /\ \A q \in Ids : q # r => res'[q] = res[q]
<1>1. quota.last \in Times \cup {None}
  BY DEF TypeOK, QuotaDocument
<1>2. /\ Reservation(r, t, attempt, intent) \in ReservationDocument
      /\ Reservation(r, t, attempt, intent).settle = "pending"
      /\ Reservation(r, t, attempt, intent).attempt = attempt
  BY <1>1 DEF Reservation, ReservationDocument, IntentStatuses
<1> QED BY <1>2, Written

LEMMA RunStep ==
    ASSUME IndInv, NEW r \in Manual, Run(r)
    PROVE  IndInv'
<1> PICK intent \in {"preparing", "ready"} : ReserveManual(r, intent)
  BY DEF Run
<1> DEFINE x == [call[r] EXCEPT !.pc = "reserved", !.res = r]
<1>1. /\ r \in Ids /\ r \in Callers /\ call[r].pc = "new" /\ call[r] \in CallState
      /\ TypeOK /\ now \in Times /\ r \notin Days /\ r \notin Attempts /\ r \notin Dispatchers
  BY Parts, CallerKinds, Apart DEF Run, At
<1>2. /\ quota.active = None /\ res[r].settle = "none"
      /\ quota' = [active |-> r, day |-> Day(now), runs |-> RunsOn(now) + 1, last |-> now]
      /\ res' = [res EXCEPT ![r] = Reservation(r, now, r, intent)]
      /\ UNCHANGED <<now, used, marker, work, sent, execs, rec>>
  BY DEF Run, ReserveManual
<1>3. quota' \in QuotaDocument /\ quota'.active = r
  <2>1. RunsOn(now) \in Nat
    BY <1>1 DEF TypeOK, QuotaDocument, RunsOn
  <2> QED BY <1>1, <1>2, <2>1, DayOfTime DEF QuotaDocument
<1>4. /\ res' \in [Ids -> ReservationDocument] /\ res'[r].settle = "pending"
      /\ \A q \in Ids : q # r => res'[q] = res[q]
  BY <1>1, <1>2, NewReservation
<1>5. x \in CallState /\ x.pc = "reserved" /\ x.res = r
  BY <1>1 DEF CallState
<1>6. call' = [call EXCEPT ![r] = x]
  BY Parts DEF Run, CallState
<1> HIDE DEF x
<1>7. /\ call' \in [Callers -> CallState] /\ call'[r] = x
      /\ \A d \in Callers : d # r => call'[d] = call[d]
  BY <1>1, <1>5, <1>6, Moved
<1>8. TypeOK'
  BY <1>1, <1>2, <1>3, <1>4, <1>7 DEF TypeOK
<1>9. ~Started(r)
  BY <1>1, <1>2, Parts DEF ResInv
<1>10. "reserved" \in Controls(r) /\ r \in Mine(r) /\ "new" \notin {"done"} \cup Unsent
  BY <1>1 DEF Controls, Mine, Unsent
<1>11. /\ call[r].pc \notin {"done"} \cup Unsent /\ call'[r].res = r
       /\ call'[r].pc = IF r \in Manual THEN "reserved" ELSE "invoke"
       /\ call'[r].pc \in Controls(r)
  BY <1>1, <1>5, <1>7, <1>10
<1>12. \A d \in Days : used'[d] = IF d = r THEN TRUE ELSE used[d]
  BY <1>1, <1>2
<1> QED BY <1>1, <1>2, <1>3, <1>4, <1>7, <1>8, <1>9, <1>10, <1>11, <1>12, Take

LEMMA TriggerStep ==
    ASSUME IndInv, NEW a \in Admin, Trigger(a)
    PROVE  IndInv'
<1> DEFINE x == [call[a] EXCEPT !.pc = "invoke", !.res = a]
<1>1. /\ a \in Ids /\ a \in Callers /\ call[a].pc = "new" /\ call[a] \in CallState
      /\ TypeOK /\ now \in Times /\ a \notin Days /\ a \notin Attempts /\ a \notin Manual
      /\ a \notin Dispatchers
  BY Parts, CallerKinds, Apart DEF Trigger, At
<1>2. /\ quota.active = None /\ res[a].settle = "none"
      /\ quota' = [quota EXCEPT !.active = a]
      /\ res' = [res EXCEPT ![a] = Reservation(a, now, NoAttempt, None)]
      /\ UNCHANGED <<now, used, marker, work, sent, execs, rec>>
  BY DEF Trigger
<1>3. quota' \in QuotaDocument /\ quota'.active = a
  BY <1>1, <1>2 DEF TypeOK, QuotaDocument
<1>4. /\ res' \in [Ids -> ReservationDocument] /\ res'[a].settle = "pending"
      /\ \A q \in Ids : q # a => res'[q] = res[q]
  BY <1>1, <1>2, NewReservation
<1>5. x \in CallState /\ x.pc = "invoke" /\ x.res = a
  BY <1>1 DEF CallState
<1>6. call' = [call EXCEPT ![a] = x]
  BY Parts DEF Trigger, CallState
<1> HIDE DEF x
<1>7. /\ call' \in [Callers -> CallState] /\ call'[a] = x
      /\ \A d \in Callers : d # a => call'[d] = call[d]
  BY <1>1, <1>5, <1>6, Moved
<1>8. TypeOK'
  BY <1>1, <1>2, <1>3, <1>4, <1>7 DEF TypeOK
<1>9. ~Started(a)
  BY <1>1, <1>2, Parts DEF ResInv
<1>10. "invoke" \in Controls(a) /\ a \in Mine(a) /\ "new" \notin {"done"} \cup Unsent
  BY <1>1 DEF Controls, Crossing, Mine, Unsent
<1>11. /\ call[a].pc \notin {"done"} \cup Unsent /\ call'[a].res = a
       /\ call'[a].pc = IF a \in Manual THEN "reserved" ELSE "invoke"
       /\ call'[a].pc \in Controls(a)
  BY <1>1, <1>5, <1>7, <1>10
<1>12. \A d \in Days : used'[d] = IF d = a THEN TRUE ELSE used[d]
  BY <1>1, <1>2
<1> QED BY <1>1, <1>2, <1>3, <1>4, <1>7, <1>8, <1>9, <1>10, <1>11, <1>12, Take

LEMMA SweepReserveStep ==
    ASSUME IndInv, NEW s \in Attempts, SweepReserve(s)
    PROVE  IndInv'
<1>0. s \in Callers /\ call[s].pc = "asked" /\ call[s] \in CallState
  BY Parts, CallerKinds DEF SweepReserve, At
<1> PICK d \in Days : d = call[s].res
  BY <1>0, ItsOwn
<1> PICK t \in Times : t = call[s].at
  BY <1>0 DEF CallState
<1> DEFINE x == [call[s] EXCEPT !.pc = "invoke", !.at = 0]
<1>1. /\ s \in Callers /\ call[s].pc = "asked" /\ call[s] \in CallState /\ TypeOK
      /\ d \in Mine(s) /\ d \in Days /\ d \in Ids /\ d \notin Manual
  BY <1>0, Parts, ItsOwn, Apart
<1>2. /\ quota.active = None /\ ~used[d]
      /\ quota' = [quota EXCEPT !.active = d, !.last = t]
      /\ res' = [res EXCEPT ![d] = Reservation(d, t, s, None)]
      /\ used' = [used EXCEPT ![d] = TRUE]
      /\ UNCHANGED <<now, marker, work, sent, execs, rec>>
  BY DEF SweepReserve, Res
<1>3. /\ s \in Ids \cup Attempts \cup {NoAttempt} /\ None \in {None, "preparing", "ready"}
      /\ TypeOK /\ d \in Ids /\ res' = [res EXCEPT ![d] = Reservation(d, t, s, None)]
  BY <1>1, <1>2
<1>4. x \in CallState /\ x.pc = "invoke" /\ x.res = d
  BY <1>1, TimesAreNat DEF CallState
<1>5. call' = [call EXCEPT ![s] = x]
  BY Parts DEF SweepReserve, CallState
<1> HIDE DEF x
<1>6. quota' \in QuotaDocument /\ quota'.active = d
  BY <1>1, <1>2, <1>3 DEF TypeOK, QuotaDocument
<1>7. /\ res' \in [Ids -> ReservationDocument] /\ res'[d].settle = "pending"
      /\ res'[d].attempt = s
      /\ \A q \in Ids : q # d => res'[q] = res[q]
  <2>1. quota.last \in Times \cup {None}
    BY <1>3 DEF TypeOK, QuotaDocument
  <2>2. /\ Reservation(d, t, s, None) \in ReservationDocument
        /\ Reservation(d, t, s, None).settle = "pending"
        /\ Reservation(d, t, s, None).attempt = s
    BY <1>3, <2>1 DEF Reservation, ReservationDocument
  <2> QED BY <1>3, <2>2, Written
<1>8. /\ call' \in [Callers -> CallState] /\ call'[s] = x
      /\ \A c \in Callers : c # s => call'[c] = call[c]
  BY <1>1, <1>4, <1>5, Moved
<1>9. used' \in [Days -> BOOLEAN] /\ \A e \in Days : used'[e] = IF e = d THEN TRUE ELSE used[e]
  BY <1>1, <1>2 DEF TypeOK
<1>10. TypeOK'
  BY <1>1, <1>2, <1>6, <1>7, <1>8, <1>9 DEF TypeOK
<1>11. ~Started(d)
  BY <1>1, <1>2, Parts DEF ResInv
<1>12. "invoke" \in Controls(s) /\ "asked" \notin {"done"} \cup Unsent
  BY DEF Controls, Crossing, Unsent
<1>13. /\ call[s].pc \notin {"done"} \cup Unsent /\ call'[s].res = d
       /\ call'[s].pc = IF d \in Manual THEN "reserved" ELSE "invoke"
       /\ call'[s].pc \in Controls(s)
  BY <1>1, <1>4, <1>8, <1>12
<1>14. /\ quota.active = None /\ UNCHANGED <<marker, sent, execs, rec>>
       /\ s \in Callers /\ d \in Ids /\ d \in Mine(s) /\ d \notin Manual
  BY <1>1, <1>2
<1> QED BY <1>6, <1>7, <1>8, <1>9, <1>10, <1>11, <1>13, <1>14, Take

LEMMA BeginStep ==
    ASSUME IndInv, NEW c \in Callers, Begin(c)
    PROVE  IndInv'
<1> DEFINE r == call[c].res
<1>1. /\ call[c].pc = "begin" /\ r \in Mine(c) /\ r \in Ids /\ r \in Manual
      /\ c \in Manual \cup Dispatchers /\ c \notin Attempts
  <2>1. call[c].pc = "begin" /\ call[c].pc \in Controls(c)
    BY Parts DEF Begin, At, CallerInv
  <2>2. c \in Manual \cup Dispatchers
    BY <2>1 DEF Controls, Crossing
  <2> QED BY <2>1, <2>2, ItsOwn, Apart
<1>2. CASE ~Begins(r)
  <2>1. Goto(c, After(c)) /\ UNCHANGED <<now, quota, res, used, marker, work, sent, execs, rec>>
    BY <1>2 DEF Begin, Res
  <2> QED BY <1>1, <2>1, AfterIs, OnlyGoto DEF Unsent
<1>3. CASE Begins(r)
  <2>1. /\ TypeOK /\ ControlInv /\ res[r].intent = "ready" /\ quota.active = r /\ Goto(c, "invoke")
        /\ res' = [res EXCEPT ![r].intent = "invoking"]
        /\ UNCHANGED <<now, quota, used, marker, work, sent, execs, rec>>
    BY <1>3, Parts DEF Begin, Res, Begins
  <2>2. /\ ~Started(r) /\ \A d \in Callers : call[d].pc \in Unsent => call[d].res # r
    BY <1>1, <2>1, Parts DEF ResInv, Fresh
  <2>3. /\ call' \in [Callers -> CallState] /\ call'[c].pc = "invoke" /\ call'[c].res = r
        /\ \A d \in Callers : d # c => call'[d] = call[d]
    BY <2>1, GotoIs DEF Pcs
  <2> DEFINE y == [res[r] EXCEPT !.intent = "invoking"]
  <2>4. y \in ReservationDocument /\ y.intent = "invoking" /\ y.settle = res[r].settle
        /\ y.attempt = res[r].attempt
    BY <1>1, Parts DEF ReservationDocument, IntentStatuses
  <2>5. res' = [res EXCEPT ![r] = y]
    BY <2>1 DEF TypeOK
  <2> HIDE DEF y
  <2>6. /\ res' \in [Ids -> ReservationDocument] /\ res'[r] = y
        /\ \A q \in Ids : q # r => res'[q] = res[q]
    BY <1>1, <2>1, <2>4, <2>5, Written
  <2>7. \A q \in Ids : res'[q].settle = res[q].settle /\ res'[q].attempt = res[q].attempt
    BY <2>4, <2>6
  <2>8. /\ \A q \in Ids : Started(q)' <=> Started(q)
        /\ Attempts \subseteq Callers /\ Days \subseteq Ids /\ Manual \subseteq Ids
    BY <2>1, CallerKinds, Parts DEF Started
  <2> HIDE DEF r
  <2>9. TypeOK'
    BY <2>1, <2>3, <2>6 DEF TypeOK
  <2>10. SlotInv'
    BY <2>1, <2>7 DEF ControlInv, SlotInv
  <2>11. \A d \in Callers : CallerInv(d)'
    <3>1. CallerInv(c)'
      BY <1>1, <2>3 DEF CallerInv, Controls, Crossing
    <3>2. \A d \in Callers : d # c => CallerInv(d)'
      BY <2>1, <2>3 DEF ControlInv, CallerInv
    <3> QED BY <3>1, <3>2
  <2>12. OnceInv' /\ RunInv'
    BY <2>1 DEF ControlInv, OnceInv, RunInv
  <2>13. \A q \in Ids : ResInv(q)'
    <3> SUFFICES ASSUME NEW q \in Ids PROVE ResInv(q)'
      OBVIOUS
    <3>1. ResInv(q)
      BY <2>1 DEF ControlInv
    <3>2. CASE q # r
      BY <2>1, <2>3, <2>6, <2>8, <3>1, <3>2 DEF ResInv
    <3>3. CASE q = r
      <4>1. res'[q].intent \notin Fresh
        BY <2>4, <2>6, <3>3, Apart DEF Fresh, IntentStatuses
      <4>2. res[q].settle # "none"
        BY <2>1, <3>3, <1>1, <3>1, Apart DEF ResInv, IntentStatuses
      <4> QED BY <2>1, <2>7, <2>8, <3>1, <4>1, <4>2 DEF ResInv
    <3> QED BY <3>2, <3>3
  <2>14. \A d \in Callers : UnsentInv(d)'
    <3> SUFFICES ASSUME NEW d \in Callers, call'[d].pc \in Unsent PROVE UnsentInv(d)'
      BY DEF UnsentInv
    <3>1. \A f \in Callers : f # c /\ call'[f].pc \in Unsent => call'[f].res # r
      BY <2>2, <2>3
    <3>2. CASE d = c
      BY <1>1, <2>1, <2>2, <2>3, <2>8, <3>1, <3>2 DEF UnsentInv
    <3>3. CASE d # c
      <4>1. UnsentInv(d) /\ call'[d] = call[d] /\ call[d].res \in Ids
        BY <2>3, <3>3, Parts, ItsOwn DEF Unsent
      <4>2. ASSUME NEW f \in Callers, call'[f].pc \in Unsent, call'[f].res = call[d].res,
                   call[d].res \in Manual
            PROVE  f = d
        <5>1. f # c
          BY <2>3, <3>1, <3>3, <4>1, <4>2
        <5> QED BY <2>3, <4>1, <4>2, <5>1 DEF UnsentInv
      <4> QED BY <2>1, <2>7, <2>8, <4>1, <4>2 DEF UnsentInv
    <3> QED BY <3>2, <3>3
  <2>15. \A d \in Ids : \A s : NeverStartedBy(d, s) => NeverStartedBy(d, s)'
    <3> SUFFICES ASSUME NEW d \in Ids, NEW s, NeverStartedBy(d, s) PROVE NeverStartedBy(d, s)'
      OBVIOUS
    <3>1. s \in Callers /\ s # c
      BY <1>1, <2>8 DEF NeverStartedBy
    <3> QED BY <2>3, <2>7, <2>8, <3>1 DEF NeverStartedBy
  <2>16. \A d \in Days : MarkInv(d)'
    BY <2>1, <2>8, <2>15 DEF ControlInv, MarkInv
  <2>17. \A k \in Reconcilers : RecInv(k)'
    BY <2>1, <2>8, <2>15 DEF ControlInv, RecInv
  <2>18. \A q \in Manual : Deserved(q, res[q].settle)'
    BY <2>1, <2>7, <2>8 DEF ControlInv, Deserved
  <2> QED BY <2>9, <2>10, <2>11, <2>12, <2>13, <2>14, <2>16, <2>17, <2>18 DEF IndInv, ControlInv
<1> QED BY <1>2, <1>3

LEMMA InvokeStep ==
    ASSUME IndInv, NEW c \in Callers, Invoke(c)
    PROVE  IndInv'
<1> DEFINE r == call[c].res
<1>1. /\ TypeOK /\ ControlInv /\ call[c].pc = "invoke" /\ call[c].pc \in Unsent
      /\ r \in Mine(c) /\ r \in Ids /\ UnsentInv(c)
      /\ (c \in Attempts <=> r \in Days) /\ (c \in Admin <=> r \in Admin)
      /\ sent' = sent \cup {r} /\ Goto(c, "waiting")
      /\ UNCHANGED <<now, quota, res, used, marker, work, execs, rec>>
  BY Parts, ItsOwn DEF Invoke, At, Res, Unsent
<1>2. /\ quota.active = r /\ res[r].settle = "pending" /\ ~Started(r)
      /\ c \in Attempts => res[r].attempt = c
  <2>1. quota.active = r /\ (c \in Attempts => res[r].attempt = c)
    BY <1>1 DEF UnsentInv
  <2>2. ~Started(r)
    BY <1>1, <2>1 DEF UnsentInv
  <2> QED BY <1>1, <2>1, <2>2 DEF ControlInv, SlotInv
<1>3. /\ call' \in [Callers -> CallState] /\ call'[c].pc = "waiting" /\ call'[c].res = r
      /\ \A d \in Callers : d # c => call'[d] = call[d]
  BY <1>1, GotoIs DEF Pcs
<1>4. /\ \A q \in Ids : q # r => (Started(q)' <=> Started(q))
      /\ Attempts \subseteq Callers /\ Days \subseteq Ids /\ Manual \subseteq Ids
      /\ Admin \subseteq Callers
  BY <1>1, CallerKinds, Parts DEF Started
<1> HIDE DEF r
<1>5. TypeOK'
  BY <1>1, <1>3 DEF TypeOK
<1>6. SlotInv'
  BY <1>1 DEF ControlInv, SlotInv
<1>7. \A d \in Callers : CallerInv(d)'
  <2>1. CallerInv(c)'
    BY <1>1, <1>3 DEF CallerInv, Controls, Crossing
  <2>2. \A d \in Callers : d # c => CallerInv(d)'
    BY <1>1, <1>3 DEF ControlInv, CallerInv
  <2> QED BY <2>1, <2>2
<1>8. OnceInv'
  BY <1>1, <1>2 DEF ControlInv, OnceInv, Started
<1>9. RunInv'
  BY <1>1, <1>2 DEF ControlInv, RunInv
<1>10. \A d \in Callers : d # c /\ call[d].pc \in Unsent /\ call[d].res = r => d \in Attempts
  <2> SUFFICES ASSUME NEW d \in Callers, d # c, call[d].pc \in Unsent, call[d].res = r
               PROVE  d \in Attempts
    OBVIOUS
  <2>1. /\ d \in Attempts <=> r \in Days
        /\ d \in Admin <=> r \in Admin
        /\ d \in Manual \cup Admin => r = d
    BY ItsOwn DEF Unsent
  <2>2. r \notin Manual
    BY <1>1 DEF UnsentInv, r
  <2>3. r \notin Admin
    <3> SUFFICES ASSUME r \in Admin PROVE FALSE
      OBVIOUS
    <3>1. c \in Admin /\ r = d
      BY <1>1, <2>1
    <3>2. call[c].res = c
      BY <1>1, <3>1, ItsOwn
    <3> QED BY <3>1, <3>2 DEF r
  <2> QED BY <1>1, <2>1, <2>2, <2>3 DEF Ids
<1>11. \A q \in Ids : ResInv(q)'
  <2> SUFFICES ASSUME NEW q \in Ids PROVE ResInv(q)'
    OBVIOUS
  <2>1. ResInv(q)
    BY <1>1 DEF ControlInv
  <2>2. CASE q # r
    BY <1>1, <1>3, <1>4, <2>1, <2>2 DEF ResInv
  <2>3. CASE q = r
    <3>1. r \in Manual => res[r].intent \notin Fresh
      BY <1>1, <2>1, <2>3 DEF ResInv, r
    <3> QED BY <1>1, <1>2, <2>1, <2>3, <3>1 DEF ResInv
  <2> QED BY <2>2, <2>3
<1>12. \A d \in Callers : UnsentInv(d)'
  <2> SUFFICES ASSUME NEW d \in Callers, call'[d].pc \in Unsent PROVE UnsentInv(d)'
    BY DEF UnsentInv
  <2>1. /\ d # c /\ call'[d] = call[d] /\ UnsentInv(d) /\ call[d].res \in Ids
        /\ \A f \in Callers : call'[f].pc \in Unsent => f # c /\ call'[f] = call[f]
    BY <1>3, Parts, ItsOwn DEF Unsent
  <2>2. Started(call[d].res)' => d \in Attempts /\ res[call[d].res].attempt # d
    <3>1. CASE call[d].res # r
      BY <1>4, <2>1, <3>1 DEF UnsentInv
    <3>2. CASE call[d].res = r
      <4>1. d \in Attempts
        BY <1>10, <2>1, <3>2
      <4>2. r \in Days
        BY <2>1, <3>2, <4>1, ItsOwn DEF Unsent
      <4> QED BY <1>1, <1>2, <2>1, <3>2, <4>1, <4>2
    <3> QED BY <3>1, <3>2
  <2> QED BY <1>1, <2>1, <2>2 DEF UnsentInv
<1>13. \A d \in Days : \A s : NeverStartedBy(d, s) => NeverStartedBy(d, s)'
  <2> SUFFICES ASSUME NEW d \in Days, NEW s, NeverStartedBy(d, s) PROVE NeverStartedBy(d, s)'
    OBVIOUS
  <2>1. s \in Callers /\ s # c /\ s \in Attempts
    BY <1>1, <1>4 DEF NeverStartedBy
  <2>2. call'[s].pc = "done"
    BY <1>3, <2>1 DEF NeverStartedBy
  <2>3. Started(d)' => res[d].attempt # s
    <3>1. CASE d # r
      BY <1>4, <3>1 DEF NeverStartedBy
    <3>2. CASE d = r
      <4>1. c \in Attempts => res[r].attempt # s
        BY <1>2, <2>1
      <4>2. CASE c \notin Attempts
        <5>1. r \notin Days
          BY <1>1, <4>2
        <5> QED BY <1>1, <4>2, <5>1, <3>2
      <4> QED BY <3>2, <4>1, <4>2
    <3> QED BY <3>1, <3>2
  <2> QED BY <1>1, <2>1, <2>2, <2>3 DEF NeverStartedBy
<1>14. \A d \in Days : MarkInv(d)'
  BY <1>1, <1>4, <1>13 DEF ControlInv, MarkInv
<1>15. \A k \in Reconcilers : RecInv(k)'
  BY <1>1, <1>4, <1>13 DEF ControlInv, RecInv
<1>16. \A q \in Manual : Deserved(q, res[q].settle)'
  BY <1>1 DEF ControlInv, Deserved
<1> QED BY <1>5, <1>6, <1>7, <1>8, <1>9, <1>11, <1>12, <1>14, <1>15, <1>16 DEF IndInv, ControlInv

-----------------------------------------------------------------------------
(* Every step, and the theorems.                                           *)

LEMMA CallerStep ==
    ASSUME IndInv, NEW c \in Callers, CallerNext(c)
    PROVE  IndInv'
BY BeginStep, InvokeStep, RefusedStep, AnswerStep, NoAnswerStep, AcceptedStep, LinkFailsStep,
   RejectedStep, ReleaseFailsStep, MarkStep, UnknownStep, CrashStep DEF CallerNext

LEMMA DispatcherStep ==
    ASSUME IndInv, NEW d \in Dispatchers, DispatcherNext(d)
    PROVE  IndInv'
BY ClaimStep, PreparedStep, PreparationFailsStep, FinishStep DEF DispatcherNext

LEMMA RecStep ==
    ASSUME IndInv, NEW k \in Reconcilers, RecNext(k)
    PROVE  IndInv'
BY RecReadStep, RecConfirmedStep, RecFetchStep, RecReleaseStep, RecLinkStep, RecSettleStep,
   RecDropStep DEF RecNext

LEMMA StutterStep ==
    ASSUME IndInv, UNCHANGED vars
    PROVE  IndInv'
<1>1. CallsGoOn /\ call' \in [Callers -> CallState]
  BY Parts, CallsRest DEF vars
<1>2. Stays /\ IntentsGoOn /\ StoreTypes
  BY NothingWritten DEF vars
<1> QED BY <1>1, <1>2, Parts, CallerGoesOn DEF vars

LEMMA StepInv == IndInv /\ [Next]_vars => IndInv'
<1> SUFFICES ASSUME IndInv, [Next]_vars PROVE IndInv'
  OBVIOUS
<1>1. CASE \E r \in Manual : Run(r) \/ Continue(r) \/ Exhaust(r)
  BY <1>1, RunStep, ContinueStep, ExhaustStep
<1>2. CASE \E r, failed \in Manual : Retry(r, failed)
  BY <1>2, RunStep DEF Retry
<1>3. CASE \E a \in Admin : Trigger(a)
  BY <1>3, TriggerStep
<1>4. CASE \E s \in Attempts : SweepStart(s) \/ SweepReserve(s)
  BY <1>4, SweepStartStep, SweepReserveStep
<1>5. CASE \E d \in Dispatchers : DispatcherNext(d)
  BY <1>5, DispatcherStep
<1>6. CASE \E c \in Callers : CallerNext(c)
  BY <1>6, CallerStep
<1>7. CASE \E r \in sent : Accept(r) \/ Lose(r)
  BY <1>7, AcceptStep, LoseStep
<1>8. CASE \E e \in DOMAIN execs, status \in ExecStatuses \ {"running"} : End(e, status)
  BY <1>8, EndStep
<1>9. CASE \E k \in Reconcilers : RecNext(k)
  BY <1>9, RecStep
<1>10. CASE Tick
  BY <1>10, TickStep
<1>11. CASE UNCHANGED vars
  BY <1>11, StutterStep
<1> QED BY <1>1, <1>2, <1>3, <1>4, <1>5, <1>6, <1>7, <1>8, <1>9, <1>10, <1>11 DEF Next

\* The documents, callers, executions and reconcilers keep their types
\* (firestore/quota.go, pipeline_quota_reconciler.go).
THEOREM QuotaTypes == Spec => []TypeOK
<1>1. IndInv => TypeOK
  BY DEF IndInv
<1> QED BY InitInv, StepInv, <1>1, PTL DEF Spec

\* The slot of the quota document is held by the one reservation that is not
\* settled, and by nobody when there is none.
THEOREM SlotHeldByPending == Spec => []SlotIsPending
<1>1. IndInv => SlotIsPending
  <2> SUFFICES ASSUME IndInv PROVE SlotIsPending
    OBVIOUS
  <2>1. /\ \A r \in Ids : res[r].settle = "pending" <=> quota.active = r
        /\ quota.active \in Ids \cup {None}
    BY DEF IndInv, ControlInv, SlotInv, TypeOK, QuotaDocument
  <2> QED BY <2>1, NoneIsNoId DEF SlotIsPending
<1> QED BY InitInv, StepInv, <1>1, PTL DEF Spec

\* What runs or may still be started holds the slot, so two runs of a project
\* never overlap, however late an acceptance comes.
THEOREM RunsDoNotOverlap == Spec => []RunsHoldSlot
<1>1. IndInv => RunsHoldSlot
  BY DEF IndInv, ControlInv, RunInv, RunsHoldSlot
<1> QED BY InitInv, StepInv, <1>1, PTL DEF Spec

\* A reservation is invoked once at most, whoever continues or retries it.
THEOREM StartedOnce == Spec => []InvokedOnce
<1>1. IndInv => InvokedOnce
  <2> SUFFICES ASSUME IndInv, NEW r \in Ids
               PROVE  Cardinality(ExecsOf(r)) + Cardinality(sent \cap {r}) <= 1
    BY DEF InvokedOnce
  <2>1. /\ r \in sent => ExecsOf(r) = {}
        /\ \A e, f \in ExecsOf(r) : e = f
    BY DEF IndInv, ControlInv, OnceInv, ExecsOf
  <2>2. ExecsOf(r) = {} \/ \E e : ExecsOf(r) = {e}
    BY <2>1
  <2>3. /\ Cardinality({}) = 0
        /\ \A e : Cardinality({e}) = 1
    BY FS_EmptySet, FS_Singleton
  <2>4. CASE r \in sent
    <3>1. ExecsOf(r) = {} /\ sent \cap {r} = {r}
      BY <2>1, <2>4
    <3>2. Cardinality(ExecsOf(r)) = 0 /\ Cardinality(sent \cap {r}) = 1
      BY <2>3, <3>1
    <3> QED BY <3>2
  <2>5. CASE r \notin sent
    <3>1. sent \cap {r} = {}
      BY <2>5
    <3>2. Cardinality(sent \cap {r}) = 0 /\ Cardinality(ExecsOf(r)) \in {0, 1}
      BY <2>2, <2>3, <3>1
    <3> QED BY <3>2
  <2> QED BY <2>4, <2>5
<1> QED BY InitInv, StepInv, <1>1, PTL DEF Spec

\* A run is only refunded or released if it failed or never ran, and only
\* charged if it ran to its end.
THEOREM ChargesAreDeserved == Spec => []ChargeIsDeserved
<1>1. IndInv => ChargeIsDeserved
  <2> SUFFICES ASSUME IndInv PROVE ChargeIsDeserved
    OBVIOUS
  <2>1. /\ \A r \in Manual : Deserved(r, res[r].settle)
        /\ \A r \in Ids : res[r].settle = "released" => ExecsOf(r) = {}
    BY DEF IndInv, ControlInv, ResInv, Started, ExecsOf
  <2>2. Manual \subseteq Ids /\ Days \subseteq Ids
    BY DEF Ids
  <2> QED BY <2>1, <2>2 DEF ChargeIsDeserved, Deserved, ExecsOf
<1> QED BY InitInv, StepInv, <1>1, PTL DEF Spec

-----------------------------------------------------------------------------
(* The budget.  Only the reservation in the slot is unsettled, so that the *)
(* clock it found when it was admitted is the one it has to give back.     *)

\* The reservations of a user's budget; an admin's run is on nobody's.
Budgeted == Manual \cup Days

\* t is the time of the newest run in S.
Newest(t, S) ==
    IF S = {} THEN t = None
    ELSE (\E r \in S : t = res[r].at) /\ \A r \in S : res[r].at <= t

RunsOf(day) == {r \in Counted \cap Manual : Day(res[r].at) = day}

BudgetInv ==
    /\ quota.runs = Cardinality(RunsOf(quota.day))
    /\ Newest(quota.last, Counted)
    /\ \A r \in Budgeted : res[r].settle = "pending" =>
         quota.last = res[r].at /\ Newest(res[r].prev, Counted \ {r})
    /\ \A r \in Manual : res[r].settle # "none" =>
         quota.day # None /\ Day(res[r].at) <= quota.day
    /\ quota.day # None => quota.day <= Day(now)

\* What a step does to the budget: nothing, ...
SameBudget == /\ quota'.day = quota.day /\ quota'.runs = quota.runs /\ quota'.last = quota.last
SameRun(r) == /\ res'[r].settle = res[r].settle /\ res'[r].at = res[r].at
              /\ res'[r].prev = res[r].prev
Untouched  == SameBudget /\ \A r \in Budgeted : SameRun(r)

\* ... r is charged, ...
Charges(r) ==
    /\ SameBudget
    /\ res[r].settle = "pending" /\ res'[r].settle = "charged" /\ res'[r].at = res[r].at
    /\ \A q \in Budgeted : q # r => SameRun(q)

\* ... gives back what it took, ...
Returns(r) ==
    /\ res[r].settle = "pending" /\ res'[r].settle \in {"released", "refunded"}
    /\ res'[r].at = res[r].at
    /\ \A q \in Budgeted : q # r => SameRun(q)
    /\ quota'.day = quota.day
    /\ quota'.runs = IF r \in Manual /\ quota.day = Day(res[r].at) /\ quota.runs > 0
                     THEN quota.runs - 1 ELSE quota.runs
    /\ quota'.last = IF quota.last = res[r].at THEN res[r].prev ELSE quota.last

\* ... or is admitted at the time t.
Admits(r, t) ==
    /\ \A q \in Budgeted : res[q].settle # "pending"
    /\ res[r].settle # "charged"
    /\ res'[r].settle = "pending" /\ res'[r].at = t /\ res'[r].prev = quota.last
    /\ \A q \in Budgeted : q # r => SameRun(q)
    /\ quota.last # None => quota.last < t
    /\ quota'.last = t
    /\ r \in Manual =>
         /\ res[r].settle = "none" /\ t = now
         /\ quota'.day = Day(now) /\ quota'.runs = RunsOn(now) + 1
    /\ r \notin Manual => quota'.day = quota.day /\ quota'.runs = quota.runs

Effect ==
    \/ Untouched
    \/ \E r \in Budgeted : Charges(r) \/ Returns(r)
    \/ \E r \in Budgeted, t \in Times : Admits(r, t)

LEMMA DaysInOrder ==
    ASSUME NEW s \in Times, NEW t \in Times, s <= t
    PROVE  Day(s) <= Day(t)
<1> /\ TicksPerDay \in Nat \ {0} /\ s \in Nat /\ t \in Nat
  BY QuotaAssumption DEF Times
<1> QED BY Z3 DEF Day

LEMMA BudgetTypes ==
    ASSUME TypeOK
    PROVE  /\ now \in Nat /\ quota.runs \in Nat /\ quota.last \in Nat \cup {None}
           /\ quota.day \in Int \cup {None} /\ None \notin Int
           /\ Budgeted \subseteq Ids /\ Manual \cap Days = {}
           /\ \A r \in Budgeted : /\ res[r].at \in Nat /\ Day(res[r].at) \in Int
                                  /\ res[r].prev \in Nat \cup {None}
           /\ now \in Times /\ \A r \in Budgeted : res[r].at \in Times
<1>1. /\ now \in Times /\ quota \in QuotaDocument /\ None \notin Int
      /\ Budgeted \subseteq Ids /\ Manual \cap Days = {} /\ Days \subseteq Int
  BY QuotaAssumption, Apart DEF TypeOK, Budgeted, Ids
<1>2. \A r \in Budgeted : res[r] \in ReservationDocument
  BY <1>1 DEF TypeOK
<1>3. quota.runs \in Nat /\ quota.last \in Nat \cup {None} /\ quota.day \in Int \cup {None}
  BY <1>1, TimesAreNat DEF QuotaDocument
<1>4. \A r \in Budgeted : /\ res[r].at \in Times /\ res[r].prev \in Times \cup {None}
  BY <1>2 DEF ReservationDocument
<1>5. \A r \in Budgeted : Day(res[r].at) \in Int
  BY <1>1, <1>4, DayOfTime
<1> QED BY <1>1, <1>3, <1>4, <1>5, TimesAreNat

\* The runs of a day are finitely many.
LEMMA FiniteRuns ==
    ASSUME NEW day
    PROVE  IsFiniteSet(RunsOf(day)) /\ Cardinality(RunsOf(day)) \in Nat
<1>1. IsFiniteSet(Manual) /\ RunsOf(day) \subseteq Manual
  BY QuotaAssumption DEF RunsOf
<1> QED BY <1>1, FS_Subset, FS_CardinalityType

\* The parts of BudgetInv that only the newest run's day and the clock decide.
DayInv ==
    /\ \A r \in Manual : res[r].settle # "none" =>
         quota.day # None /\ Day(res[r].at) <= quota.day
    /\ quota.day # None => quota.day <= Day(now)

\* Nothing is admitted and the clock does not go back.
LEMMA DaysStay ==
    ASSUME TypeOK, TypeOK', DayInv, now <= now', quota'.day = quota.day,
           \A r \in Manual : /\ res'[r].at = res[r].at
                             /\ res[r].settle = "none" => res'[r].settle = "none"
    PROVE  DayInv'
<1>1. quota.day # None => quota.day <= Day(now)'
  <2>1. now \in Times /\ now' \in Times
    BY DEF TypeOK
  <2>2. Day(now) <= Day(now') /\ Day(now) \in Int /\ Day(now') \in Int
    BY <2>1, DaysInOrder, DayOfTime, Apart
  <2>3. quota.day \in Int \cup {None}
    BY BudgetTypes
  <2> QED BY <2>2, <2>3 DEF DayInv
<1> QED BY <1>1 DEF DayInv

\* Nothing changes but the time.
LEMMA BudgetWaits ==
    ASSUME TypeOK, TypeOK', BudgetInv, Untouched, now <= now'
    PROVE  BudgetInv'
<1>1. /\ Counted' = Counted
      /\ \A r \in Counted : res'[r].at = res[r].at
  BY DEF Counted, Untouched, SameRun, Budgeted
<1>2. \A day : RunsOf(day)' = RunsOf(day)
  BY <1>1 DEF RunsOf
<1>3. quota'.runs = Cardinality(RunsOf(quota.day)')
  BY <1>2 DEF BudgetInv, Untouched, SameBudget
<1>4. Newest(quota.last, Counted)'
  BY <1>1 DEF BudgetInv, Untouched, SameBudget, Newest
<1>5. ASSUME NEW r \in Budgeted, res'[r].settle = "pending"
      PROVE  quota'.last = res'[r].at /\ Newest(res[r].prev, Counted \ {r})'
  <2>1. /\ res[r].settle = "pending" /\ res'[r].at = res[r].at /\ res'[r].prev = res[r].prev
        /\ quota'.last = quota.last
    BY <1>5 DEF Untouched, SameRun, SameBudget
  <2>2. quota.last = res[r].at /\ Newest(res[r].prev, Counted \ {r})
    BY <2>1 DEF BudgetInv
  <2> QED BY <1>1, <2>1, <2>2 DEF Newest
<1>6. DayInv'
  <2>1. \A r \in Manual : res'[r].at = res[r].at /\ res'[r].settle = res[r].settle
    BY DEF Untouched, SameRun, Budgeted
  <2> QED BY <2>1, DaysStay DEF BudgetInv, DayInv, Untouched, SameBudget
<1> QED BY <1>3, <1>4, <1>5, <1>6 DEF BudgetInv, DayInv

\* A charged run stays on the budget.
LEMMA BudgetCharges ==
    ASSUME TypeOK, TypeOK', BudgetInv, now' = now, NEW r \in Budgeted, Charges(r),
           \A q \in Budgeted : res[q].settle = "pending" => q = r
    PROVE  BudgetInv'
<1>1. /\ Counted' = Counted
      /\ \A q \in Budgeted : res'[q].at = res[q].at
      /\ \A q \in Budgeted : res'[q].settle # "pending"
  BY DEF Counted, Charges, SameRun, Budgeted
<1>2. \A day : RunsOf(day)' = RunsOf(day)
  BY <1>1 DEF RunsOf, Budgeted
<1>3. quota'.runs = Cardinality(RunsOf(quota.day)')
  BY <1>2 DEF BudgetInv, Charges, SameBudget
<1>4. Newest(quota.last, Counted)'
  BY <1>1 DEF BudgetInv, Charges, SameBudget, Newest, Counted, Budgeted
<1>5. DayInv'
  <2>1. \A q \in Manual : res'[q].at = res[q].at /\ (res[q].settle = "none" => res'[q].settle = "none")
    BY <1>1 DEF Charges, SameRun, Budgeted
  <2>2. now <= now'
    BY BudgetTypes
  <2> QED BY <2>1, <2>2, DaysStay DEF BudgetInv, DayInv, Charges, SameBudget
<1> QED BY <1>1, <1>3, <1>4, <1>5 DEF BudgetInv, DayInv

\* A run that failed or never started gives back its place and the clock.
LEMMA BudgetReturns ==
    ASSUME TypeOK, TypeOK', BudgetInv, now' = now, NEW r \in Budgeted, Returns(r),
           \A q \in Budgeted : res[q].settle = "pending" => q = r
    PROVE  BudgetInv'
<1>1. /\ Counted' = Counted \ {r} /\ r \in Counted
      /\ \A q \in Budgeted : res'[q].at = res[q].at
      /\ \A q \in Budgeted : res'[q].settle # "pending"
  BY DEF Counted, Returns, SameRun, Budgeted
<1>2. RunsOf(quota.day)' = RunsOf(quota.day) \ {r}
  BY <1>1 DEF RunsOf, Budgeted, Returns
<1>3. quota'.runs = Cardinality(RunsOf(quota.day)')
  <2>1. IsFiniteSet(RunsOf(quota.day)) /\ quota.runs = Cardinality(RunsOf(quota.day))
    BY FiniteRuns DEF BudgetInv
  <2>2. r \in RunsOf(quota.day) <=> r \in Manual /\ Day(res[r].at) = quota.day
    BY <1>1 DEF RunsOf
  <2>3. Cardinality(RunsOf(quota.day) \ {r}) =
          IF r \in RunsOf(quota.day) THEN quota.runs - 1 ELSE quota.runs
    BY <2>1, FS_RemoveElement
  <2>4. r \in RunsOf(quota.day) => quota.runs # 0
    BY <2>1, FS_EmptySet
  <2>5. quota.runs \in Nat
    BY BudgetTypes
  <2> QED BY <1>2, <2>2, <2>3, <2>4, <2>5 DEF Returns
<1>4. Newest(quota.last, Counted)'
  <2>1. quota.last = res[r].at /\ Newest(res[r].prev, Counted \ {r})
    BY DEF BudgetInv, Returns
  <2>2. quota'.last = res[r].prev
    BY <2>1 DEF Returns
  <2> QED BY <1>1, <2>1, <2>2 DEF Newest, Counted, Budgeted
<1>5. DayInv'
  <2>1. \A q \in Manual : res'[q].at = res[q].at /\ (res[q].settle = "none" => res'[q].settle = "none")
    BY <1>1 DEF Returns, SameRun, Budgeted
  <2>2. now <= now'
    BY BudgetTypes
  <2> QED BY <2>1, <2>2, DaysStay DEF BudgetInv, DayInv, Returns
<1> QED BY <1>1, <1>3, <1>4, <1>5 DEF BudgetInv, DayInv

\* A run that is admitted is the newest one, and the first of its day if the
\* document is of an earlier one.
LEMMA BudgetAdmits ==
    ASSUME TypeOK, TypeOK', BudgetInv, now' = now, NEW r \in Budgeted, NEW t \in Times, Admits(r, t)
    PROVE  BudgetInv'
<1>1. /\ Counted' = Counted \cup {r} /\ r \notin Counted
      /\ \A q \in Counted : res'[q].at = res[q].at /\ res'[q].settle = res[q].settle
      /\ \A q \in Budgeted : res'[q].settle = "pending" => q = r
      /\ res'[r].at = t /\ res'[r].prev = quota.last /\ quota'.last = t
  BY DEF Counted, Admits, SameRun, Budgeted
<1>2. /\ t \in Nat /\ quota.last \in Nat \cup {None} /\ None \notin Int
      /\ \A q \in Counted : res[q].at \in Nat
  BY BudgetTypes, TimesAreNat DEF Counted, Budgeted
<1>3. Newest(quota.last, Counted)'
  <2>1. \A q \in Counted : res[q].at < t
    BY <1>2 DEF BudgetInv, Newest, Admits
  <2>2. \A q \in Counted \cup {r} : res'[q].at <= t
    BY <1>1, <1>2, <2>1
  <2> QED BY <1>1, <2>2 DEF Newest
<1>4. Newest(quota.last, Counted \ {r})
  BY <1>1 DEF BudgetInv
<1>5. \A q \in Budgeted : res'[q].settle = "pending" =>
        quota'.last = res'[q].at /\ Newest(res[q].prev, Counted \ {q})'
  <2> SUFFICES quota'.last = res'[r].at /\ Newest(res[r].prev, Counted \ {r})'
    BY <1>1
  <2>1. (Counted \ {r})' = Counted \ {r}
    BY <1>1
  <2> QED BY <1>1, <1>4, <2>1 DEF Newest
<1>6. quota'.runs = Cardinality(RunsOf(quota.day)') /\ DayInv'
  <2>1. CASE r \in Manual
    <3>1. t = now /\ quota'.day = Day(now) /\ quota'.runs = RunsOn(now) + 1
      BY <2>1 DEF Admits
    <3>2. \A q \in Manual : res[q].settle # "none" => Day(res[q].at) <= quota.day /\ quota.day <= Day(now)
      BY DEF BudgetInv
    <3>3. /\ Day(now) \in Int /\ \A q \in Budgeted : Day(res[q].at) \in Int
          /\ quota.day \in Int \cup {None}
      BY BudgetTypes, DayOfTime, Apart
    <3>4. RunsOn(now) = Cardinality(RunsOf(Day(now)))
      <4>1. CASE quota.day = Day(now)
        BY <4>1 DEF RunsOn, BudgetInv
      <4>2. CASE quota.day # Day(now)
        <5>1. \A q \in Manual : res[q].settle # "none" => Day(res[q].at) # Day(now)
          BY <3>2, <3>3, <4>2 DEF BudgetInv, Budgeted
        <5>2. RunsOf(Day(now)) = {}
          BY <5>1 DEF RunsOf, Counted
        <5> QED BY <4>2, <5>2, FS_EmptySet DEF RunsOn
      <4> QED BY <4>1, <4>2
    <3>5. RunsOf(Day(now))' = RunsOf(Day(now)) \cup {r} /\ r \notin RunsOf(Day(now))
      BY <1>1, <2>1, <3>1 DEF RunsOf
    <3>6. Cardinality(RunsOf(Day(now)) \cup {r}) = RunsOn(now) + 1
      BY <3>4, <3>5, FiniteRuns, FS_AddElement
    <3>7. RunsOf(quota.day)' = RunsOf(Day(now)) \cup {r}
      BY <3>1, <3>5
    <3>8. \A q \in Manual \ {r} : res'[q].at = res[q].at /\ res'[q].settle = res[q].settle
      BY DEF Admits, SameRun, Budgeted
    <3>9. DayInv'
      <4>1. \A q \in Manual \ {r} : res'[q].settle # "none" => Day(res'[q].at) <= Day(now)
        BY <3>2, <3>3, <3>8 DEF BudgetInv, Budgeted
      <4>2. Day(res'[r].at) = Day(now) /\ Day(now) # None /\ Day(now)' = Day(now)
        BY <1>1, <1>2, <3>1, <3>3 DEF Day
      <4> QED BY <3>1, <3>3, <4>1, <4>2 DEF DayInv
    <3> QED BY <3>1, <3>6, <3>7, <3>9
  <2>2. CASE r \notin Manual
    <3>1. RunsOf(quota.day)' = RunsOf(quota.day) /\ quota'.runs = quota.runs
      BY <1>1, <2>2 DEF RunsOf, Admits
    <3>2. \A q \in Manual : res'[q].at = res[q].at /\ res'[q].settle = res[q].settle
      BY <2>2 DEF Admits, SameRun, Budgeted
    <3>3. now <= now'
      BY BudgetTypes
    <3> QED BY <2>2, <3>1, <3>2, <3>3, DaysStay DEF BudgetInv, DayInv, Admits
  <2> QED BY <2>1, <2>2
<1> QED BY <1>3, <1>5, <1>6 DEF BudgetInv, DayInv

\* Each step has one of these effects.
LEMMA NoEffect ==
    ASSUME UNCHANGED <<quota, res>>
    PROVE  Untouched
BY DEF Untouched, SameBudget, SameRun

LEMMA FieldsKept ==
    ASSUME TypeOK, NEW r \in Ids, NEW x, res' = [res EXCEPT ![r] = x],
           x.settle = res[r].settle, x.at = res[r].at, x.prev = res[r].prev
    PROVE  \A q \in Budgeted : SameRun(q)
<1>1. \A q \in Budgeted : res'[q] = IF q = r THEN x ELSE res[q]
  BY BudgetTypes DEF TypeOK
<1> QED BY <1>1 DEF SameRun

LEMMA IntentEffect ==
    ASSUME TypeOK, NEW r \in Ids, NEW i, res' = [res EXCEPT ![r].intent = i], quota' = quota
    PROVE  Untouched
<1> DEFINE x == [res[r] EXCEPT !.intent = i]
<1>1. res[r] \in ReservationDocument
  BY DEF TypeOK
<1>2. res' = [res EXCEPT ![r] = x]
  BY DEF TypeOK
<1>3. x.settle = res[r].settle /\ x.at = res[r].at /\ x.prev = res[r].prev
  BY <1>1 DEF ReservationDocument
<1> HIDE DEF x
<1> QED BY <1>2, <1>3, FieldsKept DEF Untouched, SameBudget

LEMMA LinkEffect ==
    ASSUME TypeOK, NEW r \in Ids, NEW e, Link(r, e), quota' = quota
    PROVE  Untouched
<1> DEFINE i == IF res[r].intent \in {None, "failed", "succeeded"} THEN res[r].intent
                ELSE "compiling"
           x == [res[r] EXCEPT !.exec = e, !.intent = i]
<1>1. res[r] \in ReservationDocument
  BY DEF TypeOK
<1>2. res' = [res EXCEPT ![r] = x]
  BY <1>1 DEF TypeOK, Link, ReservationDocument
<1> HIDE DEF i
<1>3. x.settle = res[r].settle /\ x.at = res[r].at /\ x.prev = res[r].prev
  BY <1>1 DEF ReservationDocument
<1> HIDE DEF x
<1> QED BY <1>2, <1>3, FieldsKept DEF Untouched, SameBudget

LEMMA RefundFields ==
    ASSUME TypeOK, NEW r \in Ids
    PROVE  /\ Refund(r).day = quota.day
           /\ Refund(r).runs = IF r \in Manual /\ quota.day = Day(res[r].at) /\ quota.runs > 0
                               THEN quota.runs - 1 ELSE quota.runs
           /\ Refund(r).last = IF r \notin Admin /\ quota.last = res[r].at THEN res[r].prev
                               ELSE quota.last
<1>1. quota \in QuotaDocument
  BY DEF TypeOK
<1> QED BY <1>1 DEF Refund, QuotaDocument

\* What becomes of r when it is settled, or released, as s.
LEMMA SettledAs ==
    ASSUME TypeOK, NEW r \in Ids, NEW s, NEW i,
           res' = [res EXCEPT ![r].settle = s, ![r].intent = i]
    PROVE  /\ r \in Budgeted => res'[r].settle = s /\ res'[r].at = res[r].at
           /\ \A q \in Budgeted : q # r => SameRun(q)
<1> DEFINE x == [res[r] EXCEPT !.settle = s, !.intent = i]
<1>1. res[r] \in ReservationDocument
  BY DEF TypeOK
<1>2. res' = [res EXCEPT ![r] = x]
  BY <1>1 DEF TypeOK, ReservationDocument
<1>3. x.settle = s /\ x.at = res[r].at
  BY <1>1 DEF ReservationDocument
<1> HIDE DEF x
<1>4. \A q \in Ids : res'[q] = IF q = r THEN x ELSE res[q]
  BY <1>2 DEF TypeOK
<1> QED BY <1>3, <1>4, BudgetTypes DEF SameRun

LEMMA ReleaseEffect ==
    ASSUME TypeOK, NEW r \in Ids, Release(r)
    PROVE  Effect
<1> DEFINE i == IF r \in Manual THEN "failed" ELSE res[r].intent
<1>1. /\ res[r].settle = "pending" /\ quota' = Refund(r)
      /\ res' = [res EXCEPT ![r].settle = "released", ![r].intent = i]
  <2>1. res[r] \in ReservationDocument
    BY DEF TypeOK
  <2> QED BY <2>1 DEF Release, Uninvoked, TypeOK, ReservationDocument
<1> HIDE DEF i
<1>2. /\ r \in Budgeted => res'[r].settle = "released" /\ res'[r].at = res[r].at
      /\ \A q \in Budgeted : q # r => SameRun(q)
  BY <1>1, SettledAs
<1>3. CASE r \in Budgeted
  <2>1. r \notin Admin
    BY <1>3, Apart DEF Budgeted
  <2>2. Returns(r)
    BY <1>1, <1>2, <1>3, <2>1, RefundFields DEF Returns
  <2> QED BY <1>3, <2>2 DEF Effect
<1>4. CASE r \notin Budgeted
  <2>1. r \notin Manual /\ r \in Admin
    BY <1>4 DEF Budgeted, Ids
  <2>2. SameBudget
    BY <1>1, <2>1, RefundFields DEF SameBudget
  <2> QED BY <1>2, <1>4, <2>2 DEF Effect, Untouched
<1> QED BY <1>3, <1>4

LEMMA ReleaseAttemptEffect ==
    ASSUME TypeOK, NEW r \in Ids, NEW attempt, ReleaseAttempt(r, attempt)
    PROVE  Effect
BY ReleaseEffect, NoEffect DEF ReleaseAttempt, Effect

LEMMA FailEffect ==
    ASSUME TypeOK, NEW r \in Manual, NEW expected, Fail(r, expected)
    PROVE  Effect
<1>1. r \in Ids
  BY DEF Ids
<1> QED BY <1>1, ReleaseEffect, NoEffect DEF Fail, Effect

LEMMA SettleEffect ==
    ASSUME TypeOK, NEW r \in Ids, NEW outcome, Settle(r, outcome)
    PROVE  Effect
<1>1. CASE res[r].settle # "pending"
  BY <1>1, NoEffect DEF Settle, Effect
<1>2. CASE res[r].settle = "pending"
  <2> DEFINE refunded == outcome = "failed" /\ r \in Manual
             s == IF r \in Admin THEN "not_applicable"
                  ELSE IF refunded THEN "refunded" ELSE "charged"
             i == IF res[r].intent = None THEN None ELSE outcome
  <2>1. /\ quota' = IF refunded THEN Refund(r) ELSE Vacate(r)
        /\ res' = [res EXCEPT ![r].settle = s, ![r].intent = i]
    <3>1. res[r] \in ReservationDocument
      BY DEF TypeOK
    <3> QED BY <1>2, <3>1 DEF Settle, TypeOK, ReservationDocument
  <2> HIDE DEF s, i
  <2>2. /\ r \in Budgeted => res'[r].settle = s /\ res'[r].at = res[r].at
        /\ \A q \in Budgeted : q # r => SameRun(q)
    BY <2>1, SettledAs
  <2>3. ~refunded => SameBudget
    <3>1. quota \in QuotaDocument
      BY DEF TypeOK
    <3> QED BY <2>1, <3>1 DEF Vacate, SameBudget, QuotaDocument
  <2>4. CASE r \in Budgeted
    <3>1. r \notin Admin
      BY <2>4, Apart DEF Budgeted
    <3>2. CASE refunded
      <4>1. Returns(r)
        BY <1>2, <2>1, <2>2, <2>4, <3>1, <3>2, RefundFields DEF Returns, s
      <4> QED BY <2>4, <4>1 DEF Effect
    <3>3. CASE ~refunded
      <4>1. Charges(r)
        BY <1>2, <2>2, <2>3, <2>4, <3>1, <3>3 DEF Charges, s
      <4> QED BY <2>4, <4>1 DEF Effect
    <3> QED BY <3>2, <3>3
  <2>5. CASE r \notin Budgeted
    <3>1. r \notin Manual
      BY <2>5 DEF Budgeted
    <3> QED BY <2>2, <2>3, <2>5, <3>1 DEF Effect, Untouched
  <2> QED BY <2>4, <2>5
<1> QED BY <1>1, <1>2

LEMMA RunEffect ==
    ASSUME IndInv, NEW r \in Manual, Run(r)
    PROVE  Effect /\ now' = now
<1> PICK intent \in {"preparing", "ready"} : ReserveManual(r, intent)
  BY DEF Run
<1>1. TypeOK /\ SlotInv /\ r \in Ids /\ r \in Budgeted /\ now \in Times
  BY Parts DEF ControlInv, Budgeted
<1>2. /\ quota.active = None /\ res[r].settle = "none" /\ ~CoolingDown(now) /\ now' = now
      /\ quota' = [active |-> r, day |-> Day(now), runs |-> RunsOn(now) + 1, last |-> now]
      /\ res' = [res EXCEPT ![r] = Reservation(r, now, r, intent)]
  BY DEF Run, ReserveManual
<1>3. \A q \in Budgeted : res[q].settle # "pending"
  BY <1>1, <1>2, NoneIsNoId, BudgetTypes DEF SlotInv
<1>4. \A q \in Budgeted : res'[q] = IF q = r THEN Reservation(r, now, r, intent) ELSE res[q]
  BY <1>1, <1>2, BudgetTypes DEF TypeOK
<1>5. quota.last # None => quota.last < now
  BY <1>1, <1>2, QuotaAssumption, BudgetTypes DEF CoolingDown
<1>6. Admits(r, now)
  BY <1>1, <1>2, <1>3, <1>4, <1>5 DEF Admits, SameRun, Reservation
<1> QED BY <1>1, <1>2, <1>6 DEF Effect

LEMMA SweepEffect ==
    ASSUME IndInv, NEW s \in Attempts, SweepReserve(s)
    PROVE  Effect /\ now' = now
<1>0. s \in Callers /\ call[s].pc = "asked" /\ call[s] \in CallState
  BY Parts, CallerKinds DEF SweepReserve, At
<1> PICK d \in Days : d = call[s].res
  BY <1>0, ItsOwn
<1> PICK t \in Times : t = call[s].at
  BY <1>0 DEF CallState
<1>1. /\ TypeOK /\ SlotInv /\ d \in Ids /\ d \in Budgeted /\ d \notin Manual
      /\ t \in Nat /\ quota \in QuotaDocument
  BY Parts, Apart, TimesAreNat DEF ControlInv, Budgeted, TypeOK
<1>2. /\ quota.active = None /\ ~used[d] /\ ~CoolingDown(t) /\ now' = now
      /\ quota' = [quota EXCEPT !.active = d, !.last = t]
      /\ res' = [res EXCEPT ![d] = Reservation(d, t, s, None)]
  BY DEF SweepReserve, Res
<1>3. \A q \in Budgeted : res[q].settle # "pending"
  BY <1>1, <1>2, NoneIsNoId, BudgetTypes DEF SlotInv
<1>4. \A q \in Budgeted : res'[q] = IF q = d THEN Reservation(d, t, s, None) ELSE res[q]
  BY <1>1, <1>2, BudgetTypes DEF TypeOK
<1>5. quota.last # None => quota.last < t
  BY <1>1, <1>2, QuotaAssumption, BudgetTypes DEF CoolingDown
<1>6. res[d].settle # "charged"
  BY <1>1, <1>2, Parts DEF ResInv
<1>7. quota'.last = t /\ quota'.day = quota.day /\ quota'.runs = quota.runs
  BY <1>1, <1>2 DEF QuotaDocument
<1>8. Admits(d, t)
  BY <1>1, <1>3, <1>4, <1>5, <1>6, <1>7 DEF Admits, SameRun, Reservation
<1> QED BY <1>1, <1>2, <1>8 DEF Effect

\* An admin's run takes the slot and nothing of the user's budget.
LEMMA TriggerEffect ==
    ASSUME IndInv, NEW a \in Admin, Trigger(a)
    PROVE  Effect /\ now' = now
<1>1. TypeOK /\ a \in Ids /\ quota \in QuotaDocument /\ a \notin Budgeted
  BY Parts, Apart DEF TypeOK, Budgeted
<1>2. /\ quota' = [quota EXCEPT !.active = a] /\ now' = now
      /\ res' = [res EXCEPT ![a] = Reservation(a, now, NoAttempt, None)]
  BY DEF Trigger
<1>3. SameBudget
  BY <1>1, <1>2 DEF QuotaDocument, SameBudget
<1>4. \A q \in Budgeted : res'[q] = res[q]
  BY <1>1, <1>2, BudgetTypes DEF TypeOK
<1> QED BY <1>2, <1>3, <1>4 DEF Effect, Untouched, SameRun

LEMMA ExhaustEffect ==
    ASSUME IndInv, NEW r \in Manual, Exhaust(r)
    PROVE  Effect /\ now' = now
<1>1. TypeOK /\ r \in Ids /\ now' = now
  BY Parts DEF Exhaust
<1>2. CASE res[r].intent \in {"preparing", "ready"}
  BY <1>1, <1>2, FailEffect DEF Exhaust
<1>3. CASE res[r].intent = "invoking"
  BY <1>1, <1>3, IntentEffect DEF Exhaust, Effect
<1>4. CASE res[r].intent \notin {"preparing", "ready", "invoking"}
  BY <1>1, <1>4, NoEffect DEF Exhaust, Effect
<1> QED BY <1>1, <1>2, <1>3, <1>4

LEMMA RequestEffect ==
    ASSUME IndInv,
           \/ \E r \in Manual : Run(r) \/ Continue(r) \/ Exhaust(r)
           \/ \E r, failed \in Manual : Retry(r, failed)
           \/ \E a \in Admin : Trigger(a)
           \/ \E s \in Attempts : SweepStart(s) \/ SweepReserve(s)
    PROVE  Effect /\ now' = now
<1>1. ASSUME NEW r \in Manual, Continue(r) PROVE Effect /\ now' = now
  BY <1>1, NoEffect DEF Continue, Effect
<1>2. ASSUME NEW s \in Attempts, SweepStart(s) PROVE Effect /\ now' = now
  BY <1>2, NoEffect DEF SweepStart, Effect
<1>3. ASSUME NEW r \in Manual, NEW failed \in Manual, Retry(r, failed) PROVE Run(r)
  BY <1>3 DEF Retry
<1> QED BY <1>1, <1>2, <1>3, RunEffect, ExhaustEffect, TriggerEffect, SweepEffect

LEMMA DispatcherEffect ==
    ASSUME IndInv, NEW d \in Dispatchers, DispatcherNext(d)
    PROVE  Effect /\ now' = now
<1>1. ASSUME NEW r \in Manual, Claim(d, r) PROVE Effect /\ now' = now
  BY <1>1, NoEffect DEF Claim, Effect
<1>2. CASE Prepared(d)
  <2> DEFINE r == call[d].res
  <2>1. TypeOK /\ r \in Ids
    BY <1>2, CallerKinds, ItsOwn, Parts DEF Prepared, At
  <2>2. /\ quota' = quota /\ now' = now
        /\ res' = res \/ res' = [res EXCEPT ![r].intent = "ready"]
    BY <1>2 DEF Prepared, Res
  <2> HIDE DEF r
  <2> QED BY <2>1, <2>2, IntentEffect, NoEffect DEF Effect
<1>3. CASE PreparationFails(d)
  <2>1. TypeOK /\ call[d].res \in Manual
    BY <1>3, CallerKinds, ItsOwn, Parts DEF PreparationFails, At
  <2>2. Fail(call[d].res, "preparing") /\ now' = now
    BY <1>3 DEF PreparationFails, Res
  <2> QED BY <2>1, <2>2, FailEffect
<1>4. CASE Finish(d)
  BY <1>4, NoEffect DEF Finish, Effect
<1> QED BY <1>1, <1>2, <1>3, <1>4 DEF DispatcherNext

LEMMA RejectedEffect ==
    ASSUME IndInv, NEW c \in Callers, Rejected(c)
    PROVE  Effect /\ now' = now
<1> DEFINE r == call[c].res
<1>1. TypeOK /\ r \in Ids /\ now' = now
  BY Parts, ItsOwn DEF Rejected, At
<1>2. CASE r \in Manual
  <2>1. Fail(r, "invoking")
    BY <1>2, Apart DEF Rejected, Res
  <2> HIDE DEF r
  <2> QED BY <1>1, <1>2, <2>1, FailEffect
<1>3. CASE r \in Admin
  <2>1. Release(r)
    BY <1>3, Apart DEF Rejected, Res
  <2> HIDE DEF r
  <2> QED BY <1>1, <2>1, ReleaseEffect
<1>4. CASE r \in Days
  <2>1. ReleaseAttempt(r, c)
    BY <1>4, Apart DEF Rejected, Res
  <2> HIDE DEF r
  <2> QED BY <1>1, <2>1, ReleaseAttemptEffect
<1> QED BY <1>1, <1>2, <1>3, <1>4 DEF Ids

LEMMA CallerEffect ==
    ASSUME IndInv, NEW c \in Callers, CallerNext(c)
    PROVE  Effect /\ now' = now
<1> DEFINE r == call[c].res
<1>1. CASE Begin(c) \/ Unknown(c)
  <2>1. TypeOK /\ r \in Ids
    BY <1>1, ItsOwn, Parts DEF Begin, Unknown, At
  <2>2. /\ quota' = quota /\ now' = now
        /\ \/ res' = res
           \/ res' = [res EXCEPT ![r].intent = "invoking"]
           \/ res' = [res EXCEPT ![r].intent = "invocation_unknown"]
    BY <1>1 DEF Begin, Unknown, Res
  <2> HIDE DEF r
  <2> QED BY <2>1, <2>2, IntentEffect, NoEffect DEF Effect
<1>2. CASE Accepted(c)
  <2>1. TypeOK /\ r \in Ids
    BY <1>2, ItsOwn, Parts DEF Accepted, At
  <2>2. Link(r, call[c].exec) /\ quota' = quota /\ now' = now
    BY <1>2 DEF Accepted, Res
  <2> HIDE DEF r
  <2> QED BY <2>1, <2>2, LinkEffect DEF Effect
<1>3. CASE Invoke(c) \/ Refused(c) \/ Answer(c) \/ NoAnswer(c)
  BY <1>3, NoEffect DEF Invoke, Refused, Answer, NoAnswer, Effect
<1>4. CASE LinkFails(c) \/ ReleaseFails(c) \/ Mark(c) \/ Crash(c)
  BY <1>4, NoEffect DEF LinkFails, ReleaseFails, Mark, Crash, Effect
<1> QED BY <1>1, <1>2, <1>3, <1>4, RejectedEffect DEF CallerNext

LEMMA RecEffect ==
    ASSUME IndInv, NEW k \in Reconcilers, RecNext(k)
    PROVE  Effect /\ now' = now
<1> DEFINE r == rec[k].res
<1>1. TypeOK /\ (rec[k].pc # "idle" => r \in Ids)
  BY Parts, RecParts DEF RecInv
<1>2. CASE RecRelease(k)
  <2>1. r \in Days /\ r \in Ids
    BY <1>2, RecParts DEF RecRelease, RecInv
  <2>2. ReleaseAttempt(r, rec[k].attempt) /\ now' = now
    BY <1>2, <2>1, Apart DEF RecRelease
  <2> HIDE DEF r
  <2> QED BY <1>1, <2>1, <2>2, ReleaseAttemptEffect
<1>3. CASE RecLink(k)
  <2>1. r \in Ids /\ Link(r, rec[k].exec) /\ quota' = quota /\ now' = now
    BY <1>1, <1>3 DEF RecLink
  <2> HIDE DEF r
  <2> QED BY <1>1, <2>1, LinkEffect DEF Effect
<1>4. CASE RecSettle(k)
  <2>1. r \in Ids /\ Settle(r, Outcome(rec[k].status)) /\ now' = now
    BY <1>1, <1>4 DEF RecSettle
  <2> HIDE DEF r
  <2> QED BY <1>1, <2>1, SettleEffect
<1>5. ASSUME NEW q \in Ids, RecRead(k, q) PROVE Effect /\ now' = now
  BY <1>5, NoEffect DEF RecRead, Effect
<1>6. ASSUME NEW e \in DOMAIN execs, RecFetch(k, e) PROVE Effect /\ now' = now
  BY <1>6, NoEffect DEF RecFetch, Effect
<1>7. CASE RecConfirmed(k) \/ RecDrop(k)
  BY <1>7, NoEffect DEF RecConfirmed, RecDrop, Effect
<1> QED BY <1>2, <1>3, <1>4, <1>5, <1>6, <1>7 DEF RecNext

\* Only the clock's own step changes the time, and it leaves the budget alone.
LEMMA StepEffect ==
    ASSUME IndInv, [Next]_vars
    PROVE  Effect /\ now <= now' /\ (now' # now => Untouched)
<1>0. now \in Nat
  BY Parts, TimesAreNat
<1>1. CASE \/ \E r \in Manual : Run(r) \/ Continue(r) \/ Exhaust(r)
           \/ \E r, failed \in Manual : Retry(r, failed)
           \/ \E a \in Admin : Trigger(a)
           \/ \E s \in Attempts : SweepStart(s) \/ SweepReserve(s)
  BY <1>0, <1>1, RequestEffect
<1>2. CASE \E d \in Dispatchers : DispatcherNext(d)
  BY <1>0, <1>2, DispatcherEffect
<1>3. CASE \E c \in Callers : CallerNext(c)
  BY <1>0, <1>3, CallerEffect
<1>4. CASE \E r \in sent : Accept(r) \/ Lose(r)
  BY <1>0, <1>4, NoEffect DEF Accept, Lose, Effect
<1>5. CASE \E e \in DOMAIN execs, status \in ExecStatuses \ {"running"} : End(e, status)
  BY <1>0, <1>5, NoEffect DEF End, Effect
<1>6. CASE \E k \in Reconcilers : RecNext(k)
  BY <1>0, <1>6, RecEffect
<1>7. CASE Tick
  <2>1. Untouched
    BY <1>7, NoEffect DEF Tick
  <2> QED BY <1>0, <1>7, <2>1 DEF Tick, Effect
<1>8. CASE UNCHANGED vars
  BY <1>0, <1>8, NoEffect DEF vars, Effect
<1> QED BY <1>1, <1>2, <1>3, <1>4, <1>5, <1>6, <1>7, <1>8 DEF Next

LEMMA BudgetInit == Init => BudgetInv
<1> SUFFICES ASSUME Init PROVE BudgetInv
  OBVIOUS
<1>1. \A r \in Budgeted : res[r].settle = "none"
  BY DEF Init, NoReservation, Budgeted, Ids
<1>2. Counted = {} /\ RunsOf(quota.day) = {}
  BY <1>1 DEF Counted, RunsOf, Budgeted
<1>3. quota.runs = 0 /\ quota.last = None /\ quota.day = None
  BY DEF Init
<1>4. Newest(quota.last, Counted)
  BY <1>2, <1>3 DEF Newest
<1>5. \A r \in Manual : res[r].settle = "none"
  BY <1>1 DEF Budgeted
<1> QED BY <1>1, <1>2, <1>3, <1>4, <1>5, FS_EmptySet DEF BudgetInv

LEMMA BudgetStep ==
    IndInv /\ BudgetInv /\ [Next]_vars => BudgetInv'
<1> SUFFICES ASSUME IndInv, BudgetInv, [Next]_vars PROVE BudgetInv'
  OBVIOUS
<1>1. TypeOK /\ TypeOK' /\ SlotInv
  BY StepInv DEF IndInv, ControlInv
<1>2. \A q, r \in Budgeted : res[q].settle = "pending" /\ res[r].settle = "pending" => q = r
  BY <1>1, BudgetTypes DEF SlotInv
<1>3. Effect /\ now <= now' /\ (now' # now => Untouched)
  BY StepEffect
<1>4. CASE Untouched
  BY <1>1, <1>3, <1>4, BudgetWaits
<1>5. CASE ~Untouched /\ \E r \in Budgeted : Charges(r) \/ Returns(r)
  <2> PICK r \in Budgeted : Charges(r) \/ Returns(r)
    BY <1>5
  <2>1. now' = now /\ \A q \in Budgeted : res[q].settle = "pending" => q = r
    BY <1>2, <1>3, <1>5 DEF Charges, Returns
  <2> QED BY <1>1, <2>1, BudgetCharges, BudgetReturns
<1>6. CASE ~Untouched /\ \E r \in Budgeted, t \in Times : Admits(r, t)
  BY <1>1, <1>3, <1>6, BudgetAdmits
<1> QED BY <1>3, <1>4, <1>5, <1>6 DEF Effect

LEMMA BudgetAddsUp ==
    ASSUME TypeOK, BudgetInv
    PROVE  BudgetIsExact
<1>1. quota.runs = Cardinality({r \in Counted \cap Manual : Day(res[r].at) = quota.day})
  BY DEF BudgetInv, RunsOf
<1>2. \A r \in Counted : res[r].at \in Nat
  BY BudgetTypes DEF Counted, Budgeted
<1>3. CASE Counted = {}
  BY <1>1, <1>3 DEF BudgetIsExact, BudgetInv, Newest
<1>4. CASE Counted # {}
  <2>1. /\ quota.last \in CountedAt /\ CountedAt \subseteq Nat
        /\ \A x \in CountedAt : x <= quota.last
    BY <1>2, <1>4 DEF BudgetInv, Newest, CountedAt
  <2>2. \A x \in CountedAt : (\A y \in CountedAt : x >= y) <=> x = quota.last
    <3>1. quota.last \in Nat /\ \A y \in CountedAt : quota.last >= y
      BY <2>1
    <3>2. ASSUME NEW x \in CountedAt, \A y \in CountedAt : x >= y PROVE x = quota.last
      <4>1. x >= quota.last /\ x <= quota.last /\ x \in Nat
        BY <2>1, <3>2
      <4> QED BY <3>1, <4>1
    <3> QED BY <3>1, <3>2
  <2>3. Max(CountedAt) = quota.last
    BY <2>1, <2>2 DEF Max
  <2> QED BY <1>1, <1>4, <2>3 DEF BudgetIsExact
<1> QED BY <1>3, <1>4

\* The runs and the clock of the quota document are those of the reservations
\* that count, whatever was refunded, released or retried in between
\* (ReleaseQuotaReservation, SettleQuotaReservation in firestore/quota.go).
THEOREM BudgetExact == Spec => []BudgetIsExact
<1>1. Init => IndInv /\ BudgetInv
  BY InitInv, BudgetInit
<1>2. IndInv /\ BudgetInv /\ [Next]_vars => (IndInv /\ BudgetInv)'
  BY StepInv, BudgetStep
<1>3. IndInv /\ BudgetInv => BudgetIsExact
  BY BudgetAddsUp DEF IndInv
<1> QED BY <1>1, <1>2, <1>3, PTL DEF Spec

-----------------------------------------------------------------------------
(* The abstract slot.  A step moves the slot or the executions, not both.  *)

\* The slot is kept, given up, or taken when it is free by a reservation of
\* which nothing was started.
SlotMoves ==
    \/ quota'.active \in {quota.active, None}
    \/ quota.active = None /\ quota'.active \in Ids /\ ~Started(quota'.active)

LEMMA GivenUp ==
    ASSUME TypeOK, NEW r \in Ids, quota' \in {quota, Refund(r), Vacate(r)}
    PROVE  SlotMoves
BY RefundIs, VacateIs DEF SlotMoves

LEMMA Taken ==
    ASSUME IndInv, \/ \E r \in Manual : Run(r)
                   \/ \E r, failed \in Manual : Retry(r, failed)
                   \/ \E a \in Admin : Trigger(a)
                   \/ \E s \in Attempts : SweepReserve(s)
    PROVE  SlotMoves /\ execs' = execs
<1>0. TypeOK /\ quota \in QuotaDocument
  BY Parts DEF TypeOK
<1>1. ASSUME NEW r \in Manual, Run(r) PROVE SlotMoves /\ execs' = execs
  <2>1. r \in Ids /\ quota.active = None /\ res[r].settle = "none" /\ execs' = execs
    BY <1>1, Parts DEF Run, ReserveManual
  <2>2. quota'.active = r
    BY <1>1 DEF Run, ReserveManual
  <2> QED BY <2>1, <2>2, Parts DEF ResInv, SlotMoves
<1>2. ASSUME NEW a \in Admin, Trigger(a) PROVE SlotMoves /\ execs' = execs
  <2>1. a \in Ids /\ quota.active = None /\ res[a].settle = "none" /\ execs' = execs
    BY <1>2, Parts DEF Trigger
  <2>2. quota'.active = a
    BY <1>0, <1>2 DEF Trigger, QuotaDocument
  <2> QED BY <2>1, <2>2, Parts DEF ResInv, SlotMoves
<1>3. ASSUME NEW s \in Attempts, SweepReserve(s) PROVE SlotMoves /\ execs' = execs
  <2>1. s \in Callers /\ call[s].pc = "asked"
    BY <1>3, CallerKinds DEF SweepReserve, At
  <2>2. call[s].res \in Days
    BY <2>1, ItsOwn
  <2>3. quota.active = None /\ ~used[call[s].res] /\ execs' = execs
    BY <1>3 DEF SweepReserve, Res
  <2>4. quota'.active = call[s].res
    BY <1>0, <1>3 DEF SweepReserve, Res, QuotaDocument
  <2> QED BY <2>2, <2>3, <2>4, Parts DEF ResInv, SlotMoves
<1> QED BY <1>1, <1>2, <1>3 DEF Retry

LEMMA ReleasedOrKept ==
    ASSUME NEW r \in Ids,
           \/ Release(r)
           \/ \E x : ReleaseAttempt(r, x) \/ Fail(r, x) \/ Settle(r, x)
    PROVE  quota' \in {quota, Refund(r), Vacate(r)}
BY DEF Release, ReleaseAttempt, Fail, Settle

LEMMA CallerMovesSlot ==
    ASSUME IndInv, NEW c \in Callers, CallerNext(c)
    PROVE  SlotMoves /\ execs' = execs
<1>1. CASE Rejected(c)
  <2> DEFINE r == call[c].res
  <2>1. TypeOK /\ r \in Ids /\ execs' = execs
    BY <1>1, Parts, ItsOwn DEF Rejected, At
  <2>2. Release(r) \/ (\E x : ReleaseAttempt(r, x)) \/ \E x : Fail(r, x)
    BY <1>1, <2>1, Apart DEF Rejected, Res, Ids
  <2> HIDE DEF r
  <2> QED BY <2>1, <2>2, ReleasedOrKept, GivenUp
<1>2. CASE ~Rejected(c)
  <2>1. quota' = quota /\ execs' = execs
    BY <1>2 DEF CallerNext, Begin, Invoke, Refused, Answer, NoAnswer, Accepted, LinkFails,
                ReleaseFails, Mark, Unknown, Crash
  <2> QED BY <2>1 DEF SlotMoves
<1> QED BY <1>1, <1>2

LEMMA QueueMovesSlot ==
    ASSUME IndInv, \/ \E d \in Dispatchers : DispatcherNext(d)
                   \/ \E r \in Manual : Continue(r) \/ Exhaust(r)
    PROVE  SlotMoves /\ execs' = execs
<1>1. ASSUME NEW d \in Dispatchers, PreparationFails(d) PROVE SlotMoves /\ execs' = execs
  <2>1. TypeOK /\ call[d].res \in Ids /\ execs' = execs /\ Fail(call[d].res, "preparing")
    BY <1>1, Parts, CallerKinds, ItsOwn DEF PreparationFails, At, Res
  <2> QED BY <2>1, ReleasedOrKept, GivenUp
<1>2. ASSUME NEW r \in Manual, Exhaust(r) PROVE SlotMoves /\ execs' = execs
  <2>1. TypeOK /\ r \in Ids /\ execs' = execs /\ (quota' = quota \/ \E x : Fail(r, x))
    BY <1>2, Parts DEF Exhaust
  <2> QED BY <2>1, ReleasedOrKept, GivenUp
<1>3. ASSUME NEW d \in Dispatchers, DispatcherNext(d), ~PreparationFails(d)
      PROVE  quota' = quota /\ execs' = execs
  BY <1>3 DEF DispatcherNext, Claim, Prepared, Finish
<1>4. ASSUME NEW r \in Manual, Continue(r) PROVE quota' = quota /\ execs' = execs
  BY <1>4 DEF Continue
<1> QED BY <1>1, <1>2, <1>3, <1>4 DEF SlotMoves

LEMMA RecMovesSlot ==
    ASSUME IndInv, NEW k \in Reconcilers, RecNext(k)
    PROVE  SlotMoves /\ execs' = execs
<1> DEFINE r == rec[k].res
<1>1. CASE RecRelease(k) \/ RecSettle(k)
  <2>1. TypeOK /\ r \in Ids /\ execs' = execs
    BY <1>1, Parts, RecParts DEF RecInv, RecRelease, RecSettle
  <2>2. \/ Release(r)
        \/ \E x : ReleaseAttempt(r, x) \/ Fail(r, x) \/ Settle(r, x)
    BY <1>1, <2>1, Apart DEF RecRelease, RecSettle, Ids
  <2> HIDE DEF r
  <2> QED BY <2>1, <2>2, ReleasedOrKept, GivenUp
<1>2. CASE ~(RecRelease(k) \/ RecSettle(k))
  <2>1. quota' = quota /\ execs' = execs
    BY <1>2 DEF RecNext, RecRead, RecConfirmed, RecFetch, RecLink, RecDrop
  <2> QED BY <2>1 DEF SlotMoves
<1> QED BY <1>1, <1>2

\* Only the provider moves an execution, and it does not know of the slot.
LEMMA StepMoves ==
    ASSUME IndInv, [Next]_vars
    PROVE  \/ SlotMoves /\ execs' = execs
           \/ quota' = quota /\ \E r \in sent : Accept(r)
           \/ quota' = quota /\ \E e \in DOMAIN execs, status \in ExecStatuses \ {"running"} :
                                  End(e, status)
<1>1. ASSUME NEW r \in sent, Accept(r) \/ Lose(r)
      PROVE  quota' = quota /\ (Accept(r) \/ execs' = execs)
  BY <1>1 DEF Accept, Lose
<1>2. ASSUME NEW e, NEW status, End(e, status) PROVE quota' = quota
  BY <1>2 DEF End
<1>3. ASSUME quota' = quota PROVE SlotMoves
  BY <1>3 DEF SlotMoves
<1>4. CASE Tick \/ (\E s \in Attempts : SweepStart(s)) \/ UNCHANGED vars
  <2>1. quota' = quota /\ execs' = execs
    BY <1>4 DEF Tick, SweepStart, vars
  <2> QED BY <1>3, <2>1
<1> QED BY <1>1, <1>2, <1>3, <1>4, Taken, CallerMovesSlot, QueueMovesSlot, RecMovesSlot DEF Next

\* The admission of pipeline runs on Cloud Run, with all its callers, lost
\* answers, late acceptances and reconcilers, implements the abstract slot
\* (firestore/quota.go, pipeline_quota_reconciler.go).
THEOREM QuotaImplementsSlot == Spec => ImplementsRunSlot
<1> DEFINE Running == {execs[e].res : e \in {e \in DOMAIN execs : execs[e].status = "running"}}
           Spent   == quota.active # None /\ ExecsOf(quota.active) # {}
<1>1. Init => Slot!SlotInit
  BY DEF Init, Slot!SlotInit
<1>2. IndInv /\ [Next]_vars => [Slot!SlotNext]_Slot!slotVars
  <2> SUFFICES ASSUME IndInv, [Next]_vars PROVE [Slot!SlotNext]_Slot!slotVars
    OBVIOUS
  <2> USE DEF Slot!slotVars
  <2>1. /\ TypeOK /\ RunInv /\ RunInv' /\ OnceInv /\ execs \in Seq(Execution)
        /\ quota.active \in Ids \cup {None} /\ quota'.active \in Ids \cup {None}
        /\ None \notin Ids
    BY StepInv, Apart DEF IndInv, ControlInv, TypeOK, QuotaDocument
  <2>2. \A e \in DOMAIN execs : execs[e].res \in Ids
    <3> SUFFICES ASSUME NEW e \in DOMAIN execs PROVE execs[e].res \in Ids
      OBVIOUS
    <3>1. execs[e] \in Execution
      BY <2>1
    <3> QED BY <3>1 DEF Execution
  <2>3. quota.active = None => Running = {}
    BY <2>1, <2>2 DEF RunInv
  <2>4. CASE SlotMoves /\ execs' = execs
    <3>1. Running' = Running
      BY <2>4
    <3>2. \A r : ExecsOf(r)' = ExecsOf(r)
      BY <2>4 DEF ExecsOf
    <3>3. CASE quota'.active = quota.active
      BY <3>1, <3>2, <3>3
    <3>4. CASE quota'.active = None /\ quota.active # None
      <4>1. Running' = {}
        BY <2>1, <2>2, <2>4, <3>4 DEF RunInv
      <4> QED BY <3>4, <4>1 DEF Slot!SlotNext, Slot!GiveBack
    <3>5. CASE quota.active = None /\ quota'.active \in Ids /\ ~Started(quota'.active)
      <4>1. ExecsOf(quota'.active) = {}
        BY <3>5 DEF Started, ExecsOf
      <4>2. Spent' = Spent
        BY <3>2, <3>5, <4>1
      <4> QED BY <3>1, <3>5, <4>2 DEF Slot!SlotNext, Slot!Take
    <3> QED BY <2>4, <3>3, <3>4, <3>5 DEF SlotMoves
  <2>5. ASSUME NEW r \in sent, Accept(r), quota' = quota PROVE Slot!Start
    <3>1. quota.active = r /\ ExecsOf(r) = {} /\ r \in Ids /\ r # None
      BY <2>1 DEF RunInv, OnceInv, ExecsOf, TypeOK
    <3>2. Running = {}
      BY <2>1, <3>1 DEF RunInv, ExecsOf
    <3>3. /\ DOMAIN execs' = DOMAIN execs \cup {Len(execs) + 1}
          /\ Len(execs) + 1 \notin DOMAIN execs
          /\ execs'[Len(execs) + 1] = [res |-> r, status |-> "running"]
          /\ \A e \in DOMAIN execs : execs'[e] = execs[e]
      BY <2>1, <2>5 DEF Accept
    <3>4. Running' = {r}
      <4>1. \A e \in DOMAIN execs : execs[e].status # "running"
        BY <3>2
      <4>2. \A e \in DOMAIN execs' :
              execs'[e].status = "running" <=> e = Len(execs) + 1
        BY <3>3, <4>1
      <4> QED BY <3>3, <4>2
    <3>5. ExecsOf(r)' # {}
      BY <3>3 DEF ExecsOf
    <3>6. Spent' /\ ~Spent /\ quota'.active = r
      BY <2>5, <3>1, <3>5
    <3> QED BY <3>1, <3>4, <3>6 DEF Slot!Start
  <2>6. ASSUME NEW x \in DOMAIN execs, NEW status \in ExecStatuses \ {"running"}, End(x, status),
               quota' = quota
        PROVE  Slot!End
    <3>1. execs[x].status = "running" /\ execs' = [execs EXCEPT ![x].status = status]
      BY <2>6 DEF End
    <3>2. execs[x] \in Execution
      BY <2>1
    <3>3. /\ DOMAIN execs' = DOMAIN execs
          /\ \A e \in DOMAIN execs : execs'[e].res = execs[e].res
          /\ \A e \in DOMAIN execs : e # x => execs'[e] = execs[e]
          /\ execs'[x].status = status
      BY <2>1, <3>1, <3>2 DEF Execution
    <3>4. \A e \in DOMAIN execs : execs[e].status = "running" => e = x
      BY <2>1, <2>2, <3>1 DEF RunInv, OnceInv
    <3>5. Running' = {}
      BY <3>3, <3>4
    <3>6. \A r : ExecsOf(r)' = ExecsOf(r)
      BY <3>3 DEF ExecsOf
    <3> QED BY <2>6, <3>5, <3>6 DEF Slot!End
  <2> QED BY <2>4, <2>5, <2>6, StepMoves DEF Slot!SlotNext
<1> QED BY <1>1, <1>2, InitInv, StepInv, PTL DEF Spec, ImplementsRunSlot, Slot!SlotSpec
=============================================================================
