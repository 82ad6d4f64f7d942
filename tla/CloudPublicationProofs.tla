----------------------- MODULE CloudPublicationProofs -----------------------
(***************************************************************************)
(* Machine-checked proofs about CloudPublication for any set of executions *)
(* and any number of faults.  Three invariants build on each other: what   *)
(* is known of leases, what an execution that is alone can count on, and   *)
(* what manifest, receipt and diagnostic prove.                            *)
(***************************************************************************)
EXTENDS CloudPublication, TLAPS

USE PublicationAssumption DEF leaseVars, storeVars, auxVars, Well

-----------------------------------------------------------------------------
(* Steps of a worker, field by field.                                      *)

Moved(e, pc, mine, seen, base) ==
    worker' = [worker EXCEPT ![e] = [pc |-> pc, mine |-> mine, seen |-> seen, base |-> base]]

LEMMA GotoMoves ==
    ASSUME TypeOK, NEW e \in Executions, NEW pc, Goto(e, pc)
    PROVE  Moved(e, pc, worker[e].mine, worker[e].seen, worker[e].base)
<1>1. worker[e] \in Worker
  BY DEF TypeOK
<1>2. [worker[e] EXCEPT !.pc = pc] =
        [pc |-> pc, mine |-> worker[e].mine, seen |-> worker[e].seen, base |-> worker[e].base]
  BY <1>1 DEF Worker
<1>3. worker' = [worker EXCEPT ![e] = [worker[e] EXCEPT !.pc = pc]]
  BY DEF Goto
<1> QED
  BY <1>2, <1>3 DEF Moved

LEMMA BecomeMoves ==
    ASSUME NEW e \in Executions, NEW pc, NEW mine, NEW seen, Become(e, pc, mine, seen)
    PROVE  Moved(e, pc, mine, seen, worker[e].base)
BY DEF Moved, Become

LEMMA MovedType ==
    ASSUME TypeOK, NEW e \in Executions,
           NEW pc \in Acquiring \cup Holding \cup {"new", "ended", "refused"},
           NEW mine \in Nat, NEW seen \in Lease, NEW base \in Nat,
           Moved(e, pc, mine, seen, base)
    PROVE  /\ worker' \in [Executions -> Worker]
           /\ worker'[e].pc = pc /\ worker'[e].mine = mine
           /\ worker'[e].seen = seen /\ worker'[e].base = base
           /\ \A f \in Executions : f # e => worker'[f] = worker[f]
BY DEF TypeOK, Worker, Moved

-----------------------------------------------------------------------------
(* Leases.                                                                 *)

\* A lease names an execution that has started, and a generation given out.
Genuine(l) ==
    l = NoLease \/ (l.holder \in Executions /\ worker[l.holder].pc # "new"
                    /\ l.gen \in 1 .. leases)

\* What an execution has read of a lease stays true of it, and a holder that it
\* has found to be dead stays dead.
Knows(e) ==
    /\ Genuine(worker[e].seen)
    /\ worker[e].seen.gen = lease.gen => worker[e].seen = lease
    /\ worker[e].pc \in {"probe", "delete"} => worker[e].seen # NoLease
    /\ worker[e].pc = "delete" => ~Running(worker[e].seen.holder)

LeaseInv ==
    /\ TypeOK
    /\ Genuine(lease)
    /\ \A e \in Executions : Knows(e)
    /\ LeaseIsExclusive

LEMMA InitLease == Init => LeaseInv
BY DEF Init, LeaseInv, TypeOK, Lease, Worker, Acquiring, Holding, Stages, NoLease,
       Genuine, Knows, LeaseIsExclusive

\* A step of e that leaves the lease as it is.
LEMMA KeepsLease ==
    ASSUME LeaseInv, NEW e \in Executions, TypeOK',
           NEW pc \in Acquiring \cup Holding \cup {"ended", "refused"},
           NEW mine \in Nat, NEW seen \in {NoLease, worker[e].seen, lease}, NEW base \in Nat,
           Moved(e, pc, mine, seen, base), UNCHANGED <<lease, leases>>,
           worker[e].pc \notin {"ended", "refused"},
           pc \in {"probe", "delete"} => seen # NoLease,
           pc = "delete" => ~Running(seen.holder) /\ worker[e].pc # "new",
           pc \in Holding => worker[e].pc \in Holding /\ mine = worker[e].mine
    PROVE  LeaseInv'
<1>1. /\ worker'[e].pc = pc /\ worker'[e].mine = mine /\ worker'[e].seen = seen
      /\ \A f \in Executions : f # e => worker'[f] = worker[f]
  <2>1. seen \in Lease
    BY DEF LeaseInv, TypeOK, Lease, Worker, NoLease
  <2> QED
    BY <2>1, MovedType DEF LeaseInv
<1>2. pc # "new"
  BY DEF Acquiring, Holding
<1>3. ASSUME NEW l, Genuine(l) PROVE Genuine(l)'
  BY <1>1, <1>2, <1>3 DEF Genuine
<1>4. /\ Genuine(NoLease) /\ Genuine(lease) /\ Genuine(seen)
      /\ \A f \in Executions : Genuine(worker[f].seen)
  BY DEF LeaseInv, Genuine, Knows
<1>5. ASSUME NEW l, Genuine(l), l # NoLease, ~Running(l.holder) PROVE ~Running(l.holder)'
  BY <1>1, <1>5 DEF Genuine, Running
<1>6. Genuine(lease)'
  BY <1>3, <1>4
<1>7. ASSUME NEW f \in Executions PROVE Knows(f)'
  <2>1. Genuine(worker[f].seen)'
    BY <1>1, <1>3, <1>4
  <2>2. worker'[f].seen.gen = lease'.gen => worker'[f].seen = lease'
    <3>1. NoLease.gen = lease.gen => NoLease = lease
      BY <1>4 DEF LeaseInv, TypeOK, Genuine, NoLease
    <3> QED
      BY <1>1, <3>1 DEF LeaseInv, Knows
  <2>3. worker'[f].pc \in {"probe", "delete"} => worker'[f].seen # NoLease
    BY <1>1 DEF LeaseInv, Knows, NoLease
  <2>4. (worker[f].pc = "delete" => ~Running(worker[f].seen.holder))'
    BY <1>1, <1>4, <1>5 DEF LeaseInv, Knows
  <2> QED
    BY <2>1, <2>2, <2>3, <2>4 DEF Knows
<1>8. LeaseIsExclusive'
  BY <1>1 DEF LeaseInv, LeaseIsExclusive
<1> QED
  BY <1>6, <1>7, <1>8 DEF LeaseInv

\* A step of an execution without a lease that may delete the one that nobody
\* works under.
LEMMA DropsLease ==
    ASSUME LeaseInv, NEW e \in Executions, TypeOK',
           NEW pc \in {"recreate", "ended"}, Moved(e, pc, 0, NoLease, worker[e].base),
           lease' \in {lease, NoLease}, UNCHANGED leases,
           worker[e].pc \notin {"ended", "refused"},
           lease' # lease => \A f \in Executions : worker[f].pc \in Holding => f = e
    PROVE  LeaseInv'
<1>1. /\ worker'[e].pc = pc /\ worker'[e].seen = NoLease
      /\ \A f \in Executions : f # e => worker'[f] = worker[f]
  BY DEF LeaseInv, TypeOK, Worker, Moved
<1>2. pc \notin Holding \cup {"new", "probe", "delete"}
  BY DEF Acquiring, Holding
<1>3. ASSUME NEW l, Genuine(l) PROVE Genuine(l)'
  BY <1>1, <1>2, <1>3 DEF Genuine
<1>4. /\ Genuine(NoLease) /\ Genuine(lease)
      /\ \A f \in Executions : Genuine(worker[f].seen)
  BY DEF LeaseInv, Genuine, Knows
<1>5. ASSUME NEW l, Genuine(l), l # NoLease, ~Running(l.holder) PROVE ~Running(l.holder)'
  BY <1>1, <1>5 DEF Genuine, Running
<1>6. Genuine(lease)'
  BY <1>3, <1>4
<1>7. ASSUME NEW f \in Executions PROVE Knows(f)'
  <2>1. Genuine(worker[f].seen)'
    BY <1>1, <1>3, <1>4
  <2>2. worker'[f].seen.gen = lease'.gen => worker'[f].seen = lease'
    <3>1. \A l, k \in {lease, NoLease, worker[f].seen} :
             l # NoLease /\ k = NoLease => l.gen # k.gen
      BY <1>4 DEF LeaseInv, TypeOK, Genuine, NoLease
    <3> QED
      BY <1>1, <3>1 DEF LeaseInv, Knows
  <2>3. worker'[f].pc \in {"probe", "delete"} => worker'[f].seen # NoLease
    BY <1>1, <1>2 DEF LeaseInv, Knows
  <2>4. (worker[f].pc = "delete" => ~Running(worker[f].seen.holder))'
    BY <1>1, <1>2, <1>4, <1>5 DEF LeaseInv, Knows
  <2> QED
    BY <2>1, <2>2, <2>3, <2>4 DEF Knows
<1>8. LeaseIsExclusive'
  BY <1>1, <1>2 DEF LeaseInv, LeaseIsExclusive
<1> QED
  BY <1>6, <1>7, <1>8 DEF LeaseInv

\* A new lease has a generation that nobody has read.
LEMMA CreateLeaseLease ==
    ASSUME LeaseInv, NEW e \in Executions, NEW next \in {"inspect", "refused"},
           NEW heard \in BOOLEAN, worker[e].pc \in {"create", "recreate"},
           CreateLease(e, next, heard)
    PROVE  LeaseInv'
<1>1. ASSUME worker' \in [Executions -> Worker] PROVE TypeOK'
  BY <1>1 DEF LeaseInv, TypeOK, Lease, CreateLease, NoLease
<1>4. NoLease \in Lease /\ worker[e] \in Worker
  BY DEF LeaseInv, TypeOK, Lease, NoLease
<1>2. CASE lease # NoLease
  <2>1. Moved(e, next, 0, NoLease, worker[e].base) /\ UNCHANGED <<lease, leases>>
    BY <1>2, BecomeMoves DEF CreateLease, Stop
  <2>2. worker' \in [Executions -> Worker]
    BY <1>4, <2>1, MovedType DEF LeaseInv, Worker, Acquiring
  <2> QED
    BY <1>1, <1>4, <2>1, <2>2, KeepsLease DEF Worker, Acquiring, Holding
<1>3. CASE lease = NoLease
  <2>1. \/ Moved(e, "read", leases + 1, NoLease, worker[e].base)
        \/ Moved(e, "ended", 0, NoLease, worker[e].base)
        \/ Moved(e, next, 0, NoLease, worker[e].base)
    BY <1>3, BecomeMoves DEF CreateLease, Stop
  <2>2. PICK pc \in {"read", "ended", next}, n \in {leases + 1, 0} :
          /\ Moved(e, pc, n, NoLease, worker[e].base)
          /\ pc = "read" => n = leases + 1
    BY <2>1
  <2>3. /\ lease' = [holder |-> e, gen |-> leases + 1] /\ leases' = leases + 1
        /\ \A f \in Executions : f # e => worker'[f] = worker[f]
        /\ worker'[e].pc = pc /\ worker'[e].mine = n /\ worker'[e].seen = NoLease
    BY <1>3, <2>2 DEF LeaseInv, TypeOK, CreateLease, Moved
  <2>4. pc \notin {"new", "probe", "delete"} /\ Running(e)
    BY DEF Running
  <2>5. \A f \in Executions : worker[f].pc # "new" => worker'[f].pc # "new"
    BY <2>3, <2>4
  <2>6. Genuine(lease)' /\ \A f \in Executions : Genuine(worker[f].seen)'
    BY <2>3, <2>4, <2>5 DEF LeaseInv, TypeOK, Genuine, Knows
  <2>7. ASSUME NEW f \in Executions PROVE Knows(f)'
    <3>1. worker'[f].seen.gen # lease'.gen
      BY <2>3 DEF LeaseInv, TypeOK, Genuine, Knows, NoLease
    <3>2. worker'[f].pc \in {"probe", "delete"} => worker'[f].seen # NoLease
      BY <2>3, <2>4 DEF LeaseInv, Knows
    <3>3. (worker[f].pc = "delete" => ~Running(worker[f].seen.holder))'
      BY <2>3, <2>4 DEF LeaseInv, Knows, Genuine, Running
    <3> QED
      BY <2>6, <3>1, <3>2, <3>3 DEF Knows
  <2>8. LeaseIsExclusive'
    <3>1. \A f \in Executions : worker[f].pc \notin Holding
      BY <1>3 DEF LeaseInv, LeaseIsExclusive, NoLease
    <3>2. pc \in Holding => pc = "read"
      BY DEF Holding
    <3> QED
      BY <2>2, <2>3, <3>1, <3>2 DEF LeaseIsExclusive
  <2>9. worker' \in [Executions -> Worker]
    <3>1. pc \in Acquiring \cup Holding \cup {"new", "ended", "refused"}
      BY DEF Acquiring, Holding
    <3>2. TypeOK /\ n \in Nat
      BY DEF LeaseInv, TypeOK
    <3>3. worker[e].base \in Nat
      BY <1>4 DEF Worker
    <3> QED
      BY <1>4, <2>2, <3>1, <3>2, <3>3, MovedType
  <2> QED
    BY <1>1, <2>6, <2>7, <2>8, <2>9 DEF LeaseInv
<1> QED
  BY <1>2, <1>3

\* The type of the rest, given the worker's.
LEMMA RestTypes ==
    ASSUME TypeOK, NEW e \in Executions, worker' \in [Executions -> Worker],
           lease' \in Lease, leases' \in Nat,
           Arrive(e) \/ Work(e) \/ Fail(e)
    PROVE  TypeOK'
<1> USE DEF TypeOK, Stages, Record
<1>1. CASE Arrive(e)
  BY <1>1 DEF Arrive
<1>2. ASSUME NEW next, NEW heard \in BOOLEAN, CreateLease(e, next, heard) PROVE TypeOK'
  BY <1>2 DEF CreateLease
<1>3. CASE Inspect(e) \/ Probe(e) \/ DeleteLease(e) \/ ReadManifest(e)
  BY <1>3 DEF Inspect, Probe, DeleteLease, ReadManifest
<1>4. CASE SendManifest(e)
  BY <1>4 DEF SendManifest
<1>5. ASSUME NEW heard \in BOOLEAN, Answer(e, heard) PROVE TypeOK'
  BY <1>5 DEF Answer
<1>6. ASSUME NEW readable \in BOOLEAN, NEW written \in BOOLEAN, Confirm(e, readable, written)
      PROVE  TypeOK'
  BY <1>6 DEF Confirm
<1>7. ASSUME NEW stored \in BOOLEAN, NEW heard \in BOOLEAN, WriteReceipt(e, stored, heard)
      PROVE  TypeOK'
  BY <1>7 DEF WriteReceipt
<1>8. ASSUME NEW ok \in BOOLEAN, NEW written \in BOOLEAN, WriteSources(e, ok, written)
      PROVE  TypeOK'
  BY <1>8 DEF WriteSources
<1>9. ASSUME NEW deleted \in BOOLEAN, NEW heard \in BOOLEAN, NEW written \in BOOLEAN,
             Release(e, deleted, heard, written)
      PROVE  TypeOK'
  BY <1>9 DEF Release
<1>10. CASE AcquireFails(e)
  BY <1>10 DEF AcquireFails
<1>11. ASSUME NEW written \in BOOLEAN, FailInputs(e, written) PROVE TypeOK'
  BY <1>11 DEF FailInputs
<1>12. ASSUME NEW stage \in {"before", "receipt", "publish"}, NEW written \in BOOLEAN,
              FailBuild(e, stage, written)
       PROVE  TypeOK'
  BY <1>12 DEF FailBuild
<1>13. CASE Die(e)
  BY <1>13 DEF Die
<1> QED
  BY <1>1, <1>2, <1>3, <1>4, <1>5, <1>6, <1>7, <1>8, <1>9, <1>10, <1>11, <1>12, <1>13
     DEF Work, Fail, Create, Recreate


\* A step that keeps the lease, its type apart.
LEMMA KeepsType ==
    ASSUME LeaseInv, NEW e \in Executions, Arrive(e) \/ Work(e) \/ Fail(e),
           NEW pc \in Acquiring \cup Holding \cup {"ended", "refused"},
           NEW mine \in Nat, NEW seen \in {NoLease, worker[e].seen, lease}, NEW base \in Nat,
           Moved(e, pc, mine, seen, base), lease' \in {lease, NoLease}, UNCHANGED leases
    PROVE  TypeOK'
<1>1. seen \in Lease /\ lease' \in Lease /\ leases' \in Nat
  BY DEF LeaseInv, TypeOK, Lease, Worker, NoLease
<1>2. worker' \in [Executions -> Worker]
  BY <1>1, MovedType DEF LeaseInv
<1> QED
  BY <1>1, <1>2, RestTypes DEF LeaseInv

\* Steps that do not touch the lease object.
LEMMA StepKeeps ==
    ASSUME LeaseInv, NEW e \in Executions, Arrive(e) \/ Work(e) \/ Fail(e),
           UNCHANGED <<lease, leases>>, worker[e].pc \notin {"ended", "refused"},
           \/ \E pc \in {"create", "refused", "ended"} :
                \/ Goto(e, pc) \/ Stop(e, pc)
           \/ Inspect(e) \/ Probe(e) \/ ReadManifest(e)
           \/ worker[e].pc \in Holding /\ \E pc \in Holding : Goto(e, pc)
    PROVE  LeaseInv'
<1>1. worker[e] \in Worker /\ top \in Nat
  BY DEF LeaseInv, TypeOK
<1>2. PICK pc \in Acquiring \cup Holding \cup {"ended", "refused"}, mine \in Nat,
           seen \in {NoLease, worker[e].seen, lease}, base \in Nat :
        /\ Moved(e, pc, mine, seen, base)
        /\ pc \in {"probe", "delete"} => seen # NoLease
        /\ pc = "delete" => ~Running(seen.holder) /\ worker[e].pc # "new"
        /\ pc \in Holding => worker[e].pc \in Holding /\ mine = worker[e].mine
  <2>1. CASE \E pc \in {"create", "refused", "ended"} : Goto(e, pc) \/ Stop(e, pc)
    BY <1>1, <2>1, GotoMoves, BecomeMoves DEF LeaseInv, Stop, Worker, Acquiring, Holding
  <2>2. CASE Inspect(e)
    BY <1>1, <2>2, BecomeMoves DEF Inspect, Worker, Acquiring, Holding
  <2>3. CASE Probe(e)
    <3>1. CASE Reclaimable(e)
      <4>1. Moved(e, "delete", worker[e].mine, worker[e].seen, worker[e].base)
        BY <2>3, <3>1, GotoMoves DEF LeaseInv, Probe
      <4>2. worker[e].seen # NoLease /\ worker[e].pc # "new"
        BY <2>3 DEF LeaseInv, Knows, Probe
      <4> QED
        BY <1>1, <3>1, <4>1, <4>2 DEF Reclaimable, Worker, Acquiring, Holding
    <3>2. CASE ~Reclaimable(e)
      BY <1>1, <2>3, <3>2, BecomeMoves DEF Probe, Stop, Worker, Holding
    <3> QED
      BY <3>1, <3>2
  <2>4. CASE ReadManifest(e)
    <3>1. Moved(e, "build", worker[e].mine, worker[e].seen, top)
      BY <2>4 DEF ReadManifest, Moved
    <3> QED
      BY <1>1, <2>4, <3>1 DEF ReadManifest, Worker, Holding
  <2>5. CASE worker[e].pc \in Holding /\ \E pc \in Holding : Goto(e, pc)
    BY <1>1, <2>5, GotoMoves DEF LeaseInv, Worker, Holding
  <2> QED
    BY <2>1, <2>2, <2>3, <2>4, <2>5
<1>3. TypeOK'
  BY <1>2, KeepsType
<1> QED
  BY <1>2, <1>3, KeepsLease

\* A holder that has been found dead works under no lease, and neither does
\* whoever reads or writes on the way to one.
LEMMA DeleteIsOfDead ==
    ASSUME LeaseInv, NEW e \in Executions, worker[e].pc = "delete", Deletes(worker[e].seen.gen),
           NEW f \in Executions
    PROVE  worker[f].pc \notin Holding
<1>1. worker[e].seen = lease /\ lease # NoLease /\ ~Running(lease.holder)
  BY DEF LeaseInv, Knows, Deletes
<1> QED
  BY <1>1 DEF LeaseInv, LeaseIsExclusive, Running, Holding

LEMMA StepDrops ==
    ASSUME LeaseInv, NEW e \in Executions,
           \/ DeleteLease(e)
           \/ AcquireFails(e)
           \/ \E deleted, heard, written \in BOOLEAN : Release(e, deleted, heard, written)
    PROVE  LeaseInv'
<1>1. PICK pc \in {"recreate", "ended"} : Moved(e, pc, 0, NoLease, worker[e].base)
  BY BecomeMoves DEF DeleteLease, AcquireFails, Release, Stop
<1>2. /\ lease' \in {lease, NoLease} /\ UNCHANGED leases
      /\ worker[e].pc \notin {"ended", "refused"}
  BY DEF DeleteLease, AcquireFails, Release, Acquiring
<1>3. lease' # lease => \A f \in Executions : worker[f].pc \in Holding => f = e
  <2>1. CASE DeleteLease(e) \/ AcquireFails(e)
    BY <2>1, DeleteIsOfDead DEF DeleteLease, AcquireFails
  <2>2. CASE \E deleted, heard, written \in BOOLEAN : Release(e, deleted, heard, written)
    <3>1. worker[e].pc \in Holding
      BY <2>2 DEF Release, Holding
    <3> QED
      BY <3>1 DEF LeaseInv, LeaseIsExclusive
  <2> QED
    BY <2>1, <2>2
<1>4. Work(e) \/ Fail(e)
  BY DEF Work, Fail
<1>5. worker[e].base \in Nat /\ 0 \in Nat /\ pc \in Acquiring \cup {"ended"}
  BY DEF LeaseInv, TypeOK, Worker, Acquiring
<1>6. TypeOK'
  BY <1>1, <1>2, <1>4, <1>5, KeepsType
<1> QED
  BY <1>1, <1>2, <1>3, <1>6, DropsLease

LEMMA StepLease ==
    ASSUME LeaseInv, [Next]_vars PROVE LeaseInv'
<1>1. ASSUME NEW e \in Executions, Arrive(e) PROVE LeaseInv'
  BY <1>1, StepKeeps DEF Arrive
<1>2. ASSUME NEW e \in Executions, Work(e) PROVE LeaseInv'
  <2>1. ASSUME NEW heard \in BOOLEAN, Create(e, heard) \/ Recreate(e, heard) PROVE LeaseInv'
    BY <2>1, CreateLeaseLease DEF Create, Recreate
  <2>2. CASE Inspect(e) \/ Probe(e) \/ ReadManifest(e)
    BY <1>2, <2>2, StepKeeps DEF Inspect, Probe, ReadManifest
  <2>3. CASE DeleteLease(e)
    BY <2>3, StepDrops
  <2>4. CASE SendManifest(e)
    BY <1>2, <2>4, StepKeeps DEF SendManifest, Holding
  <2>5. ASSUME NEW heard \in BOOLEAN, Answer(e, heard) PROVE LeaseInv'
    BY <1>2, <2>5, StepKeeps DEF Answer, Holding
  <2>6. ASSUME NEW readable \in BOOLEAN, NEW written \in BOOLEAN, Confirm(e, readable, written)
        PROVE  LeaseInv'
    BY <1>2, <2>6, StepKeeps DEF Confirm, Holding
  <2>7. ASSUME NEW stored \in BOOLEAN, NEW heard \in BOOLEAN, WriteReceipt(e, stored, heard)
        PROVE  LeaseInv'
    BY <1>2, <2>7, StepKeeps DEF WriteReceipt, Holding
  <2>8. ASSUME NEW ok \in BOOLEAN, NEW written \in BOOLEAN, WriteSources(e, ok, written)
        PROVE  LeaseInv'
    BY <1>2, <2>8, StepKeeps DEF WriteSources, Holding
  <2>9. ASSUME NEW deleted \in BOOLEAN, NEW heard \in BOOLEAN, NEW written \in BOOLEAN,
               Release(e, deleted, heard, written)
        PROVE  LeaseInv'
    BY <2>9, StepDrops
  <2> QED
    BY <1>2, <2>1, <2>2, <2>3, <2>4, <2>5, <2>6, <2>7, <2>8, <2>9 DEF Work
<1>3. ASSUME NEW e \in Executions, Fail(e) PROVE LeaseInv'
  <2>1. CASE AcquireFails(e)
    BY <2>1, StepDrops
  <2>2. ASSUME NEW written \in BOOLEAN, FailInputs(e, written) PROVE LeaseInv'
    BY <1>3, <2>2, StepKeeps DEF FailInputs
  <2>3. ASSUME NEW stage \in {"before", "receipt", "publish"}, NEW written \in BOOLEAN,
               FailBuild(e, stage, written)
        PROVE  LeaseInv'
    BY <1>3, <2>3, StepKeeps DEF FailBuild, Holding
  <2>4. CASE Die(e)
    BY <1>3, <2>4, StepKeeps DEF Die, Running
  <2> QED
    BY <1>3, <2>1, <2>2, <2>3, <2>4 DEF Fail
<1>4. ASSUME UNCHANGED <<leaseVars, worker>>, TypeOK' PROVE LeaseInv'
  BY <1>4 DEF LeaseInv, Genuine, Knows, Running, LeaseIsExclusive
<1>5. ASSUME NEW e \in Executions, Land(e) \/ Ask(e) PROVE LeaseInv'
  BY <1>4, <1>5 DEF LeaseInv, TypeOK, Land, Ask
<1>6. CASE Look
  BY <1>4, <1>6 DEF LeaseInv, TypeOK, Look, LookAtReceipt, LookAtManifest, LookAtDiagnostic,
                    LookFails, Tell, PublicationOutcomeForStage, Verdicts, Stages
<1>7. CASE UNCHANGED vars
  BY <1>4, <1>7 DEF LeaseInv, TypeOK, vars
<1> QED
  BY <1>1, <1>2, <1>3, <1>5, <1>6, <1>7 DEF Next

\* The variables keep their types.
THEOREM PublicationTypes == Spec => []TypeOK
<1>1. LeaseInv => TypeOK
  BY DEF LeaseInv
<1> QED
  BY <1>1, InitLease, StepLease, PTL DEF Spec

\* One execution at most works under the lease: none is ever reclaimed under a
\* living holder, whatever the number of requesters.
THEOREM LeaseHolds == Spec => []LeaseIsExclusive
<1>1. LeaseInv => LeaseIsExclusive
  BY DEF LeaseInv
<1> QED
  BY <1>1, InitLease, StepLease, PTL DEF Spec

-----------------------------------------------------------------------------
(* Evidence.                                                               *)

Publishing == {"receipt", "sources", "release"}

\* What the objects prove of an execution: before it sends its manifest nothing
\* is committed, a receipt or a failed clean-up comes after a commit, and a
\* failure before publication rules one out for ever.
Proves(e) ==
    /\ worker[e].pc \in Acquiring \cup {"new", "refused", "read", "build"} =>
         commit[e] = 0 /\ e \notin inflight
    /\ e \in inflight => commit[e] = 0
    /\ worker[e].pc \in Publishing \/ receipt[e] # 0 \/ diagnostic[e] = "cleanup" =>
         commit[e] # 0
    /\ diagnostic[e] = "before" \/ "absent" \in told[e] =>
         commit[e] = 0 /\ e \notin inflight /\ worker[e].pc \in {"release_failed", "ended"}

EvidenceInv ==
    /\ \A e \in Executions : Proves(e)
    /\ reader.pc # "idle" => reader.of \in Executions

LEMMA InitEvidence == Init => EvidenceInv
BY DEF Init, EvidenceInv, Proves, Publishing

\* A worker's step concerns the worker alone, and commits nothing.
LEMMA WorkFrame ==
    ASSUME TypeOK, NEW e \in Executions, Arrive(e) \/ Work(e) \/ Fail(e)
    PROVE  /\ \A f \in Executions : f # e =>
                 /\ worker'[f] = worker[f] /\ receipt'[f] = receipt[f]
                 /\ diagnostic'[f] = diagnostic[f] /\ (f \in inflight' <=> f \in inflight)
           /\ UNCHANGED <<top, commit, told, reader>>
           /\ worker[e].pc # "read" => worker'[e].base = worker[e].base
<1> USE DEF TypeOK, Record, Goto, Become, Stop
<1> DEFINE Frame == /\ \A f \in Executions : f # e =>
                          /\ worker'[f] = worker[f] /\ receipt'[f] = receipt[f]
                          /\ diagnostic'[f] = diagnostic[f]
                          /\ (f \in inflight' <=> f \in inflight)
                    /\ UNCHANGED <<top, commit, told, reader>>
                    /\ worker[e].pc # "read" => worker'[e].base = worker[e].base
<1>0. worker[e] \in Worker
  OBVIOUS
<1>1. CASE Arrive(e)
  BY <1>0, <1>1 DEF Arrive, Worker
<1>2. ASSUME NEW next, NEW heard \in BOOLEAN, CreateLease(e, next, heard) PROVE Frame
  BY <1>2 DEF CreateLease
<1>3. CASE Inspect(e) \/ DeleteLease(e) \/ ReadManifest(e)
  BY <1>3 DEF Inspect, DeleteLease, ReadManifest
<1>4. CASE Probe(e)
  BY <1>0, <1>4 DEF Probe, Worker
<1>5. CASE SendManifest(e)
  BY <1>0, <1>5 DEF SendManifest, Worker
<1>6. ASSUME NEW heard \in BOOLEAN, Answer(e, heard) PROVE Frame
  BY <1>0, <1>6 DEF Answer, Worker
<1>7. ASSUME NEW readable \in BOOLEAN, NEW written \in BOOLEAN, Confirm(e, readable, written)
      PROVE  Frame
  BY <1>0, <1>7 DEF Confirm, Worker
<1>8. ASSUME NEW stored \in BOOLEAN, NEW heard \in BOOLEAN, WriteReceipt(e, stored, heard)
      PROVE  Frame
  BY <1>0, <1>8 DEF WriteReceipt, Worker
<1>9. ASSUME NEW ok \in BOOLEAN, NEW written \in BOOLEAN, WriteSources(e, ok, written)
      PROVE  Frame
  BY <1>0, <1>9 DEF WriteSources, Worker
<1>10. ASSUME NEW deleted \in BOOLEAN, NEW heard \in BOOLEAN, NEW written \in BOOLEAN,
              Release(e, deleted, heard, written)
       PROVE  Frame
  BY <1>10 DEF Release
<1>11. CASE AcquireFails(e) \/ Die(e)
  BY <1>11 DEF AcquireFails, Die
<1>12. ASSUME NEW written \in BOOLEAN, FailInputs(e, written) PROVE Frame
  BY <1>12 DEF FailInputs
<1>13. ASSUME NEW stage \in {"before", "receipt", "publish"}, NEW written \in BOOLEAN,
              FailBuild(e, stage, written)
       PROVE  Frame
  BY <1>0, <1>13 DEF FailBuild, Worker
<1> QED
  BY <1>1, <1>2, <1>3, <1>4, <1>5, <1>6, <1>7, <1>8, <1>9, <1>10, <1>11, <1>12, <1>13
     DEF Work, Fail, Create, Recreate

\* The control state after a step.
LEMMA PcAfter ==
    ASSUME TypeOK, NEW e \in Executions, NEW pc
    PROVE  /\ Goto(e, pc) => worker'[e].pc = pc
           /\ Stop(e, pc) => worker'[e].pc = pc
           /\ \A mine, seen : Become(e, pc, mine, seen) => worker'[e].pc = pc
BY DEF TypeOK, Worker, Goto, Stop, Become

\* What a worker writes of itself is true.
LEMMA WorkProves ==
    ASSUME TypeOK, EvidenceInv, NEW e \in Executions, Arrive(e) \/ Work(e) \/ Fail(e)
    PROVE  Proves(e)'
<1> DEFINE Quiet == commit[e] = 0 /\ e \notin inflight
<1>0. Proves(e) /\ UNCHANGED <<commit, told>>
  BY WorkFrame DEF EvidenceInv
<1>1. CASE Arrive(e)
  BY <1>0, <1>1, PcAfter DEF Arrive, Proves, Acquiring, Publishing
<1>2. ASSUME NEW next \in {"inspect", "refused"}, NEW heard \in BOOLEAN,
             worker[e].pc \in {"create", "recreate"}, CreateLease(e, next, heard)
      PROVE  Proves(e)'
  <2>1. worker'[e].pc \in {"read", "ended", next}
    BY <1>2, PcAfter DEF CreateLease
  <2> QED
    BY <1>0, <1>2, <2>1 DEF CreateLease, Proves, Acquiring, Publishing
<1>3. CASE Inspect(e) \/ DeleteLease(e) \/ Probe(e)
  <2>1. worker'[e].pc \in Acquiring \cup {"refused"}
    BY <1>3, PcAfter DEF Inspect, DeleteLease, Probe, Acquiring
  <2> QED
    BY <1>0, <1>3, <2>1 DEF Inspect, DeleteLease, Probe, Proves, Acquiring, Publishing
<1>4. CASE ReadManifest(e)
  <2>1. worker'[e].pc = "build"
    BY <1>4 DEF ReadManifest, TypeOK
  <2> QED
    BY <1>0, <1>4, <2>1 DEF ReadManifest, Proves, Acquiring, Publishing
<1>5. CASE SendManifest(e)
  BY <1>0, <1>5, PcAfter DEF SendManifest, Proves, Acquiring, Publishing
<1>6. ASSUME NEW heard \in BOOLEAN, Answer(e, heard) PROVE Proves(e)'
  BY <1>0, <1>6, PcAfter DEF Answer, Proves, Acquiring, Publishing
<1>7. ASSUME NEW readable \in BOOLEAN, NEW written \in BOOLEAN, Confirm(e, readable, written)
      PROVE  Proves(e)'
  <2>1. diagnostic'[e] \in {diagnostic[e], "publish"}
    BY <1>7 DEF Confirm, Record, TypeOK
  <2> QED
    BY <1>0, <1>7, <2>1, PcAfter DEF Confirm, Proves, Acquiring, Publishing
<1>8. ASSUME NEW stored \in BOOLEAN, NEW heard \in BOOLEAN, WriteReceipt(e, stored, heard)
      PROVE  Proves(e)'
  <2>1. receipt'[e] \in {receipt[e], commit[e]}
    BY <1>8 DEF WriteReceipt, TypeOK
  <2> QED
    BY <1>0, <1>8, <2>1, PcAfter DEF WriteReceipt, Proves, Acquiring, Publishing
<1>9. ASSUME NEW ok \in BOOLEAN, NEW written \in BOOLEAN, WriteSources(e, ok, written)
      PROVE  Proves(e)'
  <2>1. diagnostic'[e] \in {diagnostic[e], "receipt"}
    BY <1>9 DEF WriteSources, Record, TypeOK
  <2> QED
    BY <1>0, <1>9, <2>1, PcAfter DEF WriteSources, Proves, Acquiring, Publishing
<1>10. ASSUME NEW deleted \in BOOLEAN, NEW heard \in BOOLEAN, NEW written \in BOOLEAN,
              Release(e, deleted, heard, written)
       PROVE  Proves(e)'
  <2>1. /\ diagnostic'[e] \in {diagnostic[e], "cleanup"}
        /\ diagnostic'[e] # diagnostic[e] => worker[e].pc = "release"
    BY <1>10 DEF Release, Record, TypeOK
  <2> QED
    BY <1>0, <1>10, <2>1, PcAfter DEF Release, Proves, Acquiring, Publishing
<1>11. CASE AcquireFails(e) \/ Die(e)
  BY <1>0, <1>11, PcAfter DEF AcquireFails, Die, Proves, Acquiring, Publishing
<1>12. ASSUME NEW written \in BOOLEAN, FailInputs(e, written) PROVE Proves(e)'
  <2>1. diagnostic'[e] \in {diagnostic[e], "before"}
    BY <1>12 DEF FailInputs, Record, TypeOK
  <2> QED
    BY <1>0, <1>12, <2>1, PcAfter DEF FailInputs, Proves, Acquiring, Publishing
<1>13. ASSUME NEW stage \in {"before", "receipt", "publish"}, NEW written \in BOOLEAN,
              FailBuild(e, stage, written)
       PROVE  Proves(e)'
  <2>1. diagnostic'[e] \in {diagnostic[e], stage}
    BY <1>13 DEF FailBuild, Record, TypeOK
  <2> QED
    BY <1>0, <1>13, <2>1, PcAfter DEF FailBuild, Proves, Acquiring, Publishing
<1> QED
  BY <1>1, <1>2, <1>3, <1>4, <1>5, <1>6, <1>7, <1>8, <1>9, <1>10, <1>11, <1>12, <1>13
     DEF Work, Fail, Create, Recreate

LEMMA LandProves ==
    ASSUME TypeOK, EvidenceInv, NEW e \in Executions, Land(e)
    PROVE  EvidenceInv'
<1>1. /\ commit' \in {commit, [commit EXCEPT ![e] = top + 1]}
      /\ UNCHANGED <<worker, receipt, diagnostic, told, reader>>
      /\ e \in inflight /\ inflight' = inflight \ {e} /\ top + 1 # 0
  BY DEF Land, TypeOK
<1>2. Proves(e)'
  BY <1>1 DEF TypeOK, EvidenceInv, Proves, Acquiring, Publishing
<1>3. ASSUME NEW f \in Executions, f # e PROVE Proves(f)'
  BY <1>1, <1>3 DEF TypeOK, EvidenceInv, Proves
<1> QED
  BY <1>1, <1>2, <1>3 DEF EvidenceInv

\* A request says only what the evidence proves.
LEMMA LookTells ==
    ASSUME TypeOK, EvidenceInv, Look
    PROVE  /\ EvidenceInv'
           /\ \/ UNCHANGED told
              \/ \E e \in Executions, v \in Verdicts :
                   /\ told' = [told EXCEPT ![e] = @ \cup {v}]
                   /\ IF v = "committed" THEN commit[e] # 0 ELSE commit[e] = 0
<1> DEFINE e == reader.of
<1>1. reader.pc # "idle"
  BY DEF Look, LookAtReceipt, LookAtManifest, LookAtDiagnostic, LookFails
<1>2. e \in Executions /\ Proves(e)
  BY <1>1 DEF EvidenceInv
<1>3. UNCHANGED <<worker, inflight, top, commit, receipt, diagnostic>>
  BY DEF Look, LookAtReceipt, LookAtManifest, LookAtDiagnostic, LookFails
<1>4. CASE UNCHANGED told
  <2>1. \A f \in Executions : Proves(f)'
    BY <1>3, <1>4 DEF EvidenceInv, Proves
  <2>2. reader'.pc # "idle" => reader'.of \in Executions
    BY <1>2, <1>4 DEF TypeOK, Look, LookAtReceipt, LookAtManifest, LookAtDiagnostic, LookFails, Tell
  <2> QED
    BY <1>4, <2>1, <2>2 DEF EvidenceInv
<1>5. CASE ~UNCHANGED told
  <2>1. PICK v \in Verdicts :
          /\ told' = [told EXCEPT ![e] = @ \cup {v}] /\ reader'.pc = "idle"
          /\ v = "committed" => receipt[e] # 0 \/ commit[e] # 0 \/ diagnostic[e] = "cleanup"
          /\ v = "absent" => diagnostic[e] = "before"
    <3>1. CASE LookAtReceipt
      BY <1>5, <3>1 DEF LookAtReceipt, Tell, Verdicts
    <3>2. CASE LookAtManifest
      BY <1>5, <3>2 DEF LookAtManifest, Tell, Verdicts
    <3>3. ASSUME NEW v, v = "unknown", Tell(e, v) PROVE UNCHANGED told
      <4>1. told' = [told EXCEPT ![e] = told[e] \cup ({v} \ {"unknown"})]
        BY <3>3 DEF Tell
      <4> QED
        BY <1>2, <3>3, <4>1 DEF TypeOK
    <3>4. CASE LookFails
      BY <1>5, <3>3, <3>4 DEF LookFails
    <3>5. CASE LookAtDiagnostic
      <4> DEFINE v == PublicationOutcomeForStage(diagnostic[e])
      <4>1. v \in Verdicts \cup {"unknown"} /\ Tell(e, v)
        BY <3>5 DEF LookAtDiagnostic, PublicationOutcomeForStage, Verdicts
      <4>2. v \in Verdicts
        BY <1>5, <3>3, <4>1
      <4>3. /\ v = "committed" => diagnostic[e] = "cleanup"
            /\ v = "absent" => diagnostic[e] = "before"
        BY DEF PublicationOutcomeForStage
      <4>4. told' = [told EXCEPT ![e] = @ \cup {v}] /\ reader'.pc = "idle"
        BY <4>1, <4>2 DEF Tell, Verdicts
      <4> HIDE DEF v
      <4> QED
        BY <4>2, <4>3, <4>4
    <3> QED
      BY <3>1, <3>2, <3>4, <3>5 DEF Look
  <2>2. IF v = "committed" THEN commit[e] # 0 ELSE commit[e] = 0
    BY <1>2, <2>1 DEF Proves, Verdicts
  <2>3. \A f \in Executions : Proves(f)'
    <3>1. \A f \in Executions : "absent" \in told'[f] =>
             "absent" \in told[f] \/ (f = e /\ v = "absent")
      <4>1. told \in [Executions -> SUBSET Verdicts]
        BY DEF TypeOK
      <4>2. \A f \in Executions : told'[f] = IF f = e THEN told[e] \cup {v} ELSE told[f]
        BY <1>2, <2>1, <4>1
      <4>3. ASSUME NEW f \in Executions, "absent" \in told'[f], "absent" \notin told[f]
            PROVE  f = e /\ v = "absent"
        <5>1. f = e
          BY <4>2, <4>3
        <5>2. "absent" \in told[e] \cup {v}
          BY <4>2, <4>3, <5>1
        <5> QED
          BY <4>3, <5>1, <5>2
      <4> QED
        BY <4>3
    <3> QED
      BY <1>3, <2>1, <3>1 DEF EvidenceInv, Proves
  <2> QED
    BY <1>2, <2>1, <2>2, <2>3 DEF EvidenceInv
<1> QED
  BY <1>4, <1>5

LEMMA StepEvidence ==
    ASSUME LeaseInv, EvidenceInv, [Next]_vars PROVE EvidenceInv'
<1>0. TypeOK
  BY DEF LeaseInv
<1>1. ASSUME NEW e \in Executions, Arrive(e) \/ Work(e) \/ Fail(e) PROVE EvidenceInv'
  <2>1. ASSUME NEW f \in Executions, f # e PROVE Proves(f)'
    BY <1>0, <1>1, <2>1, WorkFrame DEF EvidenceInv, Proves
  <2> QED
    BY <1>0, <1>1, <2>1, WorkProves, WorkFrame DEF EvidenceInv
<1>2. ASSUME NEW e \in Executions, Ask(e) PROVE EvidenceInv'
  BY <1>2 DEF EvidenceInv, Proves, Ask
<1>3. CASE UNCHANGED vars
  BY <1>3 DEF EvidenceInv, Proves, vars
<1> QED
  BY <1>0, <1>1, <1>2, <1>3, LandProves, LookTells DEF Next

\* The publication implements the abstract chain: every generation is compiled
\* from the one before it, and what the BFF tells of an execution is true for
\* ever, whatever is lost, late or dead.
THEOREM PublicationImplements == Spec => ImplementsChain
<1>1. Init => Chain!ChainInit
  BY DEF Init, Chain!ChainInit
<1>2. LeaseInv /\ EvidenceInv /\ [Next]_vars => [Chain!ChainNext]_Chain!chainVars
  <2> SUFFICES ASSUME LeaseInv, EvidenceInv, [Next]_vars
               PROVE  [Chain!ChainNext]_Chain!chainVars
    OBVIOUS
  <2>0. TypeOK
    BY DEF LeaseInv
  <2> DEFINE parent == [e \in Executions |-> IF commit[e] = 0 THEN 0 ELSE worker[e].base]
  <2>1. ASSUME UNCHANGED <<top, commit, told>>,
               \A e \in Executions : commit[e] # 0 => worker'[e].base = worker[e].base
        PROVE  UNCHANGED Chain!chainVars
    BY <2>1 DEF Chain!chainVars
  <2>2. ASSUME NEW e \in Executions, Arrive(e) \/ Work(e) \/ Fail(e)
        PROVE  UNCHANGED Chain!chainVars
    <3>1. worker[e].pc = "read" => commit[e] = 0
      BY DEF EvidenceInv, Proves
    <3> QED
      BY <2>0, <2>1, <2>2, <3>1, WorkFrame
  <2>3. ASSUME NEW e \in Executions, Land(e)
        PROVE  [Chain!ChainNext]_Chain!chainVars
    <3>1. CASE ~Replaces(e)
      BY <2>1, <2>3, <3>1 DEF Land
    <3>2. CASE Replaces(e)
      <4>1. commit[e] = 0 /\ "absent" \notin told[e]
        BY <2>3 DEF Land, EvidenceInv, Proves
      <4>2. /\ top' = top + 1 /\ commit' = [commit EXCEPT ![e] = top + 1]
            /\ UNCHANGED <<worker, told>> /\ worker[e].base = top
        BY <2>3, <3>2 DEF Land, Replaces
      <4>3. parent' = [parent EXCEPT ![e] = top]
        <5>1. /\ commit \in [Executions -> Nat] /\ top + 1 # 0
              /\ \A f \in Executions :
                   commit'[f] = IF f = e THEN top + 1 ELSE commit[f]
          BY <2>0, <4>2 DEF TypeOK
        <5>2. parent' = [f \in Executions |-> IF commit'[f] = 0 THEN 0 ELSE worker'[f].base]
          OBVIOUS
        <5>3. \A f \in Executions : parent'[f] = IF f = e THEN top ELSE parent[f]
          BY <4>2, <5>1, <5>2
        <5> HIDE DEF parent
        <5> QED
          BY <5>2, <5>3 DEF parent
      <4> QED
        BY <4>1, <4>2, <4>3 DEF Chain!Publish, Chain!ChainNext
    <3> QED
      BY <3>1, <3>2
  <2>4. ASSUME Look PROVE [Chain!ChainNext]_Chain!chainVars
    <3>1. UNCHANGED <<top, commit, worker>>
      BY <2>4 DEF Look, LookAtReceipt, LookAtManifest, LookAtDiagnostic, LookFails
    <3>2. CASE UNCHANGED told
      BY <2>1, <3>1, <3>2
    <3>3. ASSUME NEW e \in Executions, NEW v \in Verdicts,
                 told' = [told EXCEPT ![e] = @ \cup {v}],
                 IF v = "committed" THEN commit[e] # 0 ELSE commit[e] = 0
          PROVE  Chain!ChainNext
      <4>1. UNCHANGED parent
        BY <3>1
      <4> QED
        BY <3>1, <3>3, <4>1 DEF Chain!Tell, Chain!ChainNext, Verdicts
    <3> QED
      BY <2>0, <2>4, <3>2, <3>3, LookTells
  <2>5. ASSUME NEW e \in Executions, Ask(e) PROVE UNCHANGED Chain!chainVars
    BY <2>1, <2>5 DEF Ask
  <2>6. CASE UNCHANGED vars
    BY <2>1, <2>6 DEF vars
  <2> QED
    BY <2>2, <2>3, <2>4, <2>5, <2>6 DEF Next
<1> QED
  BY <1>1, <1>2, InitLease, StepLease, InitEvidence, StepEvidence, PTL
     DEF Spec, ImplementsChain, Chain!ChainSpec

-----------------------------------------------------------------------------
(* An execution that is alone.                                             *)

Alone(e) ==
    alone[e] =>
      /\ \A f \in Executions : f # e => ~Running(f)
      /\ worker[e].pc \in {"probe", "delete"} => worker[e].seen = lease
      /\ worker[e].pc = "recreate" => lease = NoLease
      /\ worker[e].pc = "refused" => lease.holder = e

AloneInv == \A e \in Executions : Alone(e)

LEMMA InitAlone == Init => AloneInv
BY DEF Init, AloneInv, Alone

\* Only a running execution takes a step, and none but its own changes the lease.
LEMMA OnlyRunningWork ==
    ASSUME TypeOK, NEW e \in Executions, Work(e) \/ Fail(e)
    PROVE  Running(e) /\ UNCHANGED alone
BY DEF Work, Fail, Create, Recreate, CreateLease, Inspect, Probe, DeleteLease, ReadManifest,
       SendManifest, Answer, Confirm, WriteReceipt, WriteSources, Release, AcquireFails,
       FailInputs, FailBuild, Die, Running, Acquiring

\* Alone, an execution meets its own lease or that of a dead one, and nobody
\* interferes with its reclaim.
LEMMA WorkAlone ==
    ASSUME LeaseInv, NEW e \in Executions, Alone(e), alone[e], Work(e) \/ Fail(e)
    PROVE  /\ worker'[e].pc \in {"probe", "delete"} => worker'[e].seen = lease'
           /\ worker'[e].pc = "recreate" => lease' = NoLease
           /\ worker'[e].pc = "refused" => lease'.holder = e
<1> DEFINE Good == /\ worker'[e].pc \in {"probe", "delete"} => worker'[e].seen = lease'
                   /\ worker'[e].pc = "recreate" => lease' = NoLease
                   /\ worker'[e].pc = "refused" => lease'.holder = e
           Elsewhere == Holding \cup {"ended", "create", "inspect"}
<1> SUFFICES Good
  OBVIOUS
<1>0. TypeOK /\ worker[e] \in Worker
  BY DEF LeaseInv, TypeOK
<1>1. ASSUME worker'[e].pc \in Elsewhere PROVE Good
  BY <1>1 DEF Holding
<1>2. ASSUME NEW heard \in BOOLEAN, Create(e, heard) PROVE Good
  <2>1. worker'[e].pc \in {"read", "ended", "inspect"}
    BY <1>0, <1>2, PcAfter DEF Create, CreateLease
  <2> QED
    BY <1>1, <2>1 DEF Holding
<1>3. ASSUME NEW heard \in BOOLEAN, Recreate(e, heard) PROVE Good
  <2>1. lease' = [holder |-> e, gen |-> leases + 1]
    BY <1>3 DEF Recreate, CreateLease, Alone
  <2>2. worker'[e].pc \in {"read", "ended", "refused"}
    BY <1>0, <1>3, PcAfter DEF Recreate, CreateLease
  <2> QED
    BY <2>1, <2>2
<1>4. CASE Inspect(e)
  <2>1. /\ worker'[e].pc = IF lease = NoLease THEN "recreate" ELSE "probe"
        /\ worker'[e].seen = lease /\ lease' = lease
    BY <1>0, <1>4 DEF TypeOK, Inspect, Become
  <2> QED
    BY <2>1
<1>5. CASE Probe(e)
  <2>1. worker[e].seen = lease /\ lease # NoLease /\ lease.holder \in Executions /\ lease' = lease
    BY <1>5 DEF Probe, Alone, LeaseInv, Knows, Genuine
  <2>2. CASE Reclaimable(e)
    <3>1. Moved(e, "delete", worker[e].mine, worker[e].seen, worker[e].base)
      BY <1>0, <1>5, <2>2, GotoMoves DEF Probe
    <3>2. worker'[e].pc = "delete" /\ worker'[e].seen = worker[e].seen
      BY <1>0, <3>1 DEF TypeOK, Moved
    <3> QED
      BY <2>1, <3>2
  <2>3. CASE ~Reclaimable(e)
    <3>1. lease.holder = e
      BY <2>1, <2>3 DEF Reclaimable, Alone
    <3>2. worker'[e].pc = "refused"
      BY <1>0, <1>5, <2>3, PcAfter DEF Probe
    <3> QED
      BY <2>1, <3>1, <3>2
  <2> QED
    BY <2>2, <2>3
<1>6. CASE DeleteLease(e)
  <2>1. lease' = NoLease
    BY <1>6 DEF DeleteLease, Deletes, Alone
  <2>2. worker'[e].pc = "recreate"
    BY <1>0, <1>6, PcAfter DEF DeleteLease
  <2> QED
    BY <2>1, <2>2
<1>7. ASSUME NEW pc \in Elsewhere, Goto(e, pc) \/ Stop(e, pc) PROVE Good
  BY <1>0, <1>1, <1>7, PcAfter
<1>8. CASE ReadManifest(e)
  BY <1>0, <1>1, <1>8 DEF ReadManifest, TypeOK, Holding
<1>9. CASE SendManifest(e)
  BY <1>7, <1>9 DEF SendManifest, Holding
<1>10. ASSUME NEW heard \in BOOLEAN, Answer(e, heard) PROVE Good
  BY <1>7, <1>10 DEF Answer, Holding
<1>11. ASSUME NEW readable \in BOOLEAN, NEW written \in BOOLEAN, Confirm(e, readable, written)
       PROVE  Good
  BY <1>7, <1>11 DEF Confirm, Holding
<1>12. ASSUME NEW stored \in BOOLEAN, NEW heard \in BOOLEAN, WriteReceipt(e, stored, heard)
       PROVE  Good
  BY <1>7, <1>12 DEF WriteReceipt, Holding
<1>13. ASSUME NEW ok \in BOOLEAN, NEW written \in BOOLEAN, WriteSources(e, ok, written)
       PROVE  Good
  BY <1>7, <1>13 DEF WriteSources, Holding
<1>14. ASSUME NEW deleted \in BOOLEAN, NEW heard \in BOOLEAN, NEW written \in BOOLEAN,
              Release(e, deleted, heard, written)
       PROVE  Good
  BY <1>7, <1>14 DEF Release
<1>15. CASE AcquireFails(e) \/ Die(e)
  BY <1>7, <1>15 DEF AcquireFails, Die
<1>16. ASSUME NEW written \in BOOLEAN, FailInputs(e, written) PROVE Good
  BY <1>7, <1>16 DEF FailInputs
<1>17. ASSUME NEW stage \in {"before", "receipt", "publish"}, NEW written \in BOOLEAN,
              FailBuild(e, stage, written)
       PROVE  Good
  BY <1>7, <1>17 DEF FailBuild, Holding
<1> HIDE DEF Good, Elsewhere
<1> QED
  BY <1>2, <1>3, <1>4, <1>5, <1>6, <1>8, <1>9, <1>10, <1>11, <1>12, <1>13, <1>14, <1>15,
     <1>16, <1>17 DEF Work, Fail

LEMMA StepAlone ==
    ASSUME LeaseInv, AloneInv, [Next]_vars PROVE AloneInv'
<1>0. TypeOK
  BY DEF LeaseInv
<1>1. ASSUME NEW e \in Executions, Arrive(e), NEW f \in Executions PROVE Alone(f)'
  <2>1. alone'[f] => f = e /\ \A g \in Executions : ~Running(g)
    BY <1>1 DEF Arrive
  <2>2. worker'[e].pc = "create" /\ \A g \in Executions : g # e => worker'[g] = worker[g]
    BY <1>0, <1>1, PcAfter, WorkFrame DEF Arrive
  <2> QED
    BY <2>1, <2>2 DEF Alone, Running
<1>2. ASSUME NEW e \in Executions, Work(e) \/ Fail(e), NEW f \in Executions PROVE Alone(f)'
  <2>1. SUFFICES ASSUME alone[f] PROVE Alone(f)'
    BY <1>0, <1>2, OnlyRunningWork DEF Alone
  <2>2. f = e
    BY <1>0, <1>2, <2>1, OnlyRunningWork DEF AloneInv, Alone
  <2>3. \A g \in Executions : g # e => ~Running(g)'
    BY <1>0, <1>2, <2>1, <2>2, WorkFrame DEF AloneInv, Alone, Running
  <2> QED
    BY <1>2, <2>1, <2>2, <2>3, WorkAlone DEF AloneInv, Alone
<1>3. ASSUME UNCHANGED <<lease, worker, alone>> PROVE AloneInv'
  BY <1>3 DEF AloneInv, Alone, Running
<1>4. ASSUME NEW e \in Executions, Land(e) \/ Ask(e) PROVE AloneInv'
  BY <1>3, <1>4 DEF Land, Ask
<1>5. CASE Look
  BY <1>3, <1>5 DEF Look, LookAtReceipt, LookAtManifest, LookAtDiagnostic, LookFails
<1>6. CASE UNCHANGED vars
  BY <1>3, <1>6 DEF vars
<1> QED
  BY <1>1, <1>2, <1>4, <1>5, <1>6 DEF Next, AloneInv

\* What a dead execution left behind stops nobody: who is refused was not alone,
\* or met the lease that it had itself created.
THEOREM OnlyTheLivingRefuse == Spec => []RefusedByTheLiving
<1>1. AloneInv => RefusedByTheLiving
  BY DEF AloneInv, Alone, RefusedByTheLiving
<1> QED
  BY <1>1, InitLease, StepLease, InitAlone, StepAlone, PTL DEF Spec

-----------------------------------------------------------------------------
(* Runs without faults.                                                    *)

Calm(e) ==
    /\ worker[e].pc \notin {"confirm", "release_failed"}
    /\ e \in inflight => worker[e].pc = "sent"
    /\ worker[e].pc = "build" \/ e \in inflight => worker[e].base = top
    /\ worker[e].pc = "sent" /\ e \notin inflight => commit[e] # 0

CalmInv == faults = 0 => \A e \in Executions : Calm(e)

LEMMA InitCalm == Init => CalmInv
<1> SUFFICES ASSUME Init, NEW e \in Executions PROVE Calm(e)
  BY DEF CalmInv
<1>1. worker[e].pc = "new" /\ e \notin inflight
  BY DEF Init
<1> QED
  BY <1>1 DEF Calm

LEMMA WorkCalm ==
    ASSUME TypeOK, NEW e \in Executions, Calm(e), faults' = 0, Arrive(e) \/ Work(e) \/ Fail(e)
    PROVE  Calm(e)'
<1>0. worker[e] \in Worker /\ faults \in Nat /\ UNCHANGED <<top, commit>>
  BY WorkFrame DEF TypeOK
<1>1. faults = 0 /\ ~Fail(e)
  BY <1>0 DEF Fail, AcquireFails, FailInputs, FailBuild, Die, Arrive, Work, Create, Recreate,
              CreateLease, Inspect, Probe, DeleteLease, ReadManifest, SendManifest, Answer,
              Confirm, WriteReceipt, WriteSources, Release
<1>2. CASE Arrive(e)
  BY <1>0, <1>2, PcAfter DEF Arrive, Calm
<1>3. ASSUME NEW heard \in BOOLEAN, Create(e, heard) \/ Recreate(e, heard) PROVE Calm(e)'
  <2>1. worker'[e].pc \in {"read", "ended", "inspect", "refused"}
    BY <1>3, PcAfter DEF Create, Recreate, CreateLease
  <2> QED
    BY <1>0, <1>3, <2>1 DEF Create, Recreate, CreateLease, Calm
<1>4. CASE Inspect(e) \/ Probe(e) \/ DeleteLease(e)
  <2>1. worker'[e].pc \in Acquiring \cup {"refused"}
    BY <1>4, PcAfter DEF Inspect, Probe, DeleteLease, Acquiring
  <2> QED
    BY <1>0, <1>4, <2>1 DEF Inspect, Probe, DeleteLease, Acquiring, Calm
<1>5. CASE ReadManifest(e)
  BY <1>0, <1>5 DEF ReadManifest, Calm, TypeOK
<1>6. CASE SendManifest(e)
  BY <1>0, <1>6, PcAfter, WorkFrame DEF SendManifest, Calm
<1>7. ASSUME NEW heard \in BOOLEAN, Answer(e, heard) PROVE Calm(e)'
  BY <1>0, <1>1, <1>7, PcAfter DEF Answer, Calm
<1>8. ASSUME NEW stored \in BOOLEAN, NEW heard \in BOOLEAN, WriteReceipt(e, stored, heard)
      PROVE  Calm(e)'
  BY <1>0, <1>1, <1>8, PcAfter DEF WriteReceipt, Calm
<1>9. ASSUME NEW ok \in BOOLEAN, NEW written \in BOOLEAN, WriteSources(e, ok, written)
      PROVE  Calm(e)'
  BY <1>0, <1>1, <1>9, PcAfter DEF WriteSources, Calm
<1>10. ASSUME NEW deleted \in BOOLEAN, NEW heard \in BOOLEAN, NEW written \in BOOLEAN,
              Release(e, deleted, heard, written)
       PROVE  Calm(e)'
  BY <1>0, <1>10, PcAfter DEF Release, Calm
<1>11. \A readable, written \in BOOLEAN : ~Confirm(e, readable, written)
  BY DEF Confirm, Calm
<1> QED
  BY <1>1, <1>2, <1>3, <1>4, <1>5, <1>6, <1>7, <1>8, <1>9, <1>10, <1>11 DEF Work

LEMMA StepCalm ==
    ASSUME LeaseInv, CalmInv, [Next]_vars PROVE CalmInv'
<1>0. TypeOK
  BY DEF LeaseInv
<1> SUFFICES ASSUME faults' = 0, NEW f \in Executions PROVE Calm(f)'
  BY DEF CalmInv
<1>1. ASSUME NEW e \in Executions, Arrive(e) \/ Work(e) \/ Fail(e) PROVE Calm(f)'
  <2>1. faults = 0
    BY <1>0, <1>1
       DEF TypeOK, Fail, AcquireFails, FailInputs, FailBuild, Die, Arrive, Work, Create, Recreate,
           CreateLease, Inspect, Probe, DeleteLease, ReadManifest, SendManifest, Answer,
           Confirm, WriteReceipt, WriteSources, Release
  <2>2. CASE f = e
    BY <1>0, <1>1, <2>1, <2>2, WorkCalm DEF CalmInv
  <2>3. CASE f # e
    BY <1>0, <1>1, <2>1, <2>3, WorkFrame DEF CalmInv, Calm
  <2> QED
    BY <2>2, <2>3
<1>2. ASSUME NEW e \in Executions, Land(e) PROVE Calm(f)'
  <2>1. /\ faults = 0 /\ e \in inflight /\ inflight' = inflight \ {e} /\ UNCHANGED worker
        /\ worker[e].pc = "sent" /\ worker[e].base = top
    BY <1>2 DEF Land, CalmInv, Calm
  <2>2. top' = top + 1 /\ commit' = [commit EXCEPT ![e] = top + 1]
    BY <1>2, <2>1 DEF Land, Replaces
  <2>3. CASE f = e
    BY <1>0, <2>1, <2>2, <2>3 DEF TypeOK, Calm
  <2>4. CASE f # e
    <3>1. worker[f].pc \notin Holding
      BY <2>1, <2>4 DEF LeaseInv, LeaseIsExclusive, Holding
    <3> QED
      BY <2>1, <2>2, <2>4, <3>1 DEF CalmInv, Calm, Holding
  <2> QED
    BY <2>3, <2>4
<1>3. ASSUME UNCHANGED <<worker, inflight, top, commit, faults>> PROVE Calm(f)'
  BY <1>3 DEF CalmInv, Calm
<1>4. ASSUME NEW e \in Executions, Ask(e) PROVE Calm(f)'
  BY <1>3, <1>4 DEF Ask
<1>5. CASE Look
  BY <1>3, <1>5 DEF Look, LookAtReceipt, LookAtManifest, LookAtDiagnostic, LookFails
<1>6. CASE UNCHANGED vars
  BY <1>3, <1>6 DEF vars
<1> QED
  BY <1>1, <1>2, <1>4, <1>5, <1>6 DEF Next

\* As long as no call fails and nobody dies, the manifest that a run replaces is
\* the one it was compiled from: the lease spares every run a lost generation.
THEOREM NoConflictWithoutFault == Spec => []ConflictNeedsFault
<1>1. CalmInv => ConflictNeedsFault
  BY DEF CalmInv, Calm, ConflictNeedsFault
<1> QED
  BY <1>1, InitLease, StepLease, InitCalm, StepCalm, PTL DEF Spec

=============================================================================
