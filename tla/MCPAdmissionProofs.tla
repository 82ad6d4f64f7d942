-------------------------- MODULE MCPAdmissionProofs --------------------------
(***************************************************************************)
(* Machine-checked proofs about MCPAdmission, for any calls, processes,    *)
(* policies and bounds.                                                    *)
(***************************************************************************)
EXTENDS MCPAdmission, FiniteSetTheorems, TLAPS

Spent(r) == {c \in granted : r \in KeysOf(c)}

\* What is known of a record that exists.  Leases that it holds have kept its
\* limits within the policy of every one of them, and their number within these.
Sound(rec, r) ==
    /\ rec.revision \in Policies /\ rec.limits \in Limits
    /\ rec.limits.inflight <= Policy[rec.revision][r].inflight
    /\ rec.limits.capacity <= MaxCapacity /\ rec.limits.refill <= MaxRefill
    /\ r # Fleet => rec.limits.capacity >= Unit
    /\ \A c \in Leases(rec) : rec.limits.inflight <= Policy[PolicyOf[HostOf[c]]][r].inflight
    /\ Cardinality(Leases(rec)) <= rec.limits.inflight
    /\ rec.created <= rec.refilled /\ rec.refilled <= rec.updated /\ rec.updated <= now + Skew

Paid(rec, r) ==
    r # Fleet => Unit * Cardinality(Spent(r)) + rec.tokens
                   <= MaxCapacity + MaxRefill * (rec.refilled - rec.created)

RecordInv(r) ==
    /\ \A c \in Calls : /\ record[r].expires[c] <= now + Skew + LeaseTime
                        /\ record[r].expires[c] > 0 => r \in KeysOf(c) /\ c \in granted
    /\ IF record[r].revision = NoOne
       THEN record[r] = Missing /\ Spent(r) = {}
       ELSE Sound(record[r], r) /\ Paid(record[r], r)

\* Leases that were granted and not given back outlast the work.
CallInv(c) ==
    /\ call[c].clock <= now + Skew
    /\ call[c].pc \in Holding => call[c].began <= call[c].clock /\ call[c].began <= now
    /\ c \in leaving => call[c].pc \in {"closing", "done", "dead"}
    /\ c \in flying => call[c].pc \notin {"new", "waiting"}
    /\ call[c].pc \in {"new", "waiting"} => c \notin granted
    /\ call[c].pc \in {"admitted", "running"} => c \in granted
    /\ call[c].pc \in AtGate \cup {"running"} /\ c \in granted /\ now < call[c].began + WorkTime =>
         \A r \in KeysOf(c) : record[r].expires[c] >= call[c].clock + LeaseTime

\* What a call without a fault has under way, and what it holds.
LuckyInv(c) ==
    c \notin unlucky =>
      /\ c \in flying <=> call[c].pc = "admitting"
      /\ c \in leaving <=> call[c].pc = "closing"
      /\ call[c].pc \notin {"looking", "dead"}
      /\ call[c].pc \notin {"admitted", "running", "closing"} =>
           \A r \in Records : record[r].expires[c] = 0

\* A process's gate is held by the one call that passed it.
GateInv == \A c \in Calls : call[c].pc \in AtGate <=> gate[HostOf[c]] = c

Shape == TypeOK /\ GateInv

CallsCounted ==
    \A h \in Hosts :
      /\ active[h] = Cardinality({c \in Calls : HostOf[c] = h /\ call[c].pc \in Holding})
      /\ active[h] <= LocalMax

IndInv ==
    /\ Shape
    /\ \A r \in Records : RecordInv(r)
    /\ \A c \in Calls : CallInv(c) /\ LuckyInv(c)
    /\ CallsCounted

-----------------------------------------------------------------------------
(* Facts about what the actions are built from.                            *)

\* A step that only moves a call's control.
LEMMA GoFacts ==
    ASSUME call \in [Calls -> Call], NEW c \in Calls,
           NEW pc \in Holding \cup {"new", "done", "dead"}, Go(c, pc)
    PROVE  /\ call' \in [Calls -> Call]
           /\ call'[c].pc = pc /\ call'[c].clock = call[c].clock /\ call'[c].began = call[c].began
           /\ \A d \in Calls \ {c} : call'[d] = call[d]
BY DEF Go, Call

\* The end of a call.
LEMMA EndFacts ==
    ASSUME call \in [Calls -> Call], NEW c \in Calls, EndCall(c)
    PROVE  /\ call' \in [Calls -> Call]
           /\ call'[c].pc = "done" /\ call'[c].clock = call[c].clock
           /\ \A d \in Calls \ {c} : call'[d] = call[d]
<1> DEFINE w == [call[c] EXCEPT !.pc = "done", !.began = 0]
<1>1. 0 \in Times
  BY AdmissionAssumption DEF Times
<1>2. w \in Call /\ w.pc = "done" /\ w.clock = call[c].clock
  BY <1>1 DEF Call
<1>3. call' = [call EXCEPT ![c] = w]
  BY DEF EndCall
<1> HIDE DEF w
<1> QED BY <1>2, <1>3

\* The three records of a call.
LEMMA KeysType ==
    ASSUME NEW c \in Calls
    PROVE  /\ KeysOf(c) \subseteq Records /\ HostOf[c] \in Hosts
           /\ PolicyOf[HostOf[c]] \in Policies
BY AdmissionAssumption DEF KeysOf

\* A part of the calls is finite.
LEMMA FiniteCalls ==
    ASSUME NEW S \in SUBSET Calls
    PROVE  IsFiniteSet(S) /\ Cardinality(S) \in Nat
BY FS_Subset, FS_CardinalityType, AdmissionAssumption

\* The latest time is none of the future, and not before any record's.
LEMMA EffectiveFacts ==
    ASSUME Shape, \A r \in Records : record[r].updated <= now + Skew,
           NEW c \in Calls, NEW clock \in Nat, clock <= now + Skew
    PROVE  /\ Effective(c, clock) \in Times /\ Effective(c, clock) <= now + Skew
           /\ clock <= Effective(c, clock)
           /\ \A r \in KeysOf(c) : record[r].updated <= Effective(c, clock)
<1>1. \A r \in Records : record[r].updated \in Nat
  BY AdmissionAssumption DEF Shape, TypeOK, Record, Times
<1>2. now + Skew <= MaxTime + Skew + LeaseTime /\ now \in Nat /\ Skew \in Nat
      /\ MaxTime \in Nat /\ LeaseTime \in Nat
  BY AdmissionAssumption DEF Shape, TypeOK
<1>3. Fleet \in Records /\ ProjectOf[c] \in Records /\ AccountOf[c] \in Records
  BY AdmissionAssumption
<1>4. \A x, y, m \in Nat : x <= m /\ y <= m =>
        Later(x, y) \in Nat /\ Later(x, y) <= m /\ Later(x, y) >= x /\ Later(x, y) >= y
  BY DEF Later
<1> DEFINE p == record[ProjectOf[c]].updated
           a == record[AccountOf[c]].updated
           f == record[Fleet].updated
<1>5. p \in Nat /\ a \in Nat /\ f \in Nat /\ p <= now + Skew /\ a <= now + Skew /\ f <= now + Skew
  BY <1>1, <1>3
<1>6. Effective(c, clock) = Later(clock, Later(p, Later(a, f)))
  BY DEF Effective
<1>7. KeysOf(c) = {ProjectOf[c], AccountOf[c], Fleet}
  BY DEF KeysOf
<1> DEFINE x == Later(a, f)
           y == Later(p, x)
<1>8. x \in Nat /\ x <= now + Skew /\ x >= a /\ x >= f
  <2> HIDE DEF p, a, f
  <2> QED BY <1>4, <1>5, <1>2
<1>9. y \in Nat /\ y <= now + Skew /\ y >= p /\ y >= x
  <2> HIDE DEF x, p, a, f
  <2> QED BY <1>4, <1>5, <1>8, <1>2
<1>10. LET e == Effective(c, clock) IN
       e \in Nat /\ e <= now + Skew /\ e >= clock /\ e >= p /\ e >= a /\ e >= f
  <2>1. LET e == Later(clock, y) IN e \in Nat /\ e <= now + Skew /\ e >= clock /\ e >= y
    <3> HIDE DEF y
    <3> QED BY <1>4, <1>9, <1>2
  <2> HIDE DEF x, p, a, f
  <2>2. Effective(c, clock) = Later(clock, y)
    BY <1>6 DEF x
  <2> HIDE DEF y
  <2> QED BY <2>1, <2>2, <1>5, <1>8, <1>9
<1>11. Effective(c, clock) \in Times
  BY <1>10, <1>2 DEF Times
<1>12. \A r \in KeysOf(c) : record[r].updated <= Effective(c, clock)
  BY <1>7, <1>10 DEF p, a, f
<1> QED BY <1>10, <1>11, <1>12

\* The number of a process's calls is kept by a step that starts and ends none.
LEMMA CountKept ==
    ASSUME CallsCounted, active' = active,
           \A d \in Calls : call'[d].pc \in Holding <=> call[d].pc \in Holding
    PROVE  CallsCounted'
<1>1. ASSUME NEW h \in Hosts
      PROVE  {d \in Calls : HostOf[d] = h /\ call'[d].pc \in Holding}
               = {d \in Calls : HostOf[d] = h /\ call[d].pc \in Holding}
  OBVIOUS
<1> QED BY <1>1 DEF CallsCounted

\* A call that ends is counted no more.
LEMMA CountEnded ==
    ASSUME Shape, CallsCounted, NEW c \in Calls, call[c].pc \in Holding, EndCall(c)
    PROVE  CallsCounted' /\ active' \in [Hosts -> Nat]
<1> DEFINE H(h) == {d \in Calls : HostOf[d] = h /\ call[d].pc \in Holding}
           G(h) == {d \in Calls : HostOf[d] = h /\ call'[d].pc \in Holding}
           k    == HostOf[c]
<1>1. k \in Hosts
  BY KeysType
<1>2. active \in [Hosts -> Nat] /\ active' = [active EXCEPT ![k] = @ - 1]
  BY DEF Shape, TypeOK, EndCall, Leave
<1>3. \A h \in Hosts : active[h] = Cardinality(H(h)) /\ active[h] <= LocalMax
  BY DEF CallsCounted
<1>4. /\ call'[c].pc = "done" /\ \A d \in Calls \ {c} : call'[d] = call[d]
  BY EndFacts DEF Shape, TypeOK
<1>5. G(k) = H(k) \ {c} /\ c \in H(k)
  BY <1>4 DEF Holding, AtGate
<1>6. IsFiniteSet(H(k)) /\ Cardinality(H(k)) \in Nat
  BY FiniteCalls, H(k) \in SUBSET Calls
<1>7. Cardinality(G(k)) = Cardinality(H(k)) - 1 /\ Cardinality(G(k)) \in Nat
  <2>1. Cardinality(G(k)) = Cardinality(H(k)) - 1
    <3> HIDE DEF G, H
    <3> QED BY <1>5, <1>6, FS_RemoveElement
  <2>2. Cardinality(G(k)) \in Nat
    BY FiniteCalls, G(k) \in SUBSET Calls
  <2> QED BY <2>1, <2>2
<1>8. active'[k] = Cardinality(G(k)) /\ active'[k] <= LocalMax
  BY <1>1, <1>2, <1>3, <1>6, <1>7, AdmissionAssumption
<1>9. ASSUME NEW h \in Hosts, h # k
      PROVE  active'[h] = Cardinality(G(h)) /\ active'[h] <= LocalMax
  <2>1. G(h) = H(h)
    BY <1>4, <1>9
  <2> QED BY <2>1, <1>2, <1>3, <1>9
<1>10. \A h \in Hosts : active'[h] = Cardinality(G(h)) /\ active'[h] <= LocalMax
  BY <1>8, <1>9
<1>11. active' \in [Hosts -> Nat]
  <2>1. active'[k] \in Nat
    BY <1>7, <1>8
  <2> QED BY <2>1, <1>1, <1>2
<1> QED BY <1>10, <1>11 DEF CallsCounted

-----------------------------------------------------------------------------
(* A record as a transaction sees and writes it.                           *)

\* The limits of a record are within those of one policy.
Within(limits, p, r) ==
    /\ limits \in Limits /\ limits.inflight <= Policy[p][r].inflight
    /\ limits.capacity <= MaxCapacity /\ limits.refill <= MaxRefill
    /\ r # Fleet => limits.capacity >= Unit

LEMMA PolicyWithin ==
    ASSUME NEW p \in Policies, NEW r \in Records
    PROVE  Within(Policy[p][r], p, r)
BY PolicyAssumption DEF Within, Limits

LEMMA PrunedFacts ==
    ASSUME NEW rec \in Record, NEW t \in Nat
    PROVE  LET n == Pruned(rec, t) IN
           /\ n \in Record /\ n.revision = rec.revision /\ n.limits = rec.limits
           /\ n.tokens = rec.tokens /\ n.created = rec.created /\ n.refilled = rec.refilled
           /\ n.updated = rec.updated
           /\ \A c \in Calls : n.expires[c] = IF rec.expires[c] > t THEN rec.expires[c] ELSE 0
           /\ Leases(n) \subseteq Leases(rec)
<1> DEFINE e == [c \in Calls |-> IF rec.expires[c] > t THEN rec.expires[c] ELSE 0]
           n == Pruned(rec, t)
<1>1. 0 \in Times
  BY AdmissionAssumption DEF Times
<1>2. e \in [Calls -> Times]
  BY <1>1 DEF Record
<1>3. n = [rec EXCEPT !.expires = e]
  BY DEF Pruned
<1>4. n \in Record /\ n.expires = e /\ n.revision = rec.revision /\ n.limits = rec.limits
      /\ n.tokens = rec.tokens /\ n.created = rec.created /\ n.refilled = rec.refilled
      /\ n.updated = rec.updated
  <2> HIDE DEF e, n
  <2> QED BY <1>2, <1>3 DEF Record
<1>5. Leases(n) \subseteq Leases(rec)
  <2> HIDE DEF n
  <2> QED BY <1>4 DEF Leases
<1> QED BY <1>4, <1>5

\* The tighter of two policies is within both.
LEMMA MinFacts ==
    ASSUME NEW r \in Records, NEW p \in Policies, NEW q \in Policies, NEW a, NEW b,
           Within(a, q, r), Within(b, p, r)
    PROVE  LET m == MinLimits(a, b) IN
           Within(m, p, r) /\ Within(m, q, r) /\ m.inflight <= a.inflight
<1> DEFINE m == MinLimits(a, b)
<1>1. \A x, y \in Nat : /\ Earlier(x, y) \in Nat /\ Earlier(x, y) <= x /\ Earlier(x, y) <= y
                        /\ Earlier(x, y) = x \/ Earlier(x, y) = y
  BY DEF Earlier
<1>2. /\ a.inflight \in Nat \ {0} /\ a.capacity \in Nat /\ a.refill \in Nat
      /\ b.inflight \in Nat \ {0} /\ b.capacity \in Nat /\ b.refill \in Nat
  BY DEF Within, Limits
<1> DEFINE i == Earlier(a.inflight, b.inflight)
           k == Earlier(a.capacity, b.capacity)
           f == Earlier(a.refill, b.refill)
<1>3. i \in Nat \ {0} /\ k \in Nat /\ f \in Nat /\ i <= a.inflight /\ i <= b.inflight
      /\ k <= a.capacity /\ f <= a.refill /\ (k = a.capacity \/ k = b.capacity)
  BY <1>1, <1>2
<1>4. m = [inflight |-> i, capacity |-> k, refill |-> f]
  BY DEF MinLimits
<1> HIDE DEF i, k, f
<1>5. m \in Limits /\ m.inflight = i /\ m.capacity = k /\ m.refill = f
  BY <1>3, <1>4 DEF Limits
<1>6. Policy[p][r].inflight \in Nat /\ Policy[q][r].inflight \in Nat
      /\ MaxCapacity \in Nat /\ MaxRefill \in Nat /\ Unit \in Nat
  <2>1. Policy[p][r] \in Limits /\ Policy[q][r] \in Limits
    BY PolicyAssumption
  <2> QED BY <2>1, AdmissionAssumption DEF Limits
<1> HIDE DEF m
<1>7. /\ a.inflight <= Policy[q][r].inflight /\ a.capacity <= MaxCapacity /\ a.refill <= MaxRefill
      /\ b.inflight <= Policy[p][r].inflight
      /\ r # Fleet => a.capacity >= Unit /\ b.capacity >= Unit
  BY DEF Within
<1>8. m.capacity <= MaxCapacity /\ m.refill <= MaxRefill
      /\ m.inflight <= Policy[p][r].inflight /\ m.inflight <= Policy[q][r].inflight
      /\ (r # Fleet => m.capacity >= Unit)
  BY <1>2, <1>3, <1>5, <1>6, <1>7
<1> QED BY <1>3, <1>5, <1>8 DEF Within, m

\* While leases are held, no policy loosens the limits.
LEMMA LimitedFacts ==
    ASSUME NEW rec \in Record, NEW r \in Records, NEW p \in Policies,
           rec.revision \in Policies, Within(rec.limits, rec.revision, r)
    PROVE  LET n == Limited(rec, p, Policy[p][r]) IN
           /\ n \in Record /\ n.revision \in Policies
           /\ Within(n.limits, n.revision, r) /\ Within(n.limits, p, r)
           /\ n.limits.inflight <= rec.limits.inflight \/ Leases(rec) = {}
           /\ n.tokens = rec.tokens /\ n.created = rec.created /\ n.refilled = rec.refilled
           /\ n.updated = rec.updated /\ n.expires = rec.expires
<1> DEFINE n == Limited(rec, p, Policy[p][r])
<1>1. Within(Policy[p][r], p, r)
  BY PolicyWithin
<1>2. CASE rec.revision = p
  BY <1>2 DEF Limited, Within, Limits
<1>3. CASE rec.revision # p /\ Leases(rec) = {}
  <2>1. n = [rec EXCEPT !.revision = p, !.limits = Policy[p][r]]
    BY <1>3 DEF Limited
  <2>2. n \in Record /\ n.revision = p /\ n.limits = Policy[p][r]
        /\ n.tokens = rec.tokens /\ n.created = rec.created /\ n.refilled = rec.refilled
        /\ n.updated = rec.updated /\ n.expires = rec.expires
    <3> HIDE DEF n
    <3> QED BY <1>1, <2>1 DEF Record, Within
  <2> QED BY <1>1, <1>3, <2>2
<1>4. CASE rec.revision # p /\ Leases(rec) # {}
  <2> DEFINE m == MinLimits(rec.limits, Policy[p][r])
  <2>1. n = [rec EXCEPT !.limits = m]
    BY <1>4 DEF Limited
  <2>2. Within(m, p, r) /\ Within(m, rec.revision, r) /\ m.inflight <= rec.limits.inflight
    BY <1>1, MinFacts, PolicyWithin
  <2>3. n \in Record /\ n.revision = rec.revision /\ n.limits = m
        /\ n.tokens = rec.tokens /\ n.created = rec.created /\ n.refilled = rec.refilled
        /\ n.updated = rec.updated /\ n.expires = rec.expires
    <3> HIDE DEF n, m
    <3> QED BY <2>1, <2>2 DEF Record, Within
  <2> HIDE DEF m
  <2> QED BY <2>2, <2>3
<1> QED BY <1>2, <1>3, <1>4

LEMMA Distributes ==
    ASSUME NEW m \in Nat, NEW a \in Nat, NEW b \in Nat
    PROVE  m * (a + b) = m * a + m * b /\ m * a \in Nat /\ m * b \in Nat
OBVIOUS

LEMMA Grows ==
    ASSUME NEW e \in Nat, NEW x \in Nat, NEW m \in Nat, x <= m
    PROVE  e * x \in Nat /\ m * e \in Nat /\ e * x <= m * e
<1> DEFINE k == m - x
<1>1. k \in Nat /\ m = x + k
  OBVIOUS
<1> HIDE DEF k
<1>2. e * k \in Nat /\ e * x \in Nat /\ (x + k) * e = e * x + e * k
  BY <1>1
<1>3. (x + k) * e >= e * x
  BY <1>2
<1> QED BY <1>1, <1>2, <1>3

\* No more tokens come back than the largest rate gives for the time since.
LEMMA RefilledFacts ==
    ASSUME NEW rec \in Record, NEW t \in Times, rec.limits \in Limits,
           rec.limits.refill <= MaxRefill, rec.created <= rec.refilled, rec.refilled <= t
    PROVE  LET n == Refilled(rec, t) IN
           /\ n \in Record /\ n.revision = rec.revision /\ n.limits = rec.limits
           /\ n.created = rec.created /\ n.refilled = t /\ n.updated = rec.updated
           /\ n.expires = rec.expires
           /\ \A u \in Nat :
                u + rec.tokens <= MaxCapacity + MaxRefill * (rec.refilled - rec.created) =>
                u + n.tokens <= MaxCapacity + MaxRefill * (t - rec.created)
<1> DEFINE elapsed == IF t > rec.refilled THEN t - rec.refilled ELSE 0
           gain    == elapsed * rec.limits.refill
           tokens  == Earlier(rec.limits.capacity, rec.tokens + gain)
           n       == Refilled(rec, t)
           before  == rec.refilled - rec.created
<1>1. t \in Nat /\ rec.refilled \in Nat /\ rec.created \in Nat /\ rec.tokens \in Nat
      /\ rec.limits.capacity \in Nat /\ rec.limits.refill \in Nat
      /\ MaxRefill \in Nat /\ MaxCapacity \in Nat
  BY AdmissionAssumption DEF Record, Limits, Times
<1>2. elapsed = t - rec.refilled /\ elapsed \in Nat
  BY <1>1
<1>3. gain \in Nat /\ MaxRefill * elapsed \in Nat /\ gain <= MaxRefill * elapsed
  <2> HIDE DEF elapsed
  <2> QED BY <1>1, <1>2, Grows
<1>4. tokens \in Nat /\ tokens <= rec.tokens + gain
  <2> HIDE DEF gain
  <2> QED BY <1>1, <1>3 DEF Earlier
<1>5. Later(rec.refilled, t) = t
  BY <1>1 DEF Later
<1>6. n = [rec EXCEPT !.tokens = tokens, !.refilled = t]
  BY <1>5 DEF Refilled
<1>7. /\ n \in Record /\ n.revision = rec.revision /\ n.limits = rec.limits
      /\ n.created = rec.created /\ n.refilled = t /\ n.updated = rec.updated
      /\ n.expires = rec.expires /\ n.tokens = tokens
  <2> HIDE DEF n, tokens
  <2> QED BY <1>4, <1>6 DEF Record
<1>8. before \in Nat /\ t - rec.created = before + elapsed
  BY <1>1, <1>2
<1>9. /\ MaxRefill * before \in Nat
      /\ MaxRefill * (t - rec.created) = MaxRefill * before + MaxRefill * elapsed
  <2> HIDE DEF before, elapsed
  <2> QED BY <1>1, <1>2, <1>8, Distributes
<1>10. ASSUME NEW u \in Nat, u + rec.tokens <= MaxCapacity + MaxRefill * before
       PROVE  u + tokens <= MaxCapacity + MaxRefill * (t - rec.created)
  <2> DEFINE x == MaxRefill * before
             y == MaxRefill * elapsed
  <2>1. x \in Nat /\ y \in Nat /\ gain <= y /\ u + rec.tokens <= MaxCapacity + x
        /\ MaxRefill * (t - rec.created) = x + y
    BY <1>3, <1>9, <1>10
  <2> HIDE DEF x, y, tokens, gain
  <2> QED BY <2>1, <1>1, <1>3, <1>4
<1> QED BY <1>7, <1>10

\* What a transaction knows of a record before it decides.
Seen(n, r, p, t) ==
    /\ n \in Record /\ n.revision \in Policies
    /\ Within(n.limits, n.revision, r) /\ Within(n.limits, p, r)
    /\ \A c \in Calls :
         n.expires[c] = IF record[r].expires[c] > t THEN record[r].expires[c] ELSE 0
    /\ \A c \in Leases(n) : n.limits.inflight <= Policy[PolicyOf[HostOf[c]]][r].inflight
    /\ n.created <= n.refilled /\ n.refilled = t
    /\ Paid(n, r)

LEMMA SpentType ==
    ASSUME Shape, NEW r \in Records
    PROVE  Cardinality(Spent(r)) \in Nat /\ Unit * Cardinality(Spent(r)) \in Nat
<1>1. Cardinality(Spent(r)) \in Nat
  BY FiniteCalls, Spent(r) \in SUBSET Calls DEF Spent, Shape, TypeOK
<1>2. Unit \in Nat
  BY AdmissionAssumption
<1> HIDE DEF Spent
<1> QED BY <1>1, <1>2

LEMMA NormalFacts ==
    ASSUME Shape, NEW r \in Records, RecordInv(r), NEW p \in Policies, NEW t \in Times,
           record[r].updated <= t
    PROVE  Seen(Normal(r, p, t), r, p, t)
<1>1. record[r] \in Record
  BY DEF Shape, TypeOK
<1>2. t \in Nat /\ \A c \in Calls : record[r].expires[c] \in Nat
  BY <1>1, AdmissionAssumption DEF Times, Record
<1>3. MaxRefill \in Nat /\ MaxCapacity \in Nat /\ 0 \in Times
  BY AdmissionAssumption DEF Times
<1>4. CASE record[r].revision = NoOne
  <2> DEFINE n == [revision |-> p, limits |-> Policy[p][r], tokens |-> Policy[p][r].capacity,
                   created |-> t, refilled |-> t, updated |-> t, expires |-> [c \in Calls |-> 0]]
  <2>1. Normal(r, p, t) = n
    BY <1>4 DEF Normal
  <2>2. Within(Policy[p][r], p, r)
    BY PolicyWithin
  <2>3. record[r] = Missing /\ Spent(r) = {}
    BY <1>4 DEF RecordInv
  <2>4. n \in Record
    BY <1>3, <2>2 DEF Record, Within, Limits
  <2>5. \A c \in Calls :
          n.expires[c] = IF record[r].expires[c] > t THEN record[r].expires[c] ELSE 0
    BY <1>2, <2>3 DEF Missing
  <2>6. Leases(n) = {}
    BY DEF Leases
  <2>7. Paid(n, r)
    <3>1. Cardinality(Spent(r)) = 0
      BY <2>3, FS_EmptySet
    <3>2. Unit * 0 = 0 /\ MaxRefill * (t - t) = 0
      BY <1>2, <1>3, AdmissionAssumption
    <3>3. Policy[p][r].capacity <= MaxCapacity /\ Policy[p][r].capacity \in Nat
      BY <2>2 DEF Within, Limits
    <3> QED BY <1>3, <3>1, <3>2, <3>3 DEF Paid
  <2>8. n.revision \in Policies /\ n.revision = p /\ n.limits = Policy[p][r]
        /\ n.created <= n.refilled /\ n.refilled = t
    BY <1>2
  <2> HIDE DEF n
  <2> QED BY <2>1, <2>2, <2>4, <2>5, <2>6, <2>7, <2>8 DEF Seen
<1>5. CASE record[r].revision # NoOne
  <2> DEFINE a == Pruned(record[r], t)
             b == Limited(a, p, Policy[p][r])
             n == Refilled(b, t)
             u == Unit * Cardinality(Spent(r))
  <2>1. Normal(r, p, t) = n
    BY <1>5 DEF Normal
  <2>2. Sound(record[r], r) /\ Paid(record[r], r)
    BY <1>5 DEF RecordInv
  <2>3. /\ a \in Record /\ a.revision = record[r].revision /\ a.limits = record[r].limits
        /\ a.tokens = record[r].tokens /\ a.created = record[r].created
        /\ a.refilled = record[r].refilled
        /\ \A c \in Calls :
             a.expires[c] = IF record[r].expires[c] > t THEN record[r].expires[c] ELSE 0
        /\ Leases(a) \subseteq Leases(record[r])
    BY <1>1, <1>2, PrunedFacts
  <2>4. a.revision \in Policies /\ Within(a.limits, a.revision, r)
    <3>1. record[r].revision \in Policies /\ Within(record[r].limits, record[r].revision, r)
      BY <2>2 DEF Sound, Within
    <3> HIDE DEF a
    <3> QED BY <2>3, <3>1
  <2> HIDE DEF a
  <2>5. /\ b \in Record /\ b.revision \in Policies
        /\ Within(b.limits, b.revision, r) /\ Within(b.limits, p, r)
        /\ b.limits.inflight <= a.limits.inflight \/ Leases(a) = {}
        /\ b.tokens = a.tokens /\ b.created = a.created /\ b.refilled = a.refilled
        /\ b.expires = a.expires
    <3>1. a \in Record
      BY <2>3
    <3> HIDE DEF n
    <3> QED BY <3>1, <2>4, LimitedFacts
  <2> HIDE DEF b
  <2>6. b.created <= b.refilled /\ b.refilled <= t
    <3>1. record[r].refilled \in Nat /\ record[r].updated \in Nat
      BY <1>1, AdmissionAssumption DEF Record, Times
    <3> QED BY <3>1, <1>2, <2>2, <2>3, <2>5 DEF Sound
  <2>7. /\ n \in Record /\ n.revision = b.revision /\ n.limits = b.limits
        /\ n.created = b.created /\ n.refilled = t /\ n.expires = b.expires
        /\ \A v \in Nat :
             v + b.tokens <= MaxCapacity + MaxRefill * (b.refilled - b.created) =>
             v + n.tokens <= MaxCapacity + MaxRefill * (t - b.created)
    BY <2>5, <2>6, RefilledFacts DEF Within
  <2> HIDE DEF n
  <2>8. Paid(n, r)
    <3>1. u \in Nat
      BY SpentType
    <3> QED BY <3>1, <2>2, <2>3, <2>5, <2>7 DEF Paid
  <2>9. \A c \in Leases(n) : n.limits.inflight <= Policy[PolicyOf[HostOf[c]]][r].inflight
    <3>1. Leases(n) = Leases(a)
      BY <2>5, <2>7 DEF Leases
    <3> SUFFICES ASSUME NEW c \in Leases(a)
                 PROVE  n.limits.inflight <= Policy[PolicyOf[HostOf[c]]][r].inflight
      BY <3>1
    <3>2. c \in Calls /\ a.limits.inflight <= Policy[PolicyOf[HostOf[c]]][r].inflight
      BY <2>2, <2>3 DEF Sound, Leases
    <3>3. n.limits.inflight <= a.limits.inflight
      BY <2>5, <2>7
    <3>4. n.limits.inflight \in Nat /\ a.limits.inflight \in Nat
      BY <2>4, <2>5, <2>7 DEF Within, Limits
    <3>5. Policy[PolicyOf[HostOf[c]]][r].inflight \in Nat
      <4>1. PolicyOf[HostOf[c]] \in Policies
        BY <3>2, KeysType
      <4>2. Policy[PolicyOf[HostOf[c]]][r] \in Limits
        BY <4>1, PolicyAssumption
      <4> QED BY <4>2 DEF Limits
    <3> QED BY <3>2, <3>3, <3>4, <3>5
  <2>10. n.created <= n.refilled
    BY <1>2, <2>5, <2>6, <2>7 DEF Record, Times
  <2> QED BY <2>1, <2>3, <2>5, <2>7, <2>8, <2>9, <2>10 DEF Seen
<1> QED BY <1>4, <1>5

\* One more lease, if the decision admits it, leaves the record sound and paid for.
LEMMA LeasedFacts ==
    ASSUME Shape, NEW r \in Records, NEW c \in Calls, r \in KeysOf(c), NEW n, NEW t \in Times,
           t <= now + Skew,
           Seen(n, r, PolicyOf[HostOf[c]], t), n.expires[c] = 0, Admits(n)
    PROVE  LET m == Leased(n, c, t) IN
           /\ m \in Record /\ Sound(m, r)
           /\ \A d \in Calls : m.expires[d] = IF d = c THEN t + LeaseTime ELSE n.expires[d]
           /\ r # Fleet => Unit * (Cardinality(Spent(r)) + 1) + m.tokens
                             <= MaxCapacity + MaxRefill * (m.refilled - m.created)
<1> DEFINE pay == IF n.limits.capacity > 0 THEN n.tokens - Unit ELSE n.tokens
           e   == [n.expires EXCEPT ![c] = t + LeaseTime]
           m   == Leased(n, c, t)
           q   == PolicyOf[HostOf[c]]
<1>1. n \in Record /\ n.limits \in Limits /\ n.revision \in Policies
  BY DEF Seen, Within
<1>2. t \in Nat /\ now \in Nat /\ n.tokens \in Nat /\ Unit \in Nat \ {0} /\ LeaseTime \in Nat
      /\ n.limits.capacity \in Nat /\ n.limits.inflight \in Nat \ {0}
      /\ now <= MaxTime /\ MaxTime \in Nat /\ Skew \in Nat
  BY <1>1, AdmissionAssumption DEF Record, Times, Limits, Shape, TypeOK
<1>3. pay \in Nat
  BY <1>2 DEF Admits, CanPay
<1>4. e \in [Calls -> Times]
  <2>1. t + LeaseTime \in Times
    BY <1>2 DEF Times
  <2> QED BY <1>1, <2>1 DEF Record
<1>5. m = [n EXCEPT !.tokens = pay, !.expires = e, !.updated = t]
  BY DEF Leased
<1>6. /\ m \in Record /\ m.tokens = pay /\ m.expires = e /\ m.updated = t
      /\ m.revision = n.revision /\ m.limits = n.limits /\ m.created = n.created
      /\ m.refilled = n.refilled
  <2> HIDE DEF pay, e, m
  <2> QED BY <1>1, <1>3, <1>4, <1>5 DEF Record
<1>7. \A d \in Calls : m.expires[d] = IF d = c THEN t + LeaseTime ELSE n.expires[d]
  <2>1. n.expires \in [Calls -> Times]
    BY <1>1 DEF Record
  <2> HIDE DEF m
  <2> QED BY <1>6, <2>1
<1> HIDE DEF m, e
<1>8. IsFiniteSet(Leases(n)) /\ Cardinality(Leases(n)) \in Nat
  BY FiniteCalls, Leases(n) \in SUBSET Calls DEF Leases
<1>9. Leases(m) \subseteq Leases(n) \cup {c} /\ c \notin Leases(n)
  BY <1>7 DEF Leases
<1>10. Cardinality(Leases(m)) <= n.limits.inflight
  <2>1. Cardinality(Leases(n) \cup {c}) = Cardinality(Leases(n)) + 1
        /\ IsFiniteSet(Leases(n) \cup {c})
    BY <1>8, <1>9, FS_AddElement
  <2>2. Cardinality(Leases(m)) <= Cardinality(Leases(n) \cup {c})
    BY <1>9, <2>1, FS_Subset
  <2>3. Cardinality(Leases(m)) \in Nat
    BY FiniteCalls, Leases(m) \in SUBSET Calls DEF Leases
  <2>4. Cardinality(Leases(n)) < n.limits.inflight
    BY DEF Admits, Room
  <2> HIDE DEF Leases
  <2> QED BY <2>1, <2>2, <2>3, <2>4, <1>2, <1>8
<1>11. \A d \in Leases(m) : n.limits.inflight <= Policy[PolicyOf[HostOf[d]]][r].inflight
  BY <1>9 DEF Seen, Within
<1>12. Sound(m, r)
  BY <1>1, <1>2, <1>6, <1>10, <1>11 DEF Sound, Seen, Within
<1>13. ASSUME r # Fleet
       PROVE  Unit * (Cardinality(Spent(r)) + 1) + m.tokens
                <= MaxCapacity + MaxRefill * (m.refilled - m.created)
  <2> DEFINE k == Cardinality(Spent(r))
             z == MaxCapacity + MaxRefill * (n.refilled - n.created)
  <2>1. n.limits.capacity >= Unit /\ Unit * k + n.tokens <= z
    BY <1>13 DEF Seen, Within, Paid
  <2>2. k \in Nat /\ Unit * k \in Nat
    BY SpentType
  <2>3. pay = n.tokens - Unit
    BY <1>2, <2>1
  <2>4. Unit * (k + 1) = Unit * k + Unit
    <3>1. Unit \in Nat /\ Unit * 1 = Unit
      BY <1>2
    <3> HIDE DEF k
    <3> QED BY <2>2, <3>1, Distributes
  <2>5. z \in Int
    <3>1. n.refilled \in Int /\ n.created \in Int /\ MaxRefill \in Int /\ MaxCapacity \in Int
      BY <1>1, AdmissionAssumption DEF Record, Times
    <3> QED BY <3>1
  <2>6. Unit * (k + 1) + pay <= z
    <3> HIDE DEF k, z, pay
    <3> QED BY <1>2, <2>1, <2>2, <2>3, <2>4, <2>5
  <2> QED BY <1>6, <2>6
<1> QED BY <1>6, <1>7, <1>12, <1>13 DEF m

-----------------------------------------------------------------------------
(* Steps of one call that leave the records alone.                         *)

LEMMA GateKept ==
    ASSUME GateInv, gate' = gate,
           \A d \in Calls : call'[d].pc \in AtGate <=> call[d].pc \in AtGate
    PROVE  GateInv'
BY DEF GateInv

LEMMA GateOpened ==
    ASSUME GateInv, gate \in [Hosts -> Calls \cup {NoOne}], NEW c \in Calls,
           call[c].pc \in AtGate, call'[c].pc \notin AtGate,
           \A d \in Calls \ {c} : call'[d] = call[d], OpenGate(HostOf[c])
    PROVE  GateInv' /\ gate' \in [Hosts -> Calls \cup {NoOne}]
<1>1. HostOf[c] \in Hosts /\ NoOne \notin Calls
  BY KeysType, AdmissionAssumption
<1>2. gate[HostOf[c]] = c
  BY DEF GateInv
<1>3. \A d \in Calls : HostOf[d] \in Hosts
  BY KeysType
<1>4. ASSUME NEW d \in Calls
      PROVE  call'[d].pc \in AtGate <=> gate'[HostOf[d]] = d
  <2>1. CASE HostOf[d] = HostOf[c]
    BY <1>1, <1>2, <2>1 DEF GateInv, OpenGate
  <2>2. CASE HostOf[d] # HostOf[c]
    BY <1>1, <1>3, <2>2 DEF GateInv, OpenGate
  <2> QED BY <2>1, <2>2
<1> QED BY <1>1, <1>4 DEF GateInv, OpenGate

\* Records that no step writes.
LEMMA RecordsKept ==
    ASSUME \A r \in Records : RecordInv(r), record' = record, granted' = granted, now' = now
    PROVE  \A r \in Records : RecordInv(r)'
BY DEF RecordInv, Sound, Paid, Leases, Spent

\* A step of one call that leaves the records and the other calls alone.
Alone(c) ==
    /\ record' = record /\ granted' = granted /\ now' = now /\ unlucky \subseteq unlucky'
    /\ \A d \in Calls \ {c} : /\ call'[d] = call[d]
                              /\ d \in flying' <=> d \in flying
                              /\ d \in leaving' <=> d \in leaving

LEMMA OtherCall ==
    ASSUME NEW c \in Calls, NEW d \in Calls \ {c}, Alone(c), CallInv(d), LuckyInv(d)
    PROVE  CallInv(d)' /\ LuckyInv(d)'
<1>1. /\ call'[d] = call[d] /\ (d \in unlucky => d \in unlucky')
      /\ d \in flying' <=> d \in flying
      /\ d \in leaving' <=> d \in leaving
      /\ record' = record /\ granted' = granted /\ now' = now
  BY DEF Alone
<1>2. CallInv(d)'
  BY <1>1 DEF CallInv
<1>3. LuckyInv(d)'
  BY <1>1 DEF LuckyInv
<1> QED BY <1>2, <1>3

LEMMA QuietStep ==
    ASSUME IndInv, NEW c \in Calls, Alone(c), Shape', CallInv(c)', LuckyInv(c)', CallsCounted'
    PROVE  IndInv'
<1>1. \A r \in Records : RecordInv(r)'
  BY RecordsKept DEF IndInv, Alone
<1>2. ASSUME NEW d \in Calls
      PROVE  CallInv(d)' /\ LuckyInv(d)'
  <2>1. CallInv(d) /\ LuckyInv(d)
    BY DEF IndInv
  <2>2. CASE d = c
    BY <2>2
  <2>3. CASE d # c
    BY <2>1, <2>3, OtherCall
  <2> QED BY <2>2, <2>3
<1> QED BY <1>1, <1>2 DEF IndInv

LEMMA EnterStep ==
    ASSUME IndInv, NEW c \in Calls, NEW ahead \in 0 .. Skew, Enter(c, now + ahead)
    PROVE  IndInv'
<1> DEFINE h == HostOf[c]
           w == [pc |-> "waiting", clock |-> now + ahead, began |-> now]
<1>1. /\ Shape /\ CallInv(c) /\ LuckyInv(c) /\ CallsCounted /\ call[c].pc = "new"
      /\ record' = record /\ granted' = granted /\ now' = now /\ flying' = flying
      /\ leaving' = leaving /\ unlucky' = unlucky /\ gate' = gate /\ faults' = faults
  BY DEF IndInv, Enter
<1>2. h \in Hosts /\ now \in Nat /\ now <= MaxTime /\ MaxTime \in Nat /\ Skew \in Nat
      /\ LeaseTime \in Nat /\ ahead \in Nat /\ ahead <= Skew /\ LocalMax \in Nat
  BY <1>1, KeysType, AdmissionAssumption DEF Shape, TypeOK
<1>3. CASE active[h] < LocalMax
  <2>1. call' = [call EXCEPT ![c] = w] /\ active' = [active EXCEPT ![h] = @ + 1]
    BY <1>3 DEF Enter
  <2>2. w \in Call
    BY <1>2 DEF Call, Times, Holding
  <2>3. call' \in [Calls -> Call] /\ call'[c] = w /\ \A d \in Calls \ {c} : call'[d] = call[d]
    <3> HIDE DEF w
    <3> QED BY <1>1, <2>1, <2>2 DEF Shape, TypeOK
  <2>4. active' \in [Hosts -> Nat]
    BY <1>1, <1>2, <2>1 DEF Shape, TypeOK
  <2>5. GateInv'
    <3>1. \A d \in Calls : call'[d].pc \in AtGate <=> call[d].pc \in AtGate
      BY <1>1, <2>3 DEF AtGate
    <3> QED BY <1>1, <3>1, GateKept DEF GateInv, Shape, TypeOK
  <2>6. Shape'
    BY <1>1, <2>3, <2>4, <2>5 DEF Shape, TypeOK
  <2>7. CallInv(c)'
    BY <1>1, <1>2, <2>3 DEF CallInv, AtGate
  <2>8. LuckyInv(c)'
    BY <1>1, <2>3 DEF LuckyInv
  <2>9. CallsCounted'
    <3> DEFINE H(x) == {d \in Calls : HostOf[d] = x /\ call[d].pc \in Holding}
               G(x) == {d \in Calls : HostOf[d] = x /\ call'[d].pc \in Holding}
    <3>1. G(h) = H(h) \cup {c} /\ c \notin H(h)
      BY <1>1, <2>3 DEF Holding, AtGate
    <3>2. IsFiniteSet(H(h)) /\ Cardinality(H(h)) \in Nat
      BY FiniteCalls, H(h) \in SUBSET Calls
    <3>3. Cardinality(G(h)) = Cardinality(H(h)) + 1
      <4> HIDE DEF G, H
      <4> QED BY <3>1, <3>2, FS_AddElement
    <3>4. \A x \in Hosts : active[x] = Cardinality(H(x)) /\ active[x] <= LocalMax
      BY <1>1 DEF CallsCounted
    <3>5. active'[h] = Cardinality(G(h)) /\ active'[h] <= LocalMax
      BY <1>1, <1>2, <1>3, <2>1, <3>2, <3>3, <3>4 DEF Shape, TypeOK
    <3>6. ASSUME NEW x \in Hosts, x # h
          PROVE  active'[x] = Cardinality(G(x)) /\ active'[x] <= LocalMax
      <4>1. G(x) = H(x)
        BY <2>3, <3>6
      <4> QED BY <1>1, <2>1, <3>4, <3>6, <4>1 DEF Shape, TypeOK
    <3> QED BY <3>5, <3>6 DEF CallsCounted
  <2>10. Alone(c)
    BY <1>1, <2>3 DEF Alone
  <2> QED BY <2>6, <2>7, <2>8, <2>9, <2>10, QuietStep
<1>4. CASE ~(active[h] < LocalMax)
  <2>1. Go(c, "done") /\ active' = active
    BY <1>4 DEF Enter
  <2>2. /\ call' \in [Calls -> Call] /\ call'[c].pc = "done" /\ call'[c].clock = call[c].clock
        /\ \A d \in Calls \ {c} : call'[d] = call[d]
    BY <1>1, <2>1, GoFacts DEF Shape, TypeOK
  <2>3. GateInv'
    <3>1. \A d \in Calls : call'[d].pc \in AtGate <=> call[d].pc \in AtGate
      BY <1>1, <2>2 DEF AtGate
    <3> QED BY <1>1, <3>1, GateKept DEF GateInv, Shape, TypeOK
  <2>4. Shape'
    BY <1>1, <2>1, <2>2, <2>3 DEF Shape, TypeOK
  <2>5. CallInv(c)'
    BY <1>1, <2>2 DEF CallInv, AtGate, Holding
  <2>6. LuckyInv(c)'
    BY <1>1, <2>2 DEF LuckyInv
  <2>7. CallsCounted'
    <3>1. \A d \in Calls : call'[d].pc \in Holding <=> call[d].pc \in Holding
      BY <1>1, <2>2 DEF Holding, AtGate
    <3> QED BY <1>1, <2>1, <3>1, CountKept
  <2>8. Alone(c)
    BY <1>1, <2>2 DEF Alone
  <2> QED BY <2>4, <2>5, <2>6, <2>7, <2>8, QuietStep
<1> QED BY <1>3, <1>4

\* What the other steps of one call that leave the records alone may change.
Frame(c) ==
    /\ record' = record /\ granted' = granted /\ now' = now
    /\ flying' \subseteq Calls /\ leaving' \subseteq Calls /\ unlucky' \subseteq Calls
    /\ unlucky \subseteq unlucky' /\ faults' \in 0 .. MaxFaults
    /\ \A d \in Calls \ {c} : /\ d \in flying' <=> d \in flying
                              /\ d \in leaving' <=> d \in leaving

\* What its invariants need of the step of a call.
Kept(c) ==
    /\ c \in leaving' => call'[c].pc \in {"closing", "done", "dead"}
    /\ c \in flying' => call'[c].pc \notin {"new", "waiting"}
    /\ call'[c].pc \notin {"new", "waiting"}
    /\ call'[c].pc \in {"admitted", "running"} => c \in granted
    /\ c \notin unlucky' =>
         /\ c \in flying' <=> call'[c].pc = "admitting"
         /\ c \in leaving' <=> call'[c].pc = "closing"
         /\ call'[c].pc \notin {"looking", "dead"}
         /\ call'[c].pc \notin {"admitted", "running", "closing"} =>
              \A r \in Records : record[r].expires[c] = 0

LEMMA MoveStep ==
    ASSUME IndInv, NEW c \in Calls, NEW pc \in Holding \cup {"new", "done", "dead"},
           Go(c, pc), active' = active, Frame(c), Kept(c),
           GateInv', gate' \in [Hosts -> Calls \cup {NoOne}],
           call[c].pc \in Holding, pc \in Holding,
           pc \in AtGate \cup {"running"} =>
             call[c].pc \in AtGate \cup {"running"} \/ c \notin granted
    PROVE  IndInv'
<1>1. Shape /\ CallInv(c) /\ CallsCounted
  BY DEF IndInv
<1>2. /\ call' \in [Calls -> Call]
      /\ call'[c].pc = pc /\ call'[c].clock = call[c].clock /\ call'[c].began = call[c].began
      /\ \A d \in Calls \ {c} : call'[d] = call[d]
  BY <1>1, GoFacts DEF Shape, TypeOK
<1>3. Shape'
  BY <1>1, <1>2 DEF Shape, TypeOK, Frame
<1>4. CallInv(c)'
  BY <1>1, <1>2 DEF CallInv, Frame, Kept
<1>5. LuckyInv(c)'
  BY DEF LuckyInv, Frame, Kept
<1>6. CallsCounted'
  <2>1. \A d \in Calls : call'[d].pc \in Holding <=> call[d].pc \in Holding
    BY <1>2
  <2> QED BY <1>1, <2>1, CountKept
<1>7. Alone(c)
  BY <1>2 DEF Alone, Frame
<1> QED BY <1>3, <1>4, <1>5, <1>6, <1>7, QuietStep

LEMMA EndStep ==
    ASSUME IndInv, NEW c \in Calls, EndCall(c), Frame(c), Kept(c),
           GateInv', gate' \in [Hosts -> Calls \cup {NoOne}], call[c].pc \in Holding
    PROVE  IndInv'
<1>1. Shape /\ CallInv(c) /\ CallsCounted
  BY DEF IndInv
<1>2. /\ call' \in [Calls -> Call] /\ call'[c].pc = "done" /\ call'[c].clock = call[c].clock
      /\ \A d \in Calls \ {c} : call'[d] = call[d]
  BY <1>1, EndFacts DEF Shape, TypeOK
<1>3. CallsCounted' /\ active' \in [Hosts -> Nat]
  BY <1>1, CountEnded
<1>4. Shape'
  BY <1>1, <1>2, <1>3 DEF Shape, TypeOK, Frame
<1>5. CallInv(c)'
  BY <1>1, <1>2 DEF CallInv, Frame, Kept, Holding, AtGate
<1>6. LuckyInv(c)'
  BY DEF LuckyInv, Frame, Kept
<1>7. Alone(c)
  BY <1>2 DEF Alone, Frame
<1> QED BY <1>3, <1>4, <1>5, <1>6, <1>7, QuietStep

\* What the invariant says of the call a step begins with.
LEMMA StartsFrom ==
    ASSUME IndInv, NEW c \in Calls
    PROVE  /\ CallInv(c) /\ LuckyInv(c) /\ GateInv /\ call \in [Calls -> Call]
           /\ flying \subseteq Calls /\ leaving \subseteq Calls /\ unlucky \subseteq Calls
           /\ faults \in 0 .. MaxFaults /\ gate \in [Hosts -> Calls \cup {NoOne}]
BY DEF IndInv, Shape, TypeOK

LEMMA WaitNoMoreStep ==
    ASSUME IndInv, NEW c \in Calls, WaitNoMore(c)
    PROVE  IndInv'
<1>1. call[c].pc = "waiting" /\ EndCall(c) /\ gate' = gate
  BY DEF WaitNoMore
<1>2. /\ call'[c].pc = "done" /\ \A d \in Calls \ {c} : call'[d] = call[d]
  BY <1>1, StartsFrom, EndFacts
<1>3. Frame(c)
  BY StartsFrom DEF WaitNoMore, Frame
<1>4. Kept(c)
  BY <1>1, <1>2, StartsFrom DEF WaitNoMore, Kept, CallInv, LuckyInv
<1>5. \A d \in Calls : call'[d].pc \in AtGate <=> call[d].pc \in AtGate
  BY <1>1, <1>2 DEF AtGate
<1>6. GateInv'
  BY <1>1, <1>5, StartsFrom, GateKept
<1> QED BY <1>1, <1>3, <1>4, <1>6, StartsFrom, EndStep DEF Holding

LEMMA PassGateStep ==
    ASSUME IndInv, NEW c \in Calls, PassGate(c)
    PROVE  IndInv'
<1>1. /\ call[c].pc = "waiting" /\ Go(c, "admitting") /\ gate[HostOf[c]] = NoOne
      /\ gate' = [gate EXCEPT ![HostOf[c]] = c] /\ flying' = flying \cup {c} /\ leaving' = leaving
      /\ active' = active /\ record' = record /\ unlucky' = unlucky
  BY DEF PassGate
<1>2. /\ call'[c].pc = "admitting" /\ \A d \in Calls \ {c} : call'[d] = call[d]
  BY <1>1, StartsFrom, GoFacts DEF Holding, AtGate
<1>3. Frame(c)
  BY StartsFrom DEF PassGate, Frame
<1>4. Kept(c)
  BY <1>1, <1>2, StartsFrom DEF Kept, CallInv, LuckyInv
<1>5. HostOf[c] \in Hosts /\ NoOne \notin Calls /\ \A d \in Calls : HostOf[d] \in Hosts
  BY KeysType, AdmissionAssumption
<1>6. GateInv'
  <2> SUFFICES ASSUME NEW d \in Calls
               PROVE  call'[d].pc \in AtGate <=> gate'[HostOf[d]] = d
    BY DEF GateInv
  <2>1. CASE d = c
    BY <1>1, <1>2, <1>5, <2>1, StartsFrom DEF AtGate
  <2>2. CASE d # c
    BY <1>1, <1>2, <1>5, <2>2, StartsFrom DEF GateInv
  <2> QED BY <2>1, <2>2
<1>7. gate' \in [Hosts -> Calls \cup {NoOne}]
  BY <1>1, <1>5, StartsFrom
<1>8. c \notin granted
  BY <1>1, StartsFrom DEF CallInv
<1> QED BY <1>1, <1>3, <1>4, <1>6, <1>7, <1>8, MoveStep DEF Holding, AtGate

LEMMA UnansweredStep ==
    ASSUME IndInv, NEW c \in Calls, Unanswered(c)
    PROVE  IndInv'
<1>1. /\ call[c].pc \in {"admitting", "admitted", "refused"} /\ Go(c, "looking")
      /\ active' = active /\ record' = record
      /\ unlucky' = unlucky \cup {c}
      /\ flying' \in {flying, flying \ {c}} /\ leaving' = leaving /\ gate' = gate
  BY DEF Unanswered, Fault
<1>2. /\ call'[c].pc = "looking" /\ \A d \in Calls \ {c} : call'[d] = call[d]
  BY <1>1, StartsFrom, GoFacts DEF Holding, AtGate
<1>3. Frame(c)
  BY StartsFrom, AdmissionAssumption DEF Unanswered, Frame, Fault
<1>4. Kept(c)
  BY <1>1, <1>2, StartsFrom DEF Kept, CallInv, LuckyInv
<1>5. \A d \in Calls : call'[d].pc \in AtGate <=> call[d].pc \in AtGate
  BY <1>1, <1>2 DEF AtGate
<1>6. GateInv' /\ gate' \in [Hosts -> Calls \cup {NoOne}]
  BY <1>1, <1>5, StartsFrom, GateKept
<1> QED BY <1>1, <1>3, <1>4, <1>6, MoveStep DEF Holding, AtGate

LEMMA TryAgainStep ==
    ASSUME IndInv, NEW c \in Calls, TryAgain(c)
    PROVE  IndInv'
<1>1. /\ call[c].pc = "looking" /\ Go(c, "admitting")
      /\ active' = active /\ record' = record
      /\ flying' = flying \cup {c} /\ leaving' = leaving /\ unlucky' = unlucky /\ gate' = gate
  BY DEF TryAgain
<1>2. /\ call'[c].pc = "admitting" /\ \A d \in Calls \ {c} : call'[d] = call[d]
  BY <1>1, StartsFrom, GoFacts DEF Holding, AtGate
<1>3. Frame(c)
  BY StartsFrom, AdmissionAssumption DEF TryAgain, Frame, Fault
<1>4. Kept(c)
  BY <1>1, <1>2, StartsFrom DEF Kept, CallInv, LuckyInv
<1>5. \A d \in Calls : call'[d].pc \in AtGate <=> call[d].pc \in AtGate
  BY <1>1, <1>2 DEF AtGate
<1>6. GateInv' /\ gate' \in [Hosts -> Calls \cup {NoOne}]
  BY <1>1, <1>5, StartsFrom, GateKept
<1> QED BY <1>1, <1>3, <1>4, <1>6, MoveStep DEF Holding, AtGate

LEMMA LookBackStep ==
    ASSUME IndInv, NEW c \in Calls, LookBack(c)
    PROVE  IndInv'
<1>1. /\ call[c].pc = "looking" /\ Found(c) = KeysOf(c) /\ Go(c, "running")
      /\ active' = active /\ record' = record
      /\ flying' = flying /\ leaving' = leaving /\ unlucky' = unlucky
      /\ gate' = [gate EXCEPT ![HostOf[c]] = NoOne]
  BY DEF LookBack, OpenGate
<1>2. /\ call'[c].pc = "running" /\ \A d \in Calls \ {c} : call'[d] = call[d]
  BY <1>1, StartsFrom, GoFacts DEF Holding, AtGate
<1>7. c \in granted
  <2>1. Fleet \in KeysOf(c) /\ Fleet \in Records
    BY AdmissionAssumption DEF KeysOf
  <2>2. record[Fleet].expires[c] > call[c].clock
    BY <1>1, <2>1 DEF Found
  <2>3. call[c].clock \in Nat /\ record[Fleet].expires[c] \in Nat
    BY <2>1, StartsFrom, AdmissionAssumption DEF IndInv, Shape, TypeOK, Call, Record, Times
  <2>4. RecordInv(Fleet)
    BY <2>1 DEF IndInv
  <2> QED BY <2>2, <2>3, <2>4 DEF RecordInv
<1>3. Frame(c)
  BY StartsFrom, AdmissionAssumption DEF LookBack, Frame, Fault
<1>4. Kept(c)
  BY <1>1, <1>2, <1>7, StartsFrom DEF Kept, CallInv, LuckyInv
<1>5. call[c].pc \in AtGate /\ call'[c].pc \notin AtGate
  BY <1>1, <1>2 DEF AtGate
<1>6. GateInv' /\ gate' \in [Hosts -> Calls \cup {NoOne}]
  BY <1>1, <1>2, <1>5, StartsFrom, GateOpened DEF OpenGate
<1> QED BY <1>1, <1>3, <1>4, <1>6, MoveStep DEF Holding, AtGate

LEMMA StartStep ==
    ASSUME IndInv, NEW c \in Calls, Start(c)
    PROVE  IndInv'
<1>1. /\ call[c].pc = "admitted" /\ Go(c, "running")
      /\ active' = active /\ record' = record
      /\ flying' = flying /\ leaving' = leaving /\ unlucky' = unlucky
      /\ gate' = [gate EXCEPT ![HostOf[c]] = NoOne]
  BY DEF Start, OpenGate
<1>2. /\ call'[c].pc = "running" /\ \A d \in Calls \ {c} : call'[d] = call[d]
  BY <1>1, StartsFrom, GoFacts DEF Holding, AtGate
<1>3. Frame(c)
  BY StartsFrom, AdmissionAssumption DEF Start, Frame, Fault
<1>4. Kept(c)
  BY <1>1, <1>2, StartsFrom DEF Kept, CallInv, LuckyInv
<1>5. call[c].pc \in AtGate /\ call'[c].pc \notin AtGate
  BY <1>1, <1>2 DEF AtGate
<1>6. GateInv' /\ gate' \in [Hosts -> Calls \cup {NoOne}]
  BY <1>1, <1>2, <1>5, StartsFrom, GateOpened DEF OpenGate
<1> QED BY <1>1, <1>3, <1>4, <1>6, MoveStep DEF Holding, AtGate

LEMMA CloseStep ==
    ASSUME IndInv, NEW c \in Calls, Close(c)
    PROVE  IndInv'
<1>1. /\ call[c].pc = "running" /\ Go(c, "closing")
      /\ active' = active /\ record' = record
      /\ flying' = flying /\ leaving' = leaving \cup {c} /\ unlucky' = unlucky /\ gate' = gate
  BY DEF Close
<1>2. /\ call'[c].pc = "closing" /\ \A d \in Calls \ {c} : call'[d] = call[d]
  BY <1>1, StartsFrom, GoFacts DEF Holding, AtGate
<1>3. Frame(c)
  BY StartsFrom, AdmissionAssumption DEF Close, Frame, Fault
<1>4. Kept(c)
  BY <1>1, <1>2, StartsFrom DEF Kept, CallInv, LuckyInv
<1>5. \A d \in Calls : call'[d].pc \in AtGate <=> call[d].pc \in AtGate
  BY <1>1, <1>2 DEF AtGate
<1>6. GateInv' /\ gate' \in [Hosts -> Calls \cup {NoOne}]
  BY <1>1, <1>5, StartsFrom, GateKept
<1> QED BY <1>1, <1>3, <1>4, <1>6, MoveStep DEF Holding, AtGate

LEMMA GiveUpStep ==
    ASSUME IndInv, NEW c \in Calls, GiveUp(c)
    PROVE  IndInv'
<1>1. /\ call[c].pc = "looking" /\ EndCall(c) /\ record' = record
      /\ flying' = flying /\ leaving' = leaving /\ unlucky' = unlucky
      /\ gate' = [gate EXCEPT ![HostOf[c]] = NoOne]
  BY DEF GiveUp, OpenGate
<1>2. /\ call'[c].pc = "done" /\ \A d \in Calls \ {c} : call'[d] = call[d]
  BY <1>1, StartsFrom, EndFacts
<1>3. Frame(c)
  BY StartsFrom, AdmissionAssumption DEF GiveUp, Frame, Fault
<1>4. Kept(c)
  BY <1>1, <1>2, StartsFrom DEF Kept, CallInv, LuckyInv
<1>5. call[c].pc \in AtGate /\ call'[c].pc \notin AtGate
  BY <1>1, <1>2 DEF AtGate
<1>6. GateInv' /\ gate' \in [Hosts -> Calls \cup {NoOne}]
  BY <1>1, <1>2, <1>5, StartsFrom, GateOpened DEF OpenGate
<1> QED BY <1>1, <1>3, <1>4, <1>6, EndStep DEF Holding, AtGate

LEMMA TurnAwayStep ==
    ASSUME IndInv, NEW c \in Calls, TurnAway(c)
    PROVE  IndInv'
<1>1. /\ call[c].pc = "refused" /\ EndCall(c) /\ record' = record
      /\ flying' = flying /\ leaving' = leaving /\ unlucky' = unlucky
      /\ gate' = [gate EXCEPT ![HostOf[c]] = NoOne]
  BY DEF TurnAway, OpenGate
<1>2. /\ call'[c].pc = "done" /\ \A d \in Calls \ {c} : call'[d] = call[d]
  BY <1>1, StartsFrom, EndFacts
<1>3. Frame(c)
  BY StartsFrom, AdmissionAssumption DEF TurnAway, Frame, Fault
<1>4. Kept(c)
  BY <1>1, <1>2, StartsFrom DEF Kept, CallInv, LuckyInv
<1>5. call[c].pc \in AtGate /\ call'[c].pc \notin AtGate
  BY <1>1, <1>2 DEF AtGate
<1>6. GateInv' /\ gate' \in [Hosts -> Calls \cup {NoOne}]
  BY <1>1, <1>2, <1>5, StartsFrom, GateOpened DEF OpenGate
<1> QED BY <1>1, <1>3, <1>4, <1>6, EndStep DEF Holding, AtGate

LEMMA ClosedStep ==
    ASSUME IndInv, NEW c \in Calls, Closed(c)
    PROVE  IndInv'
<1>1. /\ call[c].pc = "closed" /\ EndCall(c) /\ record' = record
      /\ flying' = flying /\ leaving' = leaving /\ unlucky' = unlucky /\ gate' = gate
  BY DEF Closed
<1>2. /\ call'[c].pc = "done" /\ \A d \in Calls \ {c} : call'[d] = call[d]
  BY <1>1, StartsFrom, EndFacts
<1>3. Frame(c)
  BY StartsFrom, AdmissionAssumption DEF Closed, Frame, Fault
<1>4. Kept(c)
  BY <1>1, <1>2, StartsFrom DEF Kept, CallInv, LuckyInv
<1>5. \A d \in Calls : call'[d].pc \in AtGate <=> call[d].pc \in AtGate
  BY <1>1, <1>2 DEF AtGate
<1>6. GateInv' /\ gate' \in [Hosts -> Calls \cup {NoOne}]
  BY <1>1, <1>5, StartsFrom, GateKept
<1> QED BY <1>1, <1>3, <1>4, <1>6, EndStep DEF Holding, AtGate

LEMMA CloseFailsStep ==
    ASSUME IndInv, NEW c \in Calls, CloseFails(c)
    PROVE  IndInv'
<1>1. /\ call[c].pc = "closing" /\ EndCall(c) /\ record' = record
      /\ flying' = flying /\ leaving' \in {leaving, leaving \ {c}}
      /\ unlucky' = unlucky \cup {c} /\ gate' = gate
  BY DEF CloseFails, Fault
<1>2. /\ call'[c].pc = "done" /\ \A d \in Calls \ {c} : call'[d] = call[d]
  BY <1>1, StartsFrom, EndFacts
<1>3. Frame(c)
  BY StartsFrom, AdmissionAssumption DEF CloseFails, Frame, Fault
<1>4. Kept(c)
  BY <1>1, <1>2, StartsFrom DEF Kept, CallInv, LuckyInv
<1>5. \A d \in Calls : call'[d].pc \in AtGate <=> call[d].pc \in AtGate
  BY <1>1, <1>2 DEF AtGate
<1>6. GateInv' /\ gate' \in [Hosts -> Calls \cup {NoOne}]
  BY <1>1, <1>5, StartsFrom, GateKept
<1> QED BY <1>1, <1>3, <1>4, <1>6, EndStep DEF Holding, AtGate

-----------------------------------------------------------------------------
(* The other steps.                                                        *)

LEMMA TickStep ==
    ASSUME IndInv, Tick
    PROVE  IndInv'
<1>1. /\ record' = record /\ flying' = flying /\ leaving' = leaving /\ call' = call
      /\ active' = active /\ gate' = gate /\ granted' = granted /\ unlucky' = unlucky
      /\ faults' = faults /\ now' = now + 1 /\ now < MaxTime /\ Shape
  BY DEF Tick, IndInv
<1>2. now \in Nat /\ now' \in Nat /\ MaxTime \in Nat /\ Skew \in Nat /\ LeaseTime \in Nat
      /\ WorkTime \in Nat
  BY <1>1, AdmissionAssumption DEF Shape, TypeOK
<1>3. Shape'
  BY <1>1, <1>2 DEF Shape, TypeOK, GateInv
<1>4. ASSUME NEW r \in Records
      PROVE  RecordInv(r)'
  <2>1. RecordInv(r) /\ record[r].updated \in Nat /\ \A c \in Calls : record[r].expires[c] \in Nat
    BY <1>1, AdmissionAssumption DEF IndInv, Shape, TypeOK, Record, Times
  <2>2. \A c \in Calls : record'[r].expires[c] <= now' + Skew + LeaseTime
    BY <1>1, <1>2, <2>1 DEF RecordInv
  <2>3. Sound(record[r], r) => Sound(record[r], r)'
    BY <1>1, <1>2, <2>1 DEF Sound, Leases
  <2>4. Paid(record[r], r) => Paid(record[r], r)'
    BY <1>1 DEF Paid, Spent
  <2> QED BY <1>1, <2>1, <2>2, <2>3, <2>4 DEF RecordInv, Spent
<1>5. ASSUME NEW c \in Calls
      PROVE  CallInv(c)' /\ LuckyInv(c)'
  <2>1. CallInv(c) /\ LuckyInv(c) /\ call[c].clock \in Nat /\ call[c].began \in Nat
    BY <1>1, AdmissionAssumption DEF IndInv, Shape, TypeOK, Call, Times
  <2>2. CallInv(c)'
    BY <1>1, <1>2, <2>1 DEF CallInv
  <2>3. LuckyInv(c)'
    BY <1>1, <2>1 DEF LuckyInv
  <2> QED BY <2>2, <2>3
<1>6. CallsCounted'
  BY <1>1, CountKept DEF IndInv
<1> QED BY <1>3, <1>4, <1>5, <1>6 DEF IndInv

LEMMA CrashStep ==
    ASSUME IndInv, NEW h \in Hosts, Crash(h)
    PROVE  IndInv'
<1> DEFINE lost == {c \in Calls : HostOf[c] = h /\ call[c].pc \in Holding}
<1>1. /\ record' = record /\ flying' = flying /\ leaving' = leaving /\ granted' = granted
      /\ now' = now /\ unlucky' = unlucky \cup lost /\ faults' = faults + 1 /\ faults < MaxFaults
      /\ active' = [active EXCEPT ![h] = 0] /\ gate' = [gate EXCEPT ![h] = NoOne]
      /\ call' = [c \in Calls |-> IF c \in lost THEN [call[c] EXCEPT !.pc = "dead"] ELSE call[c]]
      /\ Shape /\ GateInv
  BY DEF Crash, Fault, OpenGate, IndInv, Shape, TypeOK
<1>2. ASSUME NEW c \in Calls
      PROVE  /\ call'[c] \in Call /\ call'[c].clock = call[c].clock
             /\ call'[c].pc = IF c \in lost THEN "dead" ELSE call[c].pc
             /\ call'[c].began = call[c].began
  BY <1>1 DEF Shape, TypeOK, Call
<1>3. call' \in [Calls -> Call]
  <2>1. call' = [c \in Calls |-> call'[c]]
    BY <1>1
  <2> QED BY <1>2, <2>1
<1> HIDE DEF lost
<1>4. /\ lost \subseteq Calls
      /\ \A c \in Calls : c \in lost <=> HostOf[c] = h /\ call[c].pc \in Holding
  BY DEF lost
<1>5. GateInv'
  <2> SUFFICES ASSUME NEW c \in Calls
               PROVE  call'[c].pc \in AtGate <=> gate'[HostOf[c]] = c
    BY DEF GateInv
  <2>1. HostOf[c] \in Hosts /\ NoOne \notin Calls
    BY KeysType, AdmissionAssumption
  <2>2. CASE HostOf[c] = h
    BY <1>1, <1>2, <1>4, <2>1, <2>2 DEF Shape, TypeOK, AtGate, Holding
  <2>3. CASE HostOf[c] # h
    BY <1>1, <1>2, <1>4, <2>1, <2>3 DEF Shape, TypeOK, GateInv
  <2> QED BY <2>2, <2>3
<1>6. Shape'
  <2>1. active' \in [Hosts -> Nat] /\ gate' \in [Hosts -> Calls \cup {NoOne}]
    BY <1>1 DEF Shape, TypeOK
  <2>2. faults' \in 0 .. MaxFaults
    BY <1>1, AdmissionAssumption DEF Shape, TypeOK
  <2> QED BY <1>1, <1>3, <1>4, <1>5, <2>1, <2>2 DEF Shape, TypeOK
<1>7. \A r \in Records : RecordInv(r)'
  BY <1>1, RecordsKept DEF IndInv
<1>8. ASSUME NEW c \in Calls
      PROVE  CallInv(c)' /\ LuckyInv(c)'
  <2>1. CallInv(c) /\ LuckyInv(c)
    BY DEF IndInv
  <2>2. CASE c \in lost
    <3>1. call'[c].pc = "dead" /\ c \in unlucky' /\ call[c].pc \in Holding
      BY <1>1, <1>2, <1>4, <2>2
    <3>2. CallInv(c)'
      <4>1. "dead" \notin Holding
        BY DEF Holding, AtGate
      <4> QED BY <1>1, <1>2, <2>1, <3>1, <4>1 DEF CallInv, Holding, AtGate
    <3> QED BY <3>1, <3>2 DEF LuckyInv
  <2>3. CASE c \notin lost
    <3>1. call'[c].pc = call[c].pc /\ (c \in unlucky' <=> c \in unlucky)
      BY <1>1, <1>2, <2>3
    <3>2. CallInv(c)'
      BY <1>1, <1>2, <2>1, <3>1 DEF CallInv
    <3>3. LuckyInv(c)'
      BY <1>1, <1>2, <2>1, <3>1 DEF LuckyInv
    <3> QED BY <3>2, <3>3
  <2> QED BY <2>2, <2>3
<1>9. CallsCounted'
  <2> SUFFICES ASSUME NEW k \in Hosts
               PROVE  /\ active'[k] = Cardinality({c \in Calls : HostOf[c] = k
                                                                 /\ call'[c].pc \in Holding})
                      /\ active'[k] <= LocalMax
    BY DEF CallsCounted
  <2>1. CASE k = h
    <3>1. {c \in Calls : HostOf[c] = k /\ call'[c].pc \in Holding} = {}
      BY <1>2, <1>4, <2>1 DEF Holding, AtGate
    <3>2. Cardinality({}) = 0 /\ active'[k] = 0 /\ 0 <= LocalMax
      BY <1>1, <2>1, FS_EmptySet, AdmissionAssumption DEF Shape, TypeOK
    <3> QED BY <3>1, <3>2
  <2>2. CASE k # h
    <3>1. {c \in Calls : HostOf[c] = k /\ call'[c].pc \in Holding}
            = {c \in Calls : HostOf[c] = k /\ call[c].pc \in Holding}
      BY <1>2, <1>4, <2>2
    <3> QED BY <1>1, <2>2, <3>1 DEF IndInv, CallsCounted, Shape, TypeOK
  <2> QED BY <2>1, <2>2
<1> QED BY <1>6, <1>7, <1>8, <1>9 DEF IndInv

-----------------------------------------------------------------------------
(* Steps that write the records.                                           *)

\* The time of a transaction.
LEMMA TimeFacts ==
    ASSUME IndInv, NEW c \in Calls, NEW clock \in Nat, clock <= now + Skew
    PROVE  /\ Effective(c, clock) \in Times /\ Effective(c, clock) <= now + Skew
           /\ Effective(c, clock) \in Nat /\ clock <= Effective(c, clock)
           /\ \A r \in KeysOf(c) : record[r].updated <= Effective(c, clock)
<1>1. Shape /\ now \in Nat /\ Skew \in Nat
  BY AdmissionAssumption DEF IndInv, Shape, TypeOK
<1>2. ASSUME NEW r \in Records
      PROVE  record[r].updated <= now + Skew
  <2>1. RecordInv(r)
    BY DEF IndInv
  <2> QED BY <1>1, <2>1 DEF RecordInv, Sound, Missing
<1>3. \A x \in Times : x \in Nat
  BY AdmissionAssumption DEF Times
<1> QED BY <1>1, <1>2, <1>3, EffectiveFacts

\* A step of one call that writes its records: the other calls keep the leases
\* that are later than the step's time.
LEMMA WrittenStep ==
    ASSUME IndInv, NEW c \in Calls, NEW t \in Nat, t <= now + Skew,
           Shape', \A r \in Records : RecordInv(r)', CallInv(c)', LuckyInv(c)', CallsCounted',
           now' = now, granted' \subseteq granted \cup {c}, granted \subseteq granted',
           unlucky' = unlucky,
           \A d \in Calls \ {c} : /\ call'[d] = call[d]
                                  /\ d \in flying' <=> d \in flying
                                  /\ d \in leaving' <=> d \in leaving
                                  /\ \A r \in Records :
                                       \/ record'[r].expires[d] = record[r].expires[d]
                                       \/ /\ record'[r].expires[d] = 0
                                          /\ record[r].expires[d] <= t
    PROVE  IndInv'
<1> SUFFICES ASSUME NEW d \in Calls \ {c}
             PROVE  CallInv(d)' /\ LuckyInv(d)'
  BY DEF IndInv
<1>1. /\ CallInv(d) /\ LuckyInv(d) /\ call'[d] = call[d]
      /\ d \in granted' <=> d \in granted
      /\ \A r \in KeysOf(d) : r \in Records
  BY KeysType DEF IndInv
<1>2. /\ now \in Nat /\ Skew \in Nat /\ WorkTime \in Nat /\ LeaseTime \in Nat
      /\ call[d].clock \in Nat /\ call[d].began \in Nat /\ WorkTime + Skew <= LeaseTime
      /\ \A r \in Records : record[r].expires[d] \in Nat
  BY AdmissionAssumption, PolicyAssumption DEF IndInv, Shape, TypeOK, Call, Record, Times
<1>3. ASSUME call[d].pc \in AtGate \cup {"running"}, d \in granted,
             now < call[d].began + WorkTime, NEW r \in KeysOf(d)
      PROVE  record'[r].expires[d] >= call[d].clock + LeaseTime
  <2>1. record[r].expires[d] >= call[d].clock + LeaseTime /\ call[d].began <= call[d].clock
    BY <1>1, <1>3 DEF CallInv, Holding
  <2>2. record[r].expires[d] > t
    BY <1>1, <1>2, <1>3, <2>1
  <2> QED BY <1>1, <1>2, <2>1, <2>2
<1>4. CallInv(d)'
  BY <1>1, <1>3 DEF CallInv
<1>5. \A r \in Records : record[r].expires[d] = 0 => record'[r].expires[d] = 0
  OBVIOUS
<1>6. LuckyInv(d)'
  BY <1>1, <1>5 DEF LuckyInv
<1> QED BY <1>4, <1>6

\* A commit that admits no one.
LEMMA AnswerStep ==
    ASSUME IndInv, NEW c \in Calls, Commit(c), record' = record, granted' = granted
    PROVE  IndInv'
<1> DEFINE p      == PolicyOf[HostOf[c]]
           t      == Effective(c, call[c].clock)
           seen   == [r \in Records |-> Normal(r, p, t)]
           admits == \A r \in KeysOf(c) : Admits(seen[r])
           pc     == IF Found(c) = KeysOf(c) THEN "admitted"
                     ELSE IF Found(c) # {}   THEN "looking"
                     ELSE IF admits          THEN "admitted" ELSE "refused"
<1>1. /\ c \in flying /\ flying' = flying \ {c} /\ now' = now /\ leaving' = leaving
      /\ active' = active /\ gate' = gate /\ unlucky' = unlucky /\ faults' = faults
      /\ Answer(c, pc)
      /\ Found(c) = {} /\ admits => granted' = granted \cup {c}
  BY DEF Commit
<1> HIDE DEF admits
<1>2. /\ pc \in {"admitted", "looking", "refused"}
      /\ pc = "looking" => Found(c) # {}
      /\ pc = "admitted" => Found(c) = KeysOf(c) \/ (Found(c) = {} /\ admits)
  OBVIOUS
<1> HIDE DEF pc
<1>3. Frame(c)
  BY <1>1, StartsFrom DEF Frame
<1>4. Fleet \in KeysOf(c) /\ Fleet \in Records /\ KeysOf(c) \subseteq Records
  BY AdmissionAssumption, KeysType DEF KeysOf
<1>5. \A r \in Found(c) : r \in Records /\ record[r].expires[c] > 0 /\ RecordInv(r)
  <2>1. call[c].clock \in Nat /\ \A r \in Records : record[r].expires[c] \in Nat
    BY AdmissionAssumption DEF IndInv, Shape, TypeOK, Call, Record, Times
  <2> QED BY <1>4, <2>1 DEF Found, IndInv
<1>6. pc = "admitted" => c \in granted
  <2>1. CASE Found(c) = KeysOf(c)
    BY <1>4, <1>5, <2>1 DEF RecordInv
  <2>2. CASE Found(c) = {} /\ admits
    BY <1>1, <2>2
  <2> QED BY <1>2, <2>1, <2>2
<1>7. CASE call[c].pc = "admitting"
  <2>1. Go(c, pc)
    BY <1>1, <1>7 DEF Answer
  <2>2. /\ call'[c].pc = pc /\ \A d \in Calls \ {c} : call'[d] = call[d]
    BY <1>2, <2>1, StartsFrom, GoFacts DEF Holding, AtGate
  <2>3. c \notin unlucky => Found(c) = {}
    BY <1>5, <1>7, StartsFrom DEF LuckyInv
  <2>4. Kept(c)
    BY <1>1, <1>2, <1>6, <1>7, <2>2, <2>3, StartsFrom DEF Kept, CallInv, LuckyInv
  <2>5. \A d \in Calls : call'[d].pc \in AtGate <=> call[d].pc \in AtGate
    BY <1>2, <1>7, <2>2 DEF AtGate
  <2>6. GateInv' /\ gate' \in [Hosts -> Calls \cup {NoOne}]
    BY <1>1, <2>5, StartsFrom, GateKept
  <2> QED BY <1>1, <1>2, <1>3, <1>7, <2>1, <2>4, <2>6, MoveStep DEF Holding, AtGate
<1>8. CASE call[c].pc # "admitting"
  <2>1. call' = call /\ c \in unlucky
    BY <1>1, <1>8, StartsFrom DEF Answer, LuckyInv
  <2>2. Shape' /\ CallsCounted'
    BY <1>1, <2>1, <1>3, CountKept DEF IndInv, Shape, TypeOK, GateInv, Frame
  <2>3. CallInv(c)' /\ LuckyInv(c)'
    BY <1>1, <2>1, StartsFrom DEF CallInv, LuckyInv
  <2>4. Alone(c)
    BY <1>1, <1>3, <2>1 DEF Alone, Frame
  <2> QED BY <2>2, <2>3, <2>4, QuietStep
<1> QED BY <1>7, <1>8

\* A record of a call that is admitted.
LEMMA GrantedRecord ==
    ASSUME IndInv, NEW c \in Calls, NEW t \in Times, t <= now + Skew, call[c].clock <= t,
           NEW r \in KeysOf(c), record[r].updated <= t, record[r].expires[c] <= call[c].clock,
           Admits(Normal(r, PolicyOf[HostOf[c]], t)),
           record'[r] = Leased(Normal(r, PolicyOf[HostOf[c]], t), c, t),
           granted' = granted \cup {c}, now' = now
    PROVE  /\ record'[r] \in Record /\ RecordInv(r)'
           /\ \A d \in Calls : record'[r].expires[d] =
                IF d = c THEN t + LeaseTime
                ELSE IF record[r].expires[d] > t THEN record[r].expires[d] ELSE 0
<1> DEFINE p == PolicyOf[HostOf[c]]
           n == Normal(r, p, t)
           m == record'[r]
           k == Cardinality(Spent(r))
           l == Cardinality(Spent(r)')
<1>1. r \in Records /\ p \in Policies /\ RecordInv(r) /\ Shape
  BY KeysType DEF IndInv
<1>2. Seen(n, r, p, t)
  BY <1>1, NormalFacts
<1>3. /\ t \in Nat /\ call[c].clock \in Nat /\ now \in Nat /\ Skew \in Nat /\ LeaseTime \in Nat
      /\ \A d \in Calls : record[r].expires[d] \in Nat
      /\ NoOne \notin Policies /\ granted \subseteq Calls
      /\ MaxCapacity \in Nat /\ MaxRefill \in Nat /\ Unit \in Nat
  BY <1>1, AdmissionAssumption DEF Shape, TypeOK, Call, Record, Times
<1>4. n.expires[c] = 0
  BY <1>2, <1>3 DEF Seen
<1> HIDE DEF n
<1>5. /\ m \in Record /\ Sound(m, r)
      /\ \A d \in Calls : m.expires[d] = IF d = c THEN t + LeaseTime ELSE n.expires[d]
      /\ r # Fleet => Unit * (k + 1) + m.tokens
                        <= MaxCapacity + MaxRefill * (m.refilled - m.created)
  <2>1. /\ Admits(n) /\ m = Leased(n, c, t)
    BY DEF n
  <2> HIDE DEF m, k
  <2> QED BY <1>1, <1>2, <1>4, <2>1, LeasedFacts DEF k
<1>6. \A d \in Calls : m.expires[d] =
        IF d = c THEN t + LeaseTime
        ELSE IF record[r].expires[d] > t THEN record[r].expires[d] ELSE 0
  BY <1>2, <1>5 DEF Seen
<1>7. ASSUME NEW d \in Calls
      PROVE  /\ m.expires[d] <= now + Skew + LeaseTime
             /\ m.expires[d] > 0 => r \in KeysOf(d) /\ d \in granted'
  <2>1. CASE d = c
    BY <1>3, <1>6, <2>1
  <2>2. CASE d # c
    BY <1>1, <1>3, <1>6, <2>2 DEF RecordInv
  <2> QED BY <2>1, <2>2
<1>8. Unit * l <= Unit * (k + 1) /\ l \in Nat /\ k \in Nat
  <2>1. Spent(r)' = Spent(r) \cup {c}
    BY DEF Spent
  <2>2. IsFiniteSet(Spent(r)) /\ k \in Nat
    BY <1>3, FiniteCalls, Spent(r) \in SUBSET Calls DEF Spent
  <2>3. l = k \/ l = k + 1
    <3> HIDE DEF Spent
    <3> QED BY <2>1, <2>2, FS_AddElement, Spent(r) \cup {c} = Spent(r) \/ c \notin Spent(r)
  <2> HIDE DEF l, k
  <2>4. Unit * (k + 1) = Unit * k + Unit * 1 /\ Unit * k \in Nat /\ Unit * 1 \in Nat
    BY <1>3, <2>2, Distributes
  <2> QED BY <2>2, <2>3, <2>4
<1>9. r # Fleet => Unit * l + m.tokens <= MaxCapacity + MaxRefill * (m.refilled - m.created)
  <2> DEFINE z == MaxCapacity + MaxRefill * (m.refilled - m.created)
             x == Unit * (k + 1)
             y == Unit * l
  <2>1. m.tokens \in Nat /\ z \in Int
    <3>1. m.refilled \in Nat /\ m.created \in Nat /\ m.tokens \in Nat
      BY <1>5, AdmissionAssumption DEF Record, Times
    <3> QED BY <1>3, <3>1
  <2>2. x \in Nat /\ y \in Nat /\ y <= x
    <3> HIDE DEF k, l
    <3> QED BY <1>3, <1>8
  <2>3. r # Fleet => x + m.tokens <= z
    BY <1>5
  <2> HIDE DEF x, y, z, m
  <2>4. r # Fleet => y + m.tokens <= z
    BY <2>1, <2>2, <2>3
  <2> QED BY <2>4 DEF x, y, z
<1>10. Sound(record[r], r)'
  BY <1>5 DEF Sound, Leases
<1>11. Paid(record[r], r)'
  BY <1>9 DEF Paid
<1>12. record'[r].revision # NoOne
  BY <1>3, <1>5 DEF Sound
<1>13. RecordInv(r)'
  BY <1>7, <1>10, <1>11, <1>12 DEF RecordInv
<1> QED BY <1>5, <1>6, <1>13

\* A record that a step leaves alone while another call is granted its own.
LEMMA OtherRecord ==
    ASSUME NEW c \in Calls, NEW r \in Records \ KeysOf(c), RecordInv(r),
           record'[r] = record[r], granted' = granted \cup {c}, now' = now
    PROVE  RecordInv(r)'
<1>1. Spent(r)' = Spent(r)
  BY DEF Spent
<1> QED BY <1>1 DEF RecordInv, Sound, Paid, Leases

\* A commit that admits its call.
LEMMA GrantStep ==
    ASSUME IndInv, NEW c \in Calls, Commit(c), ~(record' = record /\ granted' = granted)
    PROVE  IndInv'
<1> DEFINE p == PolicyOf[HostOf[c]]
           t == Effective(c, call[c].clock)
<1>1. /\ c \in flying /\ flying' = flying \ {c} /\ now' = now /\ leaving' = leaving
      /\ active' = active /\ gate' = gate /\ unlucky' = unlucky /\ faults' = faults
      /\ granted' = granted \cup {c} /\ Found(c) = {}
      /\ \A r \in KeysOf(c) : r \in Records
      /\ \A r \in KeysOf(c) : Admits(Normal(r, p, t))
      /\ record' = [r \in Records |-> IF r \in KeysOf(c) THEN Leased(Normal(r, p, t), c, t)
                                                         ELSE record[r]]
  BY KeysType DEF Commit
<1>2. Answer(c, "admitted")
  <2>1. KeysOf(c) # {}
    BY DEF KeysOf
  <2> QED BY <1>1, <2>1 DEF Commit
<1>3. /\ Shape /\ CallInv(c) /\ LuckyInv(c) /\ GateInv /\ call[c].clock \in Nat
      /\ call[c].clock <= now + Skew
  BY StartsFrom, AdmissionAssumption DEF IndInv, CallInv, Shape, TypeOK, Call, Times
<1>4. /\ t \in Times /\ t \in Nat /\ t <= now + Skew /\ call[c].clock <= t
      /\ \A r \in KeysOf(c) : record[r].updated <= t
  BY <1>3, TimeFacts
<1> HIDE DEF t, p
<1>5. ASSUME NEW r \in KeysOf(c)
      PROVE  /\ record'[r] \in Record /\ RecordInv(r)'
             /\ \A d \in Calls : record'[r].expires[d] =
                  IF d = c THEN t + LeaseTime
                  ELSE IF record[r].expires[d] > t THEN record[r].expires[d] ELSE 0
  <2>1. record[r].expires[c] <= call[c].clock
    <3>1. record[r].expires[c] \in Nat
      BY <1>1, <1>3, AdmissionAssumption DEF Shape, TypeOK, Record, Times
    <3> QED BY <1>1, <1>3, <3>1 DEF Found
  <2>2. record'[r] = Leased(Normal(r, p, t), c, t) /\ Admits(Normal(r, p, t))
    BY <1>1
  <2> QED BY <1>1, <1>4, <2>1, <2>2, GrantedRecord DEF p
<1>6. ASSUME NEW r \in Records, r \notin KeysOf(c)
      PROVE  record'[r] = record[r] /\ RecordInv(r)'
  <2>1. record'[r] = record[r] /\ RecordInv(r)
    BY <1>1, <1>6 DEF IndInv
  <2> QED BY <1>1, <1>6, <2>1, OtherRecord
<1>7. \A r \in Records : RecordInv(r)'
  BY <1>5, <1>6
<1>8. record' \in [Records -> Record]
  <2>1. \A r \in Records : record'[r] \in Record
    BY <1>3, <1>5, <1>6 DEF Shape, TypeOK
  <2> QED BY <1>1, <2>1
<1>9. /\ call' \in [Calls -> Call] /\ call'[c].clock = call[c].clock
      /\ call'[c].began = call[c].began /\ \A d \in Calls \ {c} : call'[d] = call[d]
      /\ call'[c].pc = IF call[c].pc = "admitting" THEN "admitted" ELSE call[c].pc
  BY <1>2, <1>3, GoFacts DEF Answer, Shape, TypeOK, Holding, AtGate
<1>10. GateInv' /\ CallsCounted'
  <2>1. \A d \in Calls : /\ call'[d].pc \in AtGate <=> call[d].pc \in AtGate
                         /\ call'[d].pc \in Holding <=> call[d].pc \in Holding
    BY <1>9 DEF AtGate, Holding
  <2> QED BY <1>1, <1>3, <2>1, GateKept, CountKept DEF IndInv
<1>11. Shape'
  BY <1>1, <1>3, <1>8, <1>9, <1>10 DEF Shape, TypeOK
<1>12. CallInv(c)'
  <2>1. \A r \in KeysOf(c) : record'[r].expires[c] >= call[c].clock + LeaseTime
    BY <1>3, <1>4, <1>5, AdmissionAssumption
  <2> QED BY <1>1, <1>3, <1>9, <2>1 DEF CallInv, Holding, AtGate
<1>13. LuckyInv(c)'
  BY <1>1, <1>3, <1>9 DEF LuckyInv
<1>14. ASSUME NEW d \in Calls \ {c}, NEW r \in Records
       PROVE  \/ record'[r].expires[d] = record[r].expires[d]
              \/ record'[r].expires[d] = 0 /\ record[r].expires[d] <= t
  <2>1. record[r].expires[d] \in Nat
    BY <1>3, AdmissionAssumption DEF Shape, TypeOK, Record, Times
  <2> QED BY <1>4, <1>5, <1>6, <2>1
<1> QED BY <1>1, <1>4, <1>7, <1>9, <1>10, <1>11, <1>12, <1>13, <1>14, WrittenStep

LEMMA CommitStep ==
    ASSUME IndInv, NEW c \in Calls, Commit(c)
    PROVE  IndInv'
BY AnswerStep, GrantStep

\* A release.
LEMMA ReleaseStep ==
    ASSUME IndInv, NEW c \in Calls, NEW clock \in 0 .. now + Skew, Release(c, clock)
    PROVE  IndInv'
<1> DEFINE t == Effective(c, clock)
<1>1. /\ c \in leaving /\ leaving' = leaving \ {c} /\ record' = WithoutLease(c, t)
      /\ IF call[c].pc = "closing" THEN Go(c, "closed") ELSE call' = call
      /\ now' = now /\ flying' = flying /\ active' = active /\ gate' = gate
      /\ granted' = granted /\ unlucky' = unlucky /\ faults' = faults
  BY DEF Release
<1>2. /\ Shape /\ CallInv(c) /\ LuckyInv(c) /\ GateInv /\ clock \in Nat /\ clock <= now + Skew
      /\ now \in Nat /\ Skew \in Nat /\ LeaseTime \in Nat
  BY StartsFrom, AdmissionAssumption DEF IndInv, Shape, TypeOK
<1>3. /\ t \in Times /\ t \in Nat /\ t <= now + Skew
      /\ \A r \in KeysOf(c) : record[r].updated <= t
  BY <1>2, TimeFacts
<1> HIDE DEF t
<1>4. call[c].pc \in {"closing", "done", "dead"}
  BY <1>1, <1>2 DEF CallInv
<1>5. /\ call' \in [Calls -> Call] /\ call'[c].clock = call[c].clock
      /\ call'[c].began = call[c].began /\ \A d \in Calls \ {c} : call'[d] = call[d]
      /\ call'[c].pc = IF call[c].pc = "closing" THEN "closed" ELSE call[c].pc
  BY <1>1, <1>2, GoFacts DEF Shape, TypeOK, Holding
<1>6. ASSUME NEW r \in Records
      PROVE  /\ record'[r] \in Record /\ RecordInv(r)' /\ record'[r].expires[c] = 0
             /\ \A d \in Calls \ {c} : record'[r].expires[d] = record[r].expires[d]
  <2>1. record[r] \in Record /\ RecordInv(r) /\ record[r].expires \in [Calls -> Times]
        /\ record[r].expires[c] \in Nat /\ 0 \in Times
    BY <1>2, AdmissionAssumption DEF IndInv, Shape, TypeOK, Record, Times
  <2>2. CASE r \in KeysOf(c) /\ record[r].revision # NoOne
    <3> DEFINE e == [record[r].expires EXCEPT ![c] = 0]
               m == record'[r]
    <3>1. m = [record[r] EXCEPT !.expires = e, !.updated = t]
      BY <1>1, <2>2 DEF WithoutLease
    <3>2. e \in [Calls -> Times] /\ e[c] = 0 /\ \A d \in Calls \ {c} : e[d] = record[r].expires[d]
      BY <2>1
    <3> HIDE DEF e
    <3>3. /\ m \in Record /\ m.expires = e /\ m.updated = t
          /\ m.revision = record[r].revision /\ m.limits = record[r].limits
          /\ m.tokens = record[r].tokens /\ m.created = record[r].created
          /\ m.refilled = record[r].refilled
      <4> HIDE DEF m
      <4> QED BY <1>3, <2>1, <3>1, <3>2 DEF Record
    <3>4. Sound(record[r], r) /\ Paid(record[r], r)
      BY <2>1, <2>2 DEF RecordInv
    <3>5. Leases(m) \subseteq Leases(record[r])
      BY <3>2, <3>3 DEF Leases
    <3>6. Cardinality(Leases(m)) <= record[r].limits.inflight
      <4>1. IsFiniteSet(Leases(record[r])) /\ Cardinality(Leases(record[r])) \in Nat
        BY FiniteCalls, Leases(record[r]) \in SUBSET Calls DEF Leases
      <4>2. Cardinality(Leases(m)) <= Cardinality(Leases(record[r]))
        BY <3>5, <4>1, FS_Subset
      <4>3. Cardinality(Leases(m)) \in Nat
        BY FiniteCalls, Leases(m) \in SUBSET Calls DEF Leases
      <4>4. Cardinality(Leases(record[r])) <= record[r].limits.inflight
            /\ record[r].limits.inflight \in Nat
        BY <3>4 DEF Sound, Limits
      <4> HIDE DEF Leases, m
      <4> QED BY <4>1, <4>2, <4>3, <4>4
    <3>7. m.refilled <= t
      <4>1. record[r].refilled \in Nat /\ record[r].updated \in Nat
        BY <2>1, AdmissionAssumption DEF Record, Times
      <4> QED BY <1>3, <2>2, <3>3, <3>4, <4>1 DEF Sound
    <3> HIDE DEF m
    <3>8. Sound(m, r)
      BY <1>3, <3>3, <3>4, <3>5, <3>6, <3>7 DEF Sound
    <3>9. Sound(record[r], r)'
      BY <1>1, <3>8 DEF Sound, Leases, m
    <3>10. Paid(record[r], r)'
      BY <1>1, <3>3, <3>4 DEF Paid, Spent, m
    <3>11. \A d \in Calls : /\ m.expires[d] <= now + Skew + LeaseTime
                            /\ m.expires[d] > 0 => r \in KeysOf(d) /\ d \in granted
      BY <1>2, <2>1, <3>2, <3>3 DEF RecordInv
    <3>12. RecordInv(r)'
      BY <1>1, <2>2, <3>3, <3>9, <3>10, <3>11 DEF RecordInv, m
    <3> QED BY <3>2, <3>3, <3>12 DEF m
  <2>3. CASE ~(r \in KeysOf(c) /\ record[r].revision # NoOne)
    <3>1. record'[r] = record[r]
      BY <1>1, <2>3 DEF WithoutLease
    <3>2. record[r].expires[c] = 0
      BY <2>1, <2>3 DEF RecordInv, Missing
    <3>3. RecordInv(r)'
      BY <1>1, <2>1, <3>1 DEF RecordInv, Sound, Paid, Leases, Spent
    <3> QED BY <2>1, <3>1, <3>2, <3>3
  <2> QED BY <2>2, <2>3
<1>7. record' \in [Records -> Record]
  BY <1>1, <1>6 DEF WithoutLease
<1>8. GateInv' /\ CallsCounted'
  <2>1. \A d \in Calls : /\ call'[d].pc \in AtGate <=> call[d].pc \in AtGate
                         /\ call'[d].pc \in Holding <=> call[d].pc \in Holding
    BY <1>5 DEF AtGate, Holding
  <2> QED BY <1>1, <1>2, <2>1, GateKept, CountKept DEF IndInv
<1>9. Shape'
  BY <1>1, <1>2, <1>5, <1>7, <1>8 DEF Shape, TypeOK
<1>10. CallInv(c)'
  BY <1>1, <1>2, <1>4, <1>5 DEF CallInv, Holding, AtGate
<1>11. LuckyInv(c)'
  BY <1>1, <1>2, <1>4, <1>5, <1>6 DEF LuckyInv
<1> QED BY <1>1, <1>3, <1>5, <1>6, <1>8, <1>9, <1>10, <1>11, WrittenStep

-----------------------------------------------------------------------------
(* The inductive invariant.                                                *)

LEMMA InitInv == Init => IndInv
<1> SUFFICES ASSUME Init
             PROVE  IndInv
  OBVIOUS
<1>1. 0 \in Times /\ 0 \in 0 .. MaxTime /\ 0 \in 0 .. MaxFaults /\ 0 <= LocalMax
      /\ 0 <= 0 + Skew /\ 0 <= 0 + Skew + LeaseTime
  BY AdmissionAssumption DEF Times
<1>2. Missing \in Record
  BY <1>1 DEF Missing, Record
<1>3. \A c \in Calls : HostOf[c] \in Hosts /\ NoOne \notin Calls
  BY KeysType, AdmissionAssumption
<1>4. /\ record \in [Records -> Record] /\ call \in [Calls -> Call]
      /\ active \in [Hosts -> Nat] /\ gate \in [Hosts -> Calls \cup {NoOne}]
  BY <1>1, <1>2 DEF Init, Call
<1>5. Shape
  BY <1>1, <1>3, <1>4 DEF Init, Shape, TypeOK, GateInv, AtGate
<1>6. \A r \in Records : RecordInv(r)
  BY <1>1 DEF Init, RecordInv, Missing, Spent
<1>7. \A c \in Calls : CallInv(c) /\ LuckyInv(c)
  BY <1>1 DEF Init, CallInv, LuckyInv, Holding, AtGate, Missing
<1>8. CallsCounted
  <2>1. \A h \in Hosts : {c \in Calls : HostOf[c] = h /\ call[c].pc \in Holding} = {}
    BY DEF Init, Holding, AtGate
  <2>2. Cardinality({}) = 0
    BY FS_EmptySet
  <2> QED BY <1>1, <2>1, <2>2 DEF Init, CallsCounted
<1> QED BY <1>5, <1>6, <1>7, <1>8 DEF IndInv

LEMMA NextInv == IndInv /\ [Next]_vars => IndInv'
<1> SUFFICES ASSUME IndInv, [Next]_vars
             PROVE  IndInv'
  OBVIOUS
<1>1. CASE Tick
  BY <1>1, TickStep
<1>2. ASSUME NEW h \in Hosts, Crash(h)
      PROVE  IndInv'
  BY <1>2, CrashStep
<1>3. ASSUME NEW c \in Calls, Step(c)
      PROVE  IndInv'
  <2>1. ASSUME NEW ahead \in 0 .. Skew, Enter(c, now + ahead)
        PROVE  IndInv'
    BY <2>1, EnterStep
  <2>2. ASSUME NEW clock \in 0 .. now + Skew, Release(c, clock)
        PROVE  IndInv'
    BY <2>2, ReleaseStep
  <2>3. CASE WaitNoMore(c) \/ PassGate(c) \/ Unanswered(c) \/ TryAgain(c)
    BY <2>3, WaitNoMoreStep, PassGateStep, UnansweredStep, TryAgainStep
  <2>4. CASE Commit(c)
    BY <2>4, CommitStep
  <2>5. CASE LookBack(c) \/ GiveUp(c) \/ Start(c) \/ TurnAway(c)
    BY <2>5, LookBackStep, GiveUpStep, StartStep, TurnAwayStep
  <2>6. CASE Close(c) \/ Closed(c) \/ CloseFails(c)
    BY <2>6, CloseStep, ClosedStep, CloseFailsStep
  <2> QED BY <1>3, <2>1, <2>2, <2>3, <2>4, <2>5, <2>6 DEF Step
<1>4. CASE UNCHANGED vars
  <2>1. Shape' /\ CallsCounted'
    BY <1>4 DEF IndInv, Shape, TypeOK, GateInv, CallsCounted, vars
  <2>2. \A r \in Records : RecordInv(r)'
    BY <1>4, RecordsKept DEF IndInv, vars
  <2>3. \A c \in Calls : CallInv(c)' /\ LuckyInv(c)'
    BY <1>4 DEF IndInv, CallInv, LuckyInv, vars
  <2> QED BY <2>1, <2>2, <2>3 DEF IndInv
<1> QED BY <1>1, <1>2, <1>3, <1>4 DEF Next

LEMMA Inductive == Spec => []IndInv
<1> QED BY InitInv, NextInv, PTL DEF Spec

\* Work within its time has leases that outlast every clock.
LEMMA LeasesHeld == IndInv => HoldsLease
<1> SUFFICES ASSUME IndInv, NEW c \in Calls, Working(c), NEW r \in KeysOf(c)
             PROVE  record[r].expires[c] > now + Skew
  BY DEF HoldsLease
<1>1. /\ r \in Records /\ CallInv(c) /\ Shape
  BY KeysType DEF IndInv
<1>2. /\ now \in Nat /\ Skew \in Nat /\ WorkTime \in Nat /\ LeaseTime \in Nat
      /\ call[c].clock \in Nat /\ call[c].began \in Nat /\ record[r].expires[c] \in Nat
      /\ WorkTime + Skew <= LeaseTime
  BY <1>1, AdmissionAssumption, PolicyAssumption DEF Shape, TypeOK, Call, Record, Times
<1>3. /\ record[r].expires[c] >= call[c].clock + LeaseTime /\ call[c].began <= call[c].clock
      /\ now < call[c].began + WorkTime
  BY <1>1 DEF CallInv, Working, Holding
<1> QED BY <1>2, <1>3

-----------------------------------------------------------------------------
(* The theorems.                                                           *)

\* The variables keep their types.
THEOREM Typed == Spec => []TypeOK
<1>1. IndInv => TypeOK
  BY DEF IndInv, Shape
<1> QED BY <1>1, Inductive, PTL

\* Protected work within its time holds the leases of its three records, and no
\* process will prune them however its clock differs (normalizeRecord).
THEOREM WorkHoldsItsLeases == Spec => []HoldsLease
<1> QED BY LeasesHeld, Inductive, PTL

\* While policies change, a project, an account and the fleet never have more work
\* than the policy of any of that work allows (minLimits, decideAdmission).
THEOREM EveryPolicyKept == Spec => []WithinEveryPolicy
<1>1. IndInv => WithinEveryPolicy
  <2> SUFFICES ASSUME IndInv, NEW r \in Records, NEW c \in Calls, r \in KeysOf(c), Working(c)
               PROVE  Cardinality({d \in Calls : r \in KeysOf(d) /\ Working(d)})
                        <= Policy[PolicyOf[HostOf[c]]][r].inflight
    BY DEF WithinEveryPolicy
  <2> DEFINE working == {d \in Calls : r \in KeysOf(d) /\ Working(d)}
             held    == Leases(record[r])
             q       == Policy[PolicyOf[HostOf[c]]][r].inflight
  <2>1. HoldsLease /\ Shape /\ RecordInv(r)
    BY LeasesHeld DEF IndInv
  <2>2. /\ now + Skew >= 0 /\ NoOne \notin Policies /\ now + Skew \in Int
        /\ \A d \in Calls : record[r].expires[d] \in Nat
    BY <2>1, AdmissionAssumption DEF Shape, TypeOK, Record, Times
  <2>3. working \subseteq held /\ c \in held
    BY <2>1, <2>2 DEF HoldsLease, Leases
  <2>4. record[r].revision # NoOne
    <3>1. record[r].expires[c] > 0
      BY <2>3 DEF Leases
    <3> QED BY <2>1, <3>1 DEF RecordInv, Missing
  <2>5. /\ record[r].limits \in Limits /\ Cardinality(held) <= record[r].limits.inflight
        /\ record[r].limits.inflight <= q
    BY <2>1, <2>3, <2>4 DEF RecordInv, Sound
  <2>6. IsFiniteSet(held) /\ Cardinality(held) \in Nat
    BY FiniteCalls, held \in SUBSET Calls DEF Leases
  <2>7. Cardinality(working) \in Nat
    BY FiniteCalls, working \in SUBSET Calls
  <2>8. Cardinality(working) <= Cardinality(held)
    <3> HIDE DEF working, held
    <3> QED BY <2>3, <2>6, FS_Subset
  <2>9. q \in Nat
    <3>1. Policy[PolicyOf[HostOf[c]]][r] \in Limits
      BY KeysType, PolicyAssumption
    <3> QED BY <3>1 DEF Limits
  <2> HIDE DEF q, held
  <2>10. Cardinality(working) <= q
    <3> HIDE DEF working
    <3> QED BY <2>5, <2>6, <2>7, <2>8, <2>9 DEF Limits
  <2> QED BY <2>10 DEF q
<1> QED BY <1>1, Inductive, PTL

\* A project and an account are admitted no faster than by one full bucket and the
\* refill of the time since, whatever the clocks show (normalizeRecord's refill).
THEOREM RateKept == Spec => []WithinRate
<1>1. IndInv => WithinRate
  <2> SUFFICES ASSUME IndInv, NEW r \in Records \ {Fleet}
               PROVE  Unit * Cardinality(Spent(r))
                        <= MaxCapacity + MaxRefill * (now + Skew - record[r].created)
    BY DEF WithinRate, Spent
  <2> DEFINE k == Cardinality(Spent(r))
             x == record[r].refilled - record[r].created
             m == now + Skew - record[r].created
  <2>1. Shape /\ RecordInv(r)
    BY DEF IndInv
  <2>2. /\ now \in Nat /\ Skew \in Nat /\ MaxCapacity \in Nat /\ MaxRefill \in Nat
        /\ record[r].created \in Nat /\ record[r].refilled \in Nat /\ record[r].updated \in Nat
        /\ record[r].tokens \in Nat
    BY <2>1, AdmissionAssumption DEF Shape, TypeOK, Record, Times
  <2>3. k \in Nat /\ Unit * k \in Nat
    BY <2>1, SpentType
  <2>4. CASE record[r].revision = NoOne
    <3>1. k = 0 /\ Unit * 0 = 0
      <4>1. Spent(r) = {}
        BY <2>1, <2>4 DEF RecordInv
      <4>2. k = 0
        BY <4>1, FS_EmptySet
      <4>3. Unit \in Nat
        BY AdmissionAssumption
      <4> QED BY <4>2, <4>3
    <3>2. m \in Nat
      BY <2>1, <2>2, <2>4 DEF RecordInv, Missing
    <3>3. MaxRefill * m \in Nat
      <4> HIDE DEF m
      <4> QED BY <2>2, <3>2, Grows
    <3> HIDE DEF k, m
    <3>4. Unit * k <= MaxCapacity + MaxRefill * m
      BY <2>2, <3>1, <3>3
    <3> QED BY <3>4 DEF k, m
  <2>5. CASE record[r].revision # NoOne
    <3>1. Sound(record[r], r) /\ Paid(record[r], r)
      BY <2>1, <2>5 DEF RecordInv
    <3>2. Unit * k + record[r].tokens <= MaxCapacity + MaxRefill * x
      BY <3>1 DEF Paid
    <3>3. x \in Nat /\ m \in Nat /\ x <= m
      BY <2>2, <3>1 DEF Sound
    <3> HIDE DEF x, m, k
    <3>4. MaxRefill * x \in Nat /\ MaxRefill * m \in Nat /\ MaxRefill * x <= MaxRefill * m
      <4>1. PICK y \in Nat : m = x + y
        BY <3>3, m - x \in Nat
      <4>2. MaxRefill * m = MaxRefill * x + MaxRefill * y
            /\ MaxRefill * x \in Nat /\ MaxRefill * y \in Nat
        BY <2>2, <3>3, <4>1, Distributes
      <4> QED BY <4>2
    <3>5. Unit * k <= MaxCapacity + MaxRefill * m
      BY <2>2, <2>3, <3>2, <3>4
    <3> QED BY <3>5 DEF k, m
  <2> QED BY <2>4, <2>5
<1> QED BY <1>1, Inductive, PTL

\* A process counts exactly the calls that it has, up to its limit (tryLocal and
\* the slot's release), and its gate is held by the one call that passed it
\* (admitWithRunner), on every path a call can end by.
THEOREM SlotsCounted == Spec => []CountsItsCalls
<1>1. IndInv => CountsItsCalls
  BY AdmissionAssumption DEF IndInv, Shape, GateInv, CallsCounted, CountsItsCalls
<1> QED BY <1>1, Inductive, PTL

\* A call that no fault has hit leaves no lease, and nothing that may still commit
\* (Lease.Close, releaseTransaction).
THEOREM NothingLeft == Spec => []LeavesNothing
<1>1. IndInv => LeavesNothing
  BY DEF IndInv, LeavesNothing, LuckyInv
<1> QED BY <1>1, Inductive, PTL

\* Whatever a fault leaves behind ends: no record's clock runs away from the real
\* one, so that a lease is gone a lease's time later (normalizeRecord).
THEOREM LeasesAreEnded == Spec => []LeasesEnd
<1>1. IndInv => LeasesEnd
  BY DEF IndInv, LeasesEnd, RecordInv
<1> QED BY <1>1, Inductive, PTL
=============================================================================
