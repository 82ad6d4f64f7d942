------------------------- MODULE SourceJournalProofs -------------------------
(***************************************************************************)
(* Machine-checked proofs about SourceJournal, for any operations and      *)
(* contents.                                                               *)
(***************************************************************************)
EXTENDS SourceJournal, TLAPS

USE JournalAssumption

\* What a confirmer, a committed event or the watermark says of a generation.
Had(g, content) == g \in 1 .. Gen /\ stored[g] = content

Known(o) ==
    /\ event[o].state = "committed" => Had(event[o].gen, Content[o])
    /\ \A by \in Confirmer :
         held[o][by].to = "commit" => Had(held[o][by].gen, Content[o])

IndInv ==
    /\ TypeOK
    /\ current.gen # 0 => Had(current.gen, current.content)
    /\ \A o \in Ops : Known(o)

Event  == [state : {"none", "prepared"} \cup Settled, expected : Nat, gen : Nat, revision : Nat,
           status : Statuses \cup {"none"}]
Writer == [pc : WriterPC, expected : Nat, status : Statuses]
Held   == [to : {"nothing", "commit", "abort"}, gen : Nat]

LEMMA InitInv == Init => IndInv
BY DEF Init, IndInv, TypeOK, Known, Had, Gen, Raw, Nothing, Settled, Confirmer, Statuses, WriterPC

\* The object only grows.
LEMMA GenIsNat ==
    ASSUME TypeOK
    PROVE  /\ Gen \in Nat
           /\ Gen # 0 => Raw \in Contents
           /\ \A g, c : Had(g, c) => Gen # 0
           /\ Raw # NoContent => Had(Gen, Raw)
           /\ Gen # 0 => Had(Gen, Raw)
BY DEF TypeOK, Gen, Raw, Had

LEMMA AppendKeeps ==
    ASSUME TypeOK, NEW c \in Contents, stored' = Append(stored, c)
    PROVE  /\ stored' \in Seq(Contents) /\ Gen' = Gen + 1
           /\ \A g, d : Had(g, d) => Had(g, d)'
BY DEF TypeOK, Gen, Had

LEMMA WriterFields ==
    ASSUME NEW w \in Writer, NEW pc \in WriterPC, NEW s \in Statuses
    PROVE  /\ [w EXCEPT !.pc = pc] \in Writer
           /\ [w EXCEPT !.pc = pc, !.status = s] \in Writer
BY DEF Writer

LEMMA EventFields ==
    ASSUME NEW e \in Event, NEW g \in Nat
    PROVE  /\ [e EXCEPT !.state = "aborted"] \in Event
           /\ [e EXCEPT !.state = "prepared", !.expected = g] \in Event
BY DEF Event, Settled

LEMMA GotoType ==
    ASSUME TypeOK, NEW o \in Ops, NEW pc \in WriterPC, Goto(o, pc)
    PROVE  writer' \in [Ops -> Writer]
<1>1. writer \in [Ops -> Writer] /\ writer[o] \in Writer
  BY DEF TypeOK, Writer
<1>2. [writer[o] EXCEPT !.pc = pc] \in Writer
  BY <1>1, WriterFields DEF Statuses
<1>3. Gone \in Writer
  BY DEF Gone, Writer, WriterPC, Statuses
<1> QED
  BY <1>1, <1>2, <1>3 DEF Goto

\* The write keeps what is known of older generations.
LEMMA WriteInv ==
    ASSUME IndInv, NEW o \in Ops, NEW heard \in BOOLEAN, Write(o, heard) PROVE IndInv'
<1>1. \A g, d : Had(g, d) => Had(g, d)'
  BY AppendKeeps DEF IndInv, Write, Had, Gen
<1>2. stored' \in Seq(Contents) /\ Gen' >= Gen /\ Gen' \in Nat /\ Gen \in Nat
  BY AppendKeeps, GenIsNat DEF IndInv, TypeOK, Write, Gen
<1>3. writer' \in [Ops -> Writer]
  <2> DEFINE w == writer[o]
  <2>1. w \in Writer /\ writer \in [Ops -> Writer]
    BY DEF IndInv, TypeOK, Writer
  <2>2. [w EXCEPT !.pc = "confirming"] \in Writer /\ [w EXCEPT !.pc = "reconciling"] \in Writer
        /\ [w EXCEPT !.pc = "confirming", !.status = "already_exists"] \in Writer
    BY <2>1, WriterFields DEF WriterPC, Statuses
  <2>3. PICK v \in Writer : writer' = [writer EXCEPT ![o] = v]
    BY <2>2 DEF Write
  <2> QED
    BY <2>1, <2>3
<1>4. TypeOK'
  <2>1. announced' \in 0 .. Gen'
    BY <1>2 DEF IndInv, TypeOK, Write
  <2> QED
    BY <1>2, <1>3, <2>1 DEF IndInv, TypeOK, Write, Writer
<1> QED
  BY <1>1, <1>4 DEF IndInv, Known, Write

\* Steps that concern the operation's own control state, and what it reads.
LEMMA ReadInv ==
    ASSUME IndInv, NEW o \in Ops,
           UNCHANGED <<stored, event, current, revision, announced>>,
           writer' \in [Ops -> Writer],
           NEW by \in Confirmer, NEW to \in {"nothing", "commit", "abort"}, NEW g \in Nat,
           held' = [held EXCEPT ![o][by] = [to |-> to, gen |-> g]],
           to = "commit" => Had(g, Content[o])
    PROVE  IndInv'
<1>1. held' \in [Ops -> [Confirmer -> Held]]
  <2>1. [to |-> to, gen |-> g] \in Held /\ held \in [Ops -> [Confirmer -> Held]]
    BY DEF IndInv, TypeOK, Held
  <2>2. [held[o] EXCEPT ![by] = [to |-> to, gen |-> g]] \in [Confirmer -> Held]
    BY <2>1
  <2> QED
    BY <2>1, <2>2
<1>2. TypeOK'
  BY <1>1 DEF IndInv, TypeOK, Gen, Writer, Held
<1>3. ASSUME NEW p \in Ops, NEW c \in Confirmer
      PROVE  held'[p][c] \in {held[p][c]} \cup
                IF p = o THEN {[to |-> to, gen |-> g]} ELSE {}
  BY DEF IndInv, TypeOK, Held
<1>4. ASSUME NEW p \in Ops PROVE Known(p)'
  BY <1>3 DEF IndInv, Known, Had, Gen
<1> QED
  BY <1>2, <1>4 DEF IndInv, Had, Gen

LEMMA IdleInv ==
    ASSUME IndInv, UNCHANGED <<stored, event, current, revision, announced, held>>,
           writer' \in [Ops -> Writer]
    PROVE  IndInv'
BY DEF IndInv, TypeOK, Known, Had, Gen, Writer

\* The transaction: what it records of an object's generation was read, so the
\* generation had that content and has it still.
LEMMA CommitInv ==
    ASSUME IndInv, NEW o \in Ops, NEW g, Had(g, Content[o]), NEW status \in Statuses,
           Commit(o, g, status),
           UNCHANGED stored
    PROVE  /\ event' \in [Ops -> Event]
           /\ current' \in [gen : Nat, content : Contents \cup {NoContent}]
           /\ revision' \in Nat /\ announced' \in 0 .. Gen
           /\ current'.gen # 0 => Had(current'.gen, current'.content)
           /\ \A p \in Ops : event'[p].state = "committed" => Had(event'[p].gen, Content[p])
           /\ current'.gen >= current.gen
<1>0. g \in Nat /\ Gen \in Nat /\ event \in [Ops -> Event] /\ current.gen \in Nat
  BY GenIsNat DEF IndInv, TypeOK, Had, Event
<1>1. CASE event[o].state # "prepared"
  BY <1>0, <1>1 DEF IndInv, TypeOK, Known, Commit
<1>2. CASE event[o].state = "prepared"
  <2> DEFINE e == [event[o] EXCEPT !.state = "committed", !.gen = g, !.revision = revision',
                              !.status = status]
  <2>1. revision' \in Nat
    BY <1>2 DEF IndInv, TypeOK, Commit
  <2>2. event[o] \in Event
    BY <1>0
  <2>3. e \in Event /\ e.state = "committed" /\ e.gen = g
    BY <1>0, <2>1, <2>2 DEF Event, Settled
  <2>4. event' = [event EXCEPT ![o] = e]
    BY <1>2 DEF Commit
  <2>5. event' \in [Ops -> Event]
    BY <1>0, <2>3, <2>4
  <2>6. \A p \in Ops : event'[p].state = "committed" => Had(event'[p].gen, Content[p])
    BY <1>0, <2>3, <2>4 DEF IndInv, Known
  <2>7. CASE Changed(o, g, status)
    <3>1. current' = [gen |-> g, content |-> Content[o]] /\ announced' = Gen
      BY <1>2, <2>7 DEF Commit
    <3>2. g >= current.gen
      BY <2>7 DEF Changed, Latest
    <3> QED
      BY <1>0, <2>1, <2>5, <2>6, <3>1, <3>2
  <2>8. CASE ~Changed(o, g, status)
    <3>1. current' = current /\ announced' = announced
      BY <1>2, <2>8 DEF Commit
    <3> QED
      BY <1>0, <2>1, <2>5, <2>6, <3>1 DEF IndInv, TypeOK
  <2> QED
    BY <2>7, <2>8
<1> QED
  BY <1>1, <1>2

LEMMA StatusType ==
    ASSUME TypeOK, NEW o \in Ops, NEW by PROVE StatusBy(o, by) \in Statuses
BY DEF TypeOK, StatusBy, Statuses

LEMMA SettleInv ==
    ASSUME IndInv, NEW o \in Ops, NEW by \in Confirmer, Settle(o, by)
    PROVE  IndInv' /\ current'.gen >= current.gen
<1>1. held' \in [Ops -> [Confirmer -> Held]]
  <2>1. Nothing \in Held /\ held \in [Ops -> [Confirmer -> Held]]
    BY DEF IndInv, TypeOK, Held, Nothing
  <2>2. [held[o] EXCEPT ![by] = Nothing] \in [Confirmer -> Held]
    BY <2>1
  <2> QED
    BY <2>1, <2>2 DEF Settle
<1>2. \A p \in Ops, c \in Confirmer : held'[p][c] \in {held[p][c], Nothing}
  BY DEF IndInv, TypeOK, Settle
<1>3. writer' \in [Ops -> Writer]
  BY GotoType DEF IndInv, TypeOK, Settle, Writer, WriterPC, AfterReconcile
<1>4. ASSUME event' \in [Ops -> Event],
             current' \in [gen : Nat, content : Contents \cup {NoContent}],
             revision' \in Nat, announced' \in 0 .. Gen,
             current'.gen # 0 => Had(current'.gen, current'.content),
             \A p \in Ops : event'[p].state = "committed" => Had(event'[p].gen, Content[p])
      PROVE  IndInv'
  <2>1. UNCHANGED stored
    BY DEF Settle
  <2>2. TypeOK'
    BY <1>1, <1>3, <1>4, <2>1 DEF IndInv, TypeOK, Gen, Writer, Held, Event
  <2>3. \A p \in Ops : Known(p)'
    BY <1>2, <1>4, <2>1 DEF IndInv, Known, Had, Gen, Nothing
  <2> QED
    BY <1>4, <2>1, <2>2, <2>3 DEF IndInv, Had, Gen
<1>5. CASE held[o][by].to = "commit"
  <2>1. Had(held[o][by].gen, Content[o])
    BY <1>5 DEF IndInv, Known
  <2>2. StatusBy(o, by) \in Statuses
    BY StatusType DEF IndInv
  <2> QED
    BY <1>4, <1>5, <2>1, <2>2, CommitInv DEF Settle
<1>6. CASE held[o][by].to # "commit"
  <2>1. Abort(o) /\ UNCHANGED <<current, revision, announced, stored>>
    BY <1>6 DEF Settle
  <2>2. event' \in [Ops -> Event]
    <3>1. event \in [Ops -> Event] /\ event[o] \in Event
      BY DEF IndInv, TypeOK, Event
    <3>2. [event[o] EXCEPT !.state = "aborted"] \in Event
      BY <3>1, EventFields
    <3> QED
      BY <2>1, <3>1, <3>2 DEF Abort
  <2>3. \A p \in Ops : event'[p].state = "committed" => Had(event'[p].gen, Content[p])
    BY <2>1 DEF IndInv, TypeOK, Known, Abort
  <2> QED
    BY <1>4, <2>1, <2>2, <2>3 DEF IndInv, TypeOK
<1> QED
  BY <1>5, <1>6

LEMMA PrepareInv ==
    ASSUME IndInv, NEW o \in Ops, NEW g \in Precondition(o), Prepare(o, g) PROVE IndInv'
<1>1. g \in Nat
  BY GenIsNat DEF IndInv, Precondition
<1>2. writer' \in [Ops -> Writer]
  BY GotoType DEF IndInv, Prepare, WriterPC
<1>3. event' \in [Ops -> Event]
  <2>1. event \in [Ops -> Event] /\ event[o] \in Event
    BY DEF IndInv, TypeOK, Event
  <2>2. [event[o] EXCEPT !.state = "prepared", !.expected = g] \in Event
    BY <1>1, <2>1, EventFields
  <2> DEFINE e == [event[o] EXCEPT !.state = "prepared", !.expected = g]
  <2>3. event' = [event EXCEPT ![o] = e]
    BY DEF Prepare
  <2> QED
    BY <2>1, <2>2, <2>3
<1>4. TypeOK'
  BY <1>2, <1>3 DEF IndInv, TypeOK, Prepare, Gen, Event, Writer
<1>5. \A p \in Ops : Known(p)'
  BY DEF IndInv, TypeOK, Known, Had, Gen, Prepare
<1> QED
  BY <1>4, <1>5 DEF IndInv, Had, Gen, Prepare

\* Every other step reads, or moves the operation.
LEMMA StepInv ==
    ASSUME IndInv, [Next]_vars PROVE IndInv' /\ current'.gen >= current.gen
<1> DEFINE Goal == IndInv' /\ current'.gen >= current.gen
<1>0. /\ writer \in [Ops -> Writer] /\ Gen \in Nat /\ current.gen \in Nat
      /\ "commit" \in {"nothing", "commit", "abort"} /\ "writer" \in Confirmer /\ "queue" \in Confirmer
  <2>1. Gen \in Nat
    BY GenIsNat DEF IndInv
  <2> QED
    BY <2>1 DEF IndInv, TypeOK, Writer, Confirmer
<1>a. ASSUME NEW o \in Ops, Raw = Content[o] PROVE Had(Gen, Content[o])
  <2>1. Raw # NoContent
    BY <1>a
  <2> QED
    BY <1>a, <2>1, GenIsNat DEF IndInv
<1>b. ASSUME UNCHANGED current, IndInv' PROVE Goal
  BY <1>0, <1>b
<1>c. ASSUME NEW o \in Ops, NEW by \in Confirmer,
             UNCHANGED <<stored, event, current, revision, announced>>,
             writer' \in [Ops -> Writer], held' = [held EXCEPT ![o][by] = Nothing]
      PROVE  Goal
  <2>1. held' = [held EXCEPT ![o][by] = [to |-> "nothing", gen |-> 0]]
    BY <1>c DEF Nothing
  <2>2. IndInv'
    <3>1. /\ "nothing" \in {"nothing", "commit", "abort"} /\ 0 \in Nat
          /\ "nothing" = "commit" => Had(0, Content[o])
      OBVIOUS
    <3> QED
      BY <1>c, <2>1, <3>1, ReadInv
  <2> QED
    BY <1>b, <1>c, <2>2
<1>d. ASSUME NEW o \in Ops, NEW by \in Confirmer, NEW to \in {"commit", "abort"},
             to = "commit" => Raw = Content[o],
             UNCHANGED <<stored, event, current, revision, announced>>,
             writer' \in [Ops -> Writer], held' = [held EXCEPT ![o][by] = [to |-> to, gen |-> Gen]]
      PROVE  Goal
  <2>1. to \in {"nothing", "commit", "abort"} /\ (to = "commit" => Had(Gen, Content[o]))
    BY <1>a, <1>d
  <2>2. IndInv'
    BY <1>0, <1>d, <2>1, ReadInv
  <2> QED
    BY <1>b, <1>d, <2>2
<1>1. ASSUME NEW o \in Ops, NEW g \in Precondition(o), Prepare(o, g) PROVE Goal
  <2>1. IndInv'
    BY <1>1, PrepareInv
  <2> QED
    BY <1>1, <1>b, <2>1 DEF Prepare
<1>2. ASSUME NEW o \in Ops, Resume(o) PROVE Goal
  <2>1. writer' \in [Ops -> Writer]
    BY <1>2, GotoType DEF IndInv, Resume, WriterPC
  <2> QED
    BY <1>b, <1>2, <2>1, IdleInv DEF Resume
<1>3. ASSUME NEW o \in Ops, NEW overwrite \in BOOLEAN, Look(o, overwrite) PROVE Goal
  <2>1. writer' \in [Ops -> Writer]
    <3> DEFINE w == writer[o]
    <3>1. /\ [w EXCEPT !.pc = "confirming", !.status = "already_exists"] \in Writer
          /\ [w EXCEPT !.pc = "reconciling"] \in Writer
          /\ [pc |-> "writing", expected |-> 0, status |-> "created"] \in Writer
          /\ [pc |-> "writing", expected |-> Gen, status |-> "replaced"] \in Writer
      <4>1. w \in Writer
        BY <1>0
      <4>2. [pc |-> "writing", expected |-> 0, status |-> "created"] \in Writer
            /\ [pc |-> "writing", expected |-> Gen, status |-> "replaced"] \in Writer
        BY <1>0 DEF Writer, WriterPC, Statuses
      <4>3. {"confirming", "reconciling"} \subseteq WriterPC /\ "already_exists" \in Statuses
        BY DEF WriterPC, Statuses
      <4> QED
        BY <4>1, <4>2, <4>3, WriterFields
    <3>2. PICK v \in Writer : writer' = [writer EXCEPT ![o] = v]
      BY <1>3, <3>1 DEF Look
    <3> QED
      BY <1>0, <3>2
  <2> QED
    BY <1>b, <1>3, <2>1, IdleInv DEF Look
<1>4. ASSUME NEW o \in Ops, LookSync(o) PROVE Goal
  <2>1. writer' \in [Ops -> Writer]
    BY <1>4 DEF IndInv, TypeOK, LookSync, Writer, WriterPC, Statuses
  <2> QED
    BY <1>b, <1>4, <2>1, IdleInv DEF LookSync
<1>5. ASSUME NEW o \in Ops, NEW heard \in BOOLEAN, Write(o, heard) PROVE Goal
  <2>1. IndInv'
    BY <1>5, WriteInv
  <2> QED
    BY <1>5, <1>b, <2>1 DEF Write
<1>6. ASSUME NEW o \in Ops, ConfirmRead(o) PROVE Goal
  <2>1. writer' \in [Ops -> Writer]
    BY <1>6, GotoType DEF IndInv, ConfirmRead, WriterPC
  <2> QED
    <3>1. CASE Raw = Content[o]
      <4>1. UNCHANGED <<stored, event, current, revision, announced>>
            /\ held' = [held EXCEPT ![o]["writer"] = [to |-> "commit", gen |-> Gen]]
        BY <1>6, <3>1 DEF ConfirmRead
      <4> QED
        BY <1>0, <1>d, <2>1, <3>1, <4>1
    <3>2. CASE Raw # Content[o]
      BY <1>b, <1>6, <2>1, <3>2, IdleInv DEF ConfirmRead
    <3> QED
      BY <3>1, <3>2
<1>7. ASSUME NEW o \in Ops, Leave(o) PROVE Goal
  <2>1. writer' \in [Ops -> Writer]
    BY <1>7, GotoType DEF IndInv, Leave, WriterPC
  <2> QED
    BY <1>0, <1>7, <2>1, <1>c DEF Leave
<1>8. ASSUME NEW o \in Ops, ReconcileQueued(o) PROVE Goal
  <2>1. Verdict(o) \in {"commit", "abort", "nothing"} /\ (Verdict(o) = "commit" => Raw = Content[o])
    BY DEF Verdict
  <2> QED
    <3>1. UNCHANGED <<stored, event, current, revision, announced, writer>>
          /\ held' = [held EXCEPT ![o]["queue"] = [to |-> Verdict(o), gen |-> Gen]]
          /\ Verdict(o) # "nothing"
      BY <1>8 DEF ReconcileQueued
    <3> QED
      BY <1>0, <2>1, <3>1, <1>d
<1>9. ASSUME NEW o \in Ops, ReconcileNow(o) PROVE Goal
  <2>1. Verdict(o) \in {"commit", "abort", "nothing"} /\ (Verdict(o) = "commit" => Raw = Content[o])
    BY DEF Verdict
  <2>2. writer' \in [Ops -> Writer]
    <3>1. CASE event[o].state = "prepared" /\ Verdict(o) # "nothing"
      BY <1>0, <1>9, <3>1 DEF ReconcileNow, Writer, WriterPC, Statuses
    <3>2. CASE ~(event[o].state = "prepared" /\ Verdict(o) # "nothing")
      BY <1>9, <3>2, GotoType DEF IndInv, ReconcileNow, AfterReconcile, WriterPC
    <3> QED
      BY <3>1, <3>2
  <2> QED
    <3>1. CASE event[o].state = "prepared" /\ Verdict(o) # "nothing"
      <4>1. UNCHANGED <<stored, event, current, revision, announced>>
            /\ held' = [held EXCEPT ![o]["writer"] = [to |-> Verdict(o), gen |-> Gen]]
        BY <1>9, <3>1 DEF ReconcileNow
      <4> QED
        BY <1>0, <2>1, <2>2, <3>1, <4>1, <1>d
    <3>2. CASE ~(event[o].state = "prepared" /\ Verdict(o) # "nothing")
      <4>1. UNCHANGED <<stored, event, current, revision, announced, held>>
        BY <1>9, <3>2 DEF ReconcileNow
      <4> QED
        BY <1>b, <2>2, <4>1, IdleInv
    <3> QED
      BY <3>1, <3>2
<1>10. ASSUME NEW o \in Ops, Answer(o) PROVE Goal
  <2>2. writer' \in [Ops -> Writer]
    <3>1. CASE Raw = Content[o]
      BY <1>0, <1>10, <3>1 DEF Answer, Writer, WriterPC, Statuses
    <3>2. CASE Raw # Content[o]
      BY <1>10, <3>2, GotoType DEF IndInv, Answer, WriterPC
    <3> QED
      BY <3>1, <3>2
  <2> QED
    <3>1. CASE event[o].state = "prepared" /\ Raw # Content[o] /\ <<Content[o], Raw>> \in Equivalent
      <4>1. UNCHANGED <<stored, event, current, revision, announced>>
            /\ held' = [held EXCEPT ![o]["writer"] = [to |-> "abort", gen |-> Gen]]
        BY <1>10, <3>1 DEF Answer
      <4> QED
        BY <1>0, <1>d, <2>2, <4>1
    <3>2. CASE ~(event[o].state = "prepared" /\ Raw # Content[o] /\ <<Content[o], Raw>> \in Equivalent)
      BY <1>b, <1>10, <2>2, <3>2, IdleInv DEF Answer
    <3> QED
      BY <3>1, <3>2
<1>11. ASSUME NEW o \in Ops, NEW by \in Confirmer, Settle(o, by) PROVE Goal
  BY <1>11, SettleInv
<1>12. ASSUME NEW o \in Ops, DispatcherCrash(o) PROVE Goal
  <2>1. writer' \in [Ops -> Writer]
    BY <1>0, <1>12 DEF DispatcherCrash
  <2> QED
    BY <1>0, <1>12, <2>1, <1>c DEF DispatcherCrash
<1>13. ASSUME NEW o \in Ops, StoreFails(o) PROVE Goal
  <2>1. writer' \in [Ops -> Writer]
    BY <1>13, GotoType DEF IndInv, StoreFails, AfterReconcile, WriterPC
  <2> QED
    BY <1>0, <1>13, <2>1, <1>c DEF StoreFails
<1>14. CASE UNCHANGED vars
  BY <1>0, <1>14 DEF vars, IndInv, TypeOK, Known, Had, Gen
<1> QED
  BY <1>0, <1>1, <1>2, <1>3, <1>4, <1>5, <1>6, <1>7, <1>8, <1>9, <1>10, <1>11, <1>12, <1>13,
     <1>14 DEF Next, Request

\* The variables keep their types.
THEOREM JournalTypes == Spec => []TypeOK
<1>1. IndInv => TypeOK
  BY DEF IndInv
<1> QED
  BY <1>1, InitInv, StepInv, PTL DEF Spec

\* Whatever the journal says of a generation is true of the object, although it
\* was read before the transaction that says it.
THEOREM JournalIsTrue == Spec => []NamesStoredContent
<1>1. IndInv => NamesStoredContent
  BY DEF IndInv, Known, Had, NamesStoredContent
<1> QED
  BY <1>1, InitInv, StepInv, PTL DEF Spec

\* Confirmations in any order never take the watermark back.
THEOREM NoStepBack == Spec => WatermarkAdvances
<1>1. IndInv /\ [Next]_vars => [current'.gen >= current.gen]_vars
  BY StepInv
<1> QED
  BY <1>1, InitInv, StepInv, PTL DEF Spec, WatermarkAdvances

-----------------------------------------------------------------------------
(* The journal implements the feed of changes.                             *)

Entry(o) == [state |-> event[o].state, gen |-> event[o].gen, revision |-> event[o].revision]

\* An operation's event changes, and no other.
LEMMA EntryMoves ==
    ASSUME event \in [Ops -> Event], NEW o \in Ops, NEW e \in Event, event' = [event EXCEPT ![o] = e]
    PROVE  [p \in Ops |-> Entry(p)]'
             = [[p \in Ops |-> Entry(p)] EXCEPT
                  ![o] = [state |-> e.state, gen |-> e.gen, revision |-> e.revision]]
BY DEF Entry

\* What a confirmer has read lets its transaction announce the content, or note
\* that it is no news.
LEMMA CommitFeeds ==
    ASSUME IndInv, NEW o \in Ops, NEW g, Had(g, Content[o]), NEW status \in Statuses,
           Commit(o, g, status),
           UNCHANGED stored
    PROVE  [Feed!FeedNext]_(Feed!feedVars)
<1>0. /\ g \in DOMAIN stored /\ stored[g] = Content[o] /\ g \in Nat
      /\ event \in [Ops -> Event] /\ event[o] \in Event /\ revision \in Nat
  BY GenIsNat DEF IndInv, TypeOK, Had, Gen, Event
<1>1. CASE event[o].state # "prepared"
  BY <1>1 DEF Commit, Feed!feedVars
<1>2. CASE event[o].state = "prepared"
  <2> DEFINE e == [event[o] EXCEPT !.state = "committed", !.gen = g, !.revision = revision',
                              !.status = status]
  <2>1. revision' \in Nat
    BY <1>0, <1>2 DEF Commit
  <2>2. e \in Event /\ e.state = "committed" /\ e.gen = g /\ e.revision = revision'
    BY <1>0, <2>1 DEF Event, Settled
  <2>3. event' = [event EXCEPT ![o] = e]
    BY <1>2 DEF Commit
  <2> HIDE DEF e
  <2>4. Feed!Closes(o, g)
    BY <1>0, <1>2, <2>2, <2>3, EntryMoves DEF Feed!Closes, Entry
  <2>5. CASE Changed(o, g, status)
    <3>1. Feed!Announce(o, g)
      BY <1>2, <2>4, <2>5 DEF Feed!Announce, Commit, Changed, Latest
    <3> QED BY <1>0, <3>1 DEF Feed!FeedNext
  <2>6. CASE ~Changed(o, g, status)
    <3>1. Feed!Note(o, g)
      BY <1>2, <2>4, <2>6 DEF Feed!Note, Commit
    <3> QED BY <1>0, <3>1 DEF Feed!FeedNext
  <2> QED BY <2>5, <2>6
<1> QED BY <1>1, <1>2

LEMMA AbortFeeds ==
    ASSUME IndInv, NEW o \in Ops, Abort(o), UNCHANGED <<stored, current, revision>>
    PROVE  [Feed!FeedNext]_(Feed!feedVars)
<1>0. event \in [Ops -> Event] /\ event[o] \in Event
  BY DEF IndInv, TypeOK, Event
<1>1. CASE event[o].state # "prepared"
  BY <1>1 DEF Abort, Feed!feedVars
<1>2. CASE event[o].state = "prepared"
  <2> DEFINE e == [event[o] EXCEPT !.state = "aborted"]
  <2>1. /\ e \in Event /\ e.state = "aborted"
        /\ e.gen = event[o].gen /\ e.revision = event[o].revision
    BY <1>0 DEF Event, Settled
  <2>2. event' = [event EXCEPT ![o] = e]
    BY <1>2 DEF Abort
  <2> HIDE DEF e
  <2>3. Feed!GiveUp(o)
    BY <1>0, <1>2, <2>1, <2>2, EntryMoves DEF Feed!GiveUp, Entry
  <2> QED BY <2>3 DEF Feed!FeedNext
<1> QED BY <1>1, <1>2

LEMMA PrepareFeeds ==
    ASSUME IndInv, NEW o \in Ops, NEW n \in Precondition(o), Prepare(o, n)
    PROVE  Feed!FeedNext
<1> DEFINE e == [event[o] EXCEPT !.state = "prepared", !.expected = n]
<1>0. event \in [Ops -> Event] /\ event[o] \in Event /\ n \in Nat
  BY GenIsNat DEF IndInv, TypeOK, Event, Precondition
<1>1. /\ e \in Event /\ e.state = "prepared"
      /\ e.gen = event[o].gen /\ e.revision = event[o].revision
  BY <1>0 DEF Event
<1>2. /\ event[o].state = "none" /\ event' = [event EXCEPT ![o] = e]
      /\ UNCHANGED <<stored, current, revision>>
  BY DEF Prepare
<1> HIDE DEF e
<1>3. Feed!Record(o)
  BY <1>0, <1>1, <1>2, EntryMoves DEF Feed!Record, Entry
<1> QED BY <1>3 DEF Feed!FeedNext

\* Operations, the queue and crashes implement the feed of changes that the
\* pipeline's automation is built on (sourceautomation/journal.go).
THEOREM JournalImplementsFeed == Spec => ImplementsFeed
<1>1. Init => Feed!FeedInit
  BY DEF Init, Feed!FeedInit
<1>2. IndInv /\ [Next]_vars => [Feed!FeedNext]_(Feed!feedVars)
  <2> SUFFICES ASSUME IndInv, [Next]_vars PROVE [Feed!FeedNext]_(Feed!feedVars)
    OBVIOUS
  <2>1. ASSUME UNCHANGED <<stored, event, current, revision>>
        PROVE  UNCHANGED Feed!feedVars
    BY <2>1 DEF Feed!feedVars
  <2>2. CASE UNCHANGED vars
    BY <2>1, <2>2 DEF vars
  <2>3. ASSUME NEW o \in Ops, NEW by \in Confirmer, Settle(o, by)
        PROVE  [Feed!FeedNext]_(Feed!feedVars)
    <3>1. CASE held[o][by].to = "commit"
      <4>1. Had(held[o][by].gen, Content[o])
        BY <3>1 DEF IndInv, Known
      <4>2. StatusBy(o, by) \in Statuses
        BY StatusType DEF IndInv
      <4> QED BY <2>3, <3>1, <4>1, <4>2, CommitFeeds DEF Settle
    <3>2. CASE held[o][by].to # "commit"
      BY <2>3, <3>2, AbortFeeds DEF Settle
    <3> QED BY <3>1, <3>2
  <2>4. ASSUME NEW o \in Ops, NEW heard \in BOOLEAN, Write(o, heard)
        PROVE  [Feed!FeedNext]_(Feed!feedVars)
    <3>1. UNCHANGED <<event, current, revision>>
          /\ (stored' = stored \/ stored' = Append(stored, Content[o]))
      BY <2>4 DEF Write
    <3>2. CASE stored' = stored
      BY <2>1, <3>1, <3>2
    <3>3. CASE stored' = Append(stored, Content[o])
      <4>1. Feed!Store(Content[o]) /\ Content[o] \in Contents
        BY <3>1, <3>3 DEF Feed!Store
      <4> QED BY <4>1 DEF Feed!FeedNext
    <3> QED BY <3>1, <3>2, <3>3
  <2>5. ASSUME NEW o \in Ops,
               \/ Resume(o) \/ Leave(o) \/ ReconcileQueued(o) \/ DispatcherCrash(o)
               \/ \E overwrite \in BOOLEAN : Look(o, overwrite)
               \/ LookSync(o) \/ ConfirmRead(o) \/ ReconcileNow(o) \/ Answer(o)
               \/ StoreFails(o)
        PROVE  UNCHANGED Feed!feedVars
    BY <2>1, <2>5 DEF Resume, Leave, ReconcileQueued, DispatcherCrash, Look, LookSync,
                      ConfirmRead, ReconcileNow, Answer, StoreFails
  <2> QED BY <2>2, <2>3, <2>4, <2>5, PrepareFeeds DEF Next, Request, Confirmer
<1> QED BY <1>1, <1>2, InitInv, StepInv, PTL DEF Spec, ImplementsFeed, Feed!FeedSpec
-----------------------------------------------------------------------------
(* Every change is queued, if each operation writes a content of its own.  *)

Distinct == \A o, p \in Ops : Content[o] = Content[p] => o = p

Before == {"idle", "prepared", "writing"}

\* The operation writes no more: it has written or given up, or its client knows
\* an older generation.
Over(o) ==
    \/ writer[o].pc \notin Before
    \/ o \in SyncOps /\ event[o].state # "none" /\ event[o].expected < Gen

\* An operation that is not re-run writes once at most, and before that its
\* content is nowhere; so it is only given up when it cannot be what is stored.
Progress(o) ==
    /\ writer[o].pc \in Before => \A g \in 1 .. Gen : stored[g] # Content[o]
    /\ \A g, h \in 1 .. Gen : stored[g] = Content[o] /\ stored[h] = Content[o] => g = h
    /\ event[o].state = "none" <=> writer[o].pc = "idle"
    /\ o \in SyncOps => /\ event[o].expected <= Gen
                        /\ writer[o].pc = "writing" => writer[o].expected = event[o].expected
    /\ event[o].state = "aborted" \/ (\E by \in Confirmer : held[o][by].to = "abort") =>
         Over(o) /\ Raw # Content[o]
    /\ writer[o].status = "already_exists" \/ writer[o].pc = "answering" =>
         o \in McpOps /\ writer[o].pc \notin Before

Queued(o) ==
    Raw = Content[o] =>
      \/ event[o].state = "prepared" \/ TookOwnForOld(o)
      \/ announced # 0 /\ stored[announced] = Raw

QueueInv ==
    /\ \A g \in 1 .. Gen : \E o \in Ops : stored[g] = Content[o]
    /\ current.gen <= announced
    /\ \A o \in Ops \ Resumable : Progress(o) /\ Queued(o)

LEMMA InitQueue == Init => QueueInv
BY DEF Init, QueueInv, Progress, Queued, Before, Over, Confirmer, Nothing, Gen, Raw

\* Raw is the last generation's content.
LEMMA RawIs ==
    ASSUME IndInv
    PROVE  /\ Gen \in Nat /\ announced \in 0 .. Gen /\ current.gen \in Nat
           /\ Gen # 0 => Raw = stored[Gen]
           /\ \A o \in Ops : Raw = Content[o] => Gen # 0
           /\ \A o \in Ops : event[o].expected \in Nat /\ event[o].gen \in Nat
BY DEF IndInv, TypeOK, Gen, Raw

\* What others do leaves an operation's progress alone.
LEMMA OthersProgress ==
    ASSUME IndInv, NEW o \in Ops, Progress(o),
           event'[o] = event[o], writer'[o] = writer[o], held'[o] = held[o],
           \/ stored' = stored
           \/ \E c \in Contents : c # Content[o] /\ stored' = Append(stored, c)
    PROVE  Progress(o)'
<1>1. CASE stored' = stored
  BY <1>1 DEF Progress, Over, Gen, Raw
<1>2. ASSUME NEW c \in Contents, c # Content[o], stored' = Append(stored, c)
      PROVE  Progress(o)'
  <2>1. Gen' = Gen + 1 /\ Gen \in Nat /\ Raw' = c
    BY <1>2, AppendKeeps, RawIs DEF IndInv, TypeOK, Gen, Raw
  <2>2. stored'[Gen'] = c /\ \A g \in 1 .. Gen : stored'[g] = stored[g]
    BY <1>2, <2>1 DEF IndInv, TypeOK, Gen
  <2>3. /\ event[o].expected \in Nat
        /\ Over(o) => Over(o)'
    BY <2>1, RawIs DEF Over
  <2>4. \A g \in 1 .. Gen' : stored'[g] = Content[o] => g \in 1 .. Gen /\ stored[g] = Content[o]
    <3>1. \A g \in 1 .. Gen' : g \in 1 .. Gen \/ g = Gen'
      BY <2>1
    <3> QED
      BY <1>2, <2>2, <3>1
  <2>5. (writer[o].pc \in Before => \A g \in 1 .. Gen : stored[g] # Content[o])'
    BY <2>4 DEF Progress
  <2>6. (\A g, h \in 1 .. Gen : stored[g] = Content[o] /\ stored[h] = Content[o] => g = h)'
    BY <2>4 DEF Progress
  <2>7. (o \in SyncOps => /\ event[o].expected <= Gen
                          /\ writer[o].pc = "writing" => writer[o].expected = event[o].expected)'
    BY <2>1, <2>3 DEF Progress
  <2> QED
    BY <1>2, <2>1, <2>3, <2>5, <2>6, <2>7 DEF Progress, Before
<1> QED
  BY <1>1, <1>2

\* The verdict follows from what is stored.
LEMMA VerdictIs ==
    ASSUME IndInv, NEW o \in Ops \ Resumable, Progress(o), event[o].state = "prepared"
    PROVE  /\ Verdict(o) = "commit" <=> Raw = Content[o]
           /\ Verdict(o) = "abort" => Over(o) /\ Raw # Content[o]
           /\ Verdict(o) \in {"commit", "abort", "nothing"}
<1>1. /\ Verdict(o) \in {"commit", "abort", "nothing"}
      /\ Verdict(o) = "commit" <=> Raw = Content[o]
      /\ Verdict(o) = "abort" => Superseded(o) \/ GraceOver(o)
  BY DEF Verdict
<1>2. Superseded(o) => Over(o)
  BY RawIs DEF Superseded, Over, Progress
<1>3. GraceOver(o) => Over(o)
  BY DEF GraceOver, Over, Before
<1> QED
  BY <1>1, <1>2, <1>3

\* Before it writes, an operation finds nothing of its own.
LEMMA BeforeWriting ==
    ASSUME IndInv, NEW o \in Ops, Progress(o), writer[o].pc \in Before
    PROVE  Raw # Content[o] /\ event[o].state # "committed"
<1>1. event[o].state # "committed"
  BY DEF IndInv, Known, Had, Progress
<1>2. ASSUME Raw = Content[o] PROVE FALSE
  BY <1>2, RawIs DEF Progress
<1> QED
  BY <1>1, <1>2

\* A step of the operation itself that writes nothing.
LEMMA OwnProgress ==
    ASSUME IndInv, NEW o \in Ops \ Resumable, Progress(o), UNCHANGED stored,
           writer'[o].pc \in Before => writer[o].pc \in Before,
           event'[o].state = "none" <=> writer'[o].pc = "idle",
           o \in SyncOps => event'[o].expected <= Gen,
           o \in SyncOps /\ writer'[o].pc = "writing" => writer'[o].expected = event'[o].expected,
           Over(o) => Over(o)',
           event'[o].state = "aborted" =>
             event[o].state = "aborted" \/ \E by \in Confirmer : held[o][by].to = "abort",
           \A by \in Confirmer : held'[o][by].to = "abort" =>
             held[o][by].to = "abort" \/ (Over(o)' /\ Raw # Content[o]),
           writer'[o].status = "already_exists" \/ writer'[o].pc = "answering" =>
             o \in McpOps /\ writer'[o].pc \notin Before
    PROVE  Progress(o)'
<1>1. Raw' = Raw /\ Gen' = Gen
  BY DEF Raw, Gen
<1>2. (event[o].state = "aborted" \/ (\E by \in Confirmer : held[o][by].to = "abort") =>
         Over(o) /\ Raw # Content[o])'
  BY <1>1 DEF Progress
<1>3. (writer[o].pc \in Before => \A g \in 1 .. Gen : stored[g] # Content[o])'
  BY <1>1 DEF Progress, Before
<1>4. (\A g, h \in 1 .. Gen : stored[g] = Content[o] /\ stored[h] = Content[o] => g = h)'
  BY <1>1 DEF Progress
<1>5. (o \in SyncOps => /\ event[o].expected <= Gen
                        /\ writer[o].pc = "writing" => writer[o].expected = event[o].expected)'
  BY <1>1
<1>6. (writer[o].status = "already_exists" \/ writer[o].pc = "answering" =>
         o \in McpOps /\ writer[o].pc \notin Before)'
  BY <1>1 DEF Before
<1> QED
  BY <1>2, <1>3, <1>4, <1>5, <1>6 DEF Progress

\* The commit of what was read of an operation's own write announces it, or it
\* has been announced before.
LEMMA SettleQueued ==
    ASSUME IndInv, QueueInv, NEW o \in Ops \ Resumable, NEW by \in Confirmer, Settle(o, by)
    PROVE  Queued(o)' /\ Progress(o)'
<1>1. /\ UNCHANGED stored /\ Raw' = Raw /\ Gen' = Gen
      /\ Progress(o) /\ Queued(o) /\ o \in Ops
  BY DEF Settle, Raw, Gen, QueueInv
<1>2. \A c \in Confirmer : held'[o][c] \in {held[o][c], Nothing}
  BY DEF IndInv, TypeOK, Settle
<1>3. \/ writer'[o] = writer[o]
      \/ writer'[o].pc = "gone" /\ writer'[o].status = "created"
      \/ /\ writer'[o].pc = "answering" /\ o \in McpOps
         /\ writer'[o].status = writer[o].status
  BY DEF IndInv, TypeOK, Settle, Goto, Gone, AfterReconcile
<1>4. /\ event'[o].expected = event[o].expected
      /\ event'[o].state \in {event[o].state, "committed", "aborted"}
      /\ event'[o].state # event[o].state => event[o].state = "prepared"
      /\ event'[o].state = "aborted" => event[o].state = "aborted" \/ held[o][by].to = "abort"
  <2>1. event \in [Ops -> Event] /\ event[o] \in Event
    BY DEF IndInv, TypeOK, Event
  <2>2. \/ event' = event
        \/ /\ event[o].state = "prepared"
           /\ \/ event' = [event EXCEPT ![o] = [@ EXCEPT !.state = "committed",
                                !.gen = held[o][by].gen, !.revision = revision',
                                !.status = StatusBy(o, by)]]
              \/ held[o][by].to = "abort" /\ event' = [event EXCEPT ![o].state = "aborted"]
    <3>1. held[o][by].to \in {"commit", "abort"}
      BY DEF IndInv, TypeOK, Settle
    <3> QED
      BY <3>1 DEF Settle, Commit, Abort
  <2>3. CASE event' = event
    BY <2>3
  <2>4. CASE event' = [event EXCEPT ![o] = [@ EXCEPT !.state = "committed",
                            !.gen = held[o][by].gen, !.revision = revision',
                            !.status = StatusBy(o, by)]]
             /\ event[o].state = "prepared"
    BY <2>1, <2>4 DEF Event
  <2>5. CASE event' = [event EXCEPT ![o].state = "aborted"] /\ held[o][by].to = "abort"
             /\ event[o].state = "prepared"
    BY <2>1, <2>5 DEF Event
  <2> QED
    BY <2>2, <2>3, <2>4, <2>5
<1>5. Progress(o)'
  <2>1. /\ event[o].state = "none" <=> writer[o].pc = "idle"
        /\ held[o][by].to = "abort" => Over(o) /\ Raw # Content[o]
        /\ o \in SyncOps => event[o].expected <= Gen
        /\ o \in SyncOps /\ writer[o].pc = "writing" => writer[o].expected = event[o].expected
        /\ writer[o].status = "already_exists" \/ writer[o].pc = "answering" =>
             o \in McpOps /\ writer[o].pc \notin Before
    BY <1>1 DEF Progress
  <2>2. writer[o].pc # "idle"
    <3>1. held[o][by].to \in {"commit", "abort"}
      BY DEF IndInv, TypeOK, Settle
    <3>2. ASSUME held[o][by].to = "commit" PROVE writer[o].pc \notin Before
      BY <1>1, <3>2 DEF IndInv, Known, Had, Progress
    <3> QED
      BY <2>1, <3>1, <3>2 DEF Over, Before
  <2>3. Over(o) => Over(o)'
    BY <1>1, <1>3, <1>4 DEF Over, Before
  <2>4. /\ writer'[o].pc \in Before => writer[o].pc \in Before
        /\ event'[o].state = "none" <=> writer'[o].pc = "idle"
    BY <1>3, <1>4, <2>1, <2>2 DEF Before
  <2>5. event'[o].state = "aborted" =>
             event[o].state = "aborted" \/ \E c \in Confirmer : held[o][c].to = "abort"
    BY <1>4
  <2>6. \A c \in Confirmer : held'[o][c].to = "abort" => held[o][c].to = "abort"
    BY <1>2 DEF Nothing
  <2>7. writer'[o].status = "already_exists" \/ writer'[o].pc = "answering" =>
             o \in McpOps /\ writer'[o].pc \notin Before
    BY <1>3, <1>4, <2>1 DEF Before
  <2>8. /\ o \in SyncOps => event'[o].expected <= Gen
        /\ o \in SyncOps /\ writer'[o].pc = "writing" => writer'[o].expected = event'[o].expected
    BY <1>3, <1>4, <2>1
  <2> QED
    BY <1>1, <2>3, <2>4, <2>5, <2>6, <2>7, <2>8, OwnProgress
<1>6. ASSUME Raw = Content[o], event[o].state = "prepared"
      PROVE  announced' = Gen \/ TookOwnForOld(o)'
  <2>1. /\ held[o][by].to = "commit" /\ Had(held[o][by].gen, Content[o])
    BY <1>1, <1>6 DEF IndInv, TypeOK, Known, Settle, Progress
  <2>2. Gen # 0 /\ Gen \in Nat /\ stored[Gen] = Content[o] /\ announced \in 0 .. Gen
        /\ current.gen \in Nat /\ current.gen <= announced
    BY <1>6, RawIs DEF QueueInv
  <2>3. \A g : Had(g, Content[o]) => g = Gen
    BY <1>1, <2>2 DEF Had, Progress
  <2>4. held[o][by].gen = Gen
    BY <2>1, <2>3
  <2>5. Commit(o, Gen, StatusBy(o, by))
    BY <2>1, <2>4 DEF Settle
  <2>6. CASE StatusBy(o, by) = "already_exists"
    <3>1. o \in McpOps
      BY <1>1, <2>6 DEF StatusBy, Progress
    <3>2. event'[o].status = "already_exists"
      <4>1. event \in [Ops -> Event] /\ event[o] \in Event
        BY <1>1 DEF IndInv, TypeOK, Event
      <4>2. event' = [event EXCEPT ![o] = [@ EXCEPT !.state = "committed", !.gen = Gen,
                        !.revision = revision', !.status = "already_exists"]]
        BY <1>6, <2>6, <2>5 DEF Commit
      <4> QED
        BY <1>1, <4>1, <4>2 DEF Event
    <3> QED
      BY <3>1, <3>2 DEF TookOwnForOld
  <2>7. CASE Changed(o, Gen, StatusBy(o, by))
    BY <1>6, <2>5, <2>7 DEF Commit
  <2>8. CASE ~Changed(o, Gen, StatusBy(o, by)) /\ StatusBy(o, by) # "already_exists"
    <3>1. current.gen # 0 /\ current.content = Content[o]
      BY <2>2, <2>8 DEF Changed, Latest
    <3>2. current.gen = Gen
      BY <2>3, <3>1 DEF IndInv
    <3>3. announced' = announced
      BY <1>6, <2>5, <2>8 DEF Commit
    <3> QED
      BY <2>2, <3>2, <3>3
  <2> QED
    BY <2>6, <2>7, <2>8
<1>7. announced' \in {announced, Gen}
  BY DEF Settle, Commit
<1>8. Queued(o)'
  <2> SUFFICES ASSUME Raw = Content[o], event'[o].state # "prepared", ~TookOwnForOld(o)'
               PROVE  announced' # 0 /\ stored[announced'] = Raw
    BY <1>1 DEF Queued
  <2>1. Gen # 0 /\ stored[Gen] = Raw
    BY RawIs
  <2>2. event[o].state # "prepared" => event'[o] = event[o]
    BY DEF Settle, Commit, Abort
  <2>3. \/ announced' = Gen
        \/ announced' = announced /\ event[o].state # "prepared" /\ ~TookOwnForOld(o)
    BY <1>6, <1>7, <2>2 DEF TookOwnForOld
  <2> QED
    BY <1>1, <2>1, <2>3 DEF Queued
<1> QED
  BY <1>5, <1>8

\* What settles nothing leaves the queue of changes alone.
LEMMA StillQueued ==
    ASSUME NEW o \in Ops, Queued(o), UNCHANGED <<stored, announced>>,
           event'[o] = event[o] \/ event'[o].state = "prepared"
    PROVE  Queued(o)'
BY DEF Queued, TookOwnForOld, Raw, Gen

\* The operation's own control steps.
LEMMA MovesProgress ==
    ASSUME IndInv, NEW o \in Ops \ Resumable, Progress(o),
           \/ \E g \in Precondition(o) : Prepare(o, g)
           \/ \E overwrite \in BOOLEAN : Look(o, overwrite)
           \/ LookSync(o)
    PROVE  Progress(o)'
<1>0. /\ writer \in [Ops -> Writer] /\ writer[o] \in Writer /\ event \in [Ops -> Event] /\ event[o] \in Event
      /\ Gen \in Nat /\ o \in Ops
  BY RawIs DEF IndInv, TypeOK, Writer, Event
<1>1. ASSUME NEW g \in Precondition(o), Prepare(o, g) PROVE Progress(o)'
  <2>1. /\ writer[o].pc = "idle" /\ writer[o].status # "already_exists" /\ ~Over(o)
    BY <1>1 DEF Prepare, Progress, Over, Before
  <2>2. writer'[o].pc = "prepared" /\ writer'[o].status = writer[o].status
    BY <1>0, <1>1 DEF Prepare, Goto, Writer
  <2>3. event'[o].state = "prepared" /\ event'[o].expected = g /\ g <= Gen
    <3> DEFINE e == [event[o] EXCEPT !.state = "prepared", !.expected = g]
    <3>1. event' = [event EXCEPT ![o] = e]
      BY <1>1 DEF Prepare
    <3>2. e.state = "prepared" /\ e.expected = g
      BY <1>0 DEF Event
    <3>3. g <= Gen
      BY <1>0 DEF Precondition
    <3>4. event'[o] = e
      <4> HIDE DEF e
      <4> QED
        BY <1>0, <3>1
    <3> QED
      BY <3>2, <3>3, <3>4
  <2>4. UNCHANGED <<stored, held>>
    BY <1>1 DEF Prepare
  <2> QED
    BY <2>1, <2>2, <2>3, <2>4, OwnProgress DEF Before
<1>2. ASSUME NEW overwrite \in BOOLEAN, Look(o, overwrite) PROVE Progress(o)'
  <2>1. /\ writer[o].pc = "prepared" /\ o \notin SyncOps /\ UNCHANGED <<stored, event, held>>
    BY <1>2 DEF Look
  <2>2. Raw # Content[o] /\ ~Over(o) /\ writer[o].status # "already_exists" /\ event[o].state # "none"
    BY <2>1, BeforeWriting DEF Over, Before, Progress
  <2>3. \/ writer'[o] = [pc |-> "writing", expected |-> 0, status |-> "created"]
        \/ writer'[o] = [writer[o] EXCEPT !.pc = "reconciling"]
        \/ writer'[o] = [pc |-> "writing", expected |-> Gen, status |-> "replaced"]
    BY <1>0, <1>2, <2>2 DEF Look
  <2>4. writer'[o].pc \in {"writing", "reconciling"} /\ writer'[o].status # "already_exists"
    BY <1>0, <2>2, <2>3 DEF Writer
  <2> QED
    BY <2>1, <2>2, <2>4, OwnProgress DEF Before
<1>3. CASE LookSync(o)
  <2>1. /\ writer[o].pc = "prepared" /\ o \in SyncOps /\ UNCHANGED <<stored, event, held>>
        /\ writer'[o] = [pc |-> "writing", expected |-> event[o].expected, status |-> "created"]
    BY <1>0, <1>3 DEF LookSync
  <2>2. event[o].state # "none" /\ event[o].expected <= Gen
    BY <2>1 DEF Progress
  <2>3. Over(o) => Over(o)'
    BY <2>1 DEF Over, Before, Gen
  <2> QED
    BY <2>1, <2>2, <2>3, OwnProgress DEF Before
<1> QED
  BY <1>1, <1>2, <1>3

\* Reading the object, and giving up.
LEMMA ReadsProgress ==
    ASSUME IndInv, NEW o \in Ops \ Resumable, Progress(o),
           ConfirmRead(o) \/ Leave(o) \/ ReconcileQueued(o) \/ ReconcileNow(o)
           \/ StoreFails(o) \/ Answer(o) \/ DispatcherCrash(o)
    PROVE  Progress(o)'
<1>0. /\ writer \in [Ops -> Writer] /\ writer[o] \in Writer
      /\ held \in [Ops -> [Confirmer -> Held]] /\ held[o] \in [Confirmer -> Held]
      /\ Gen \in Nat /\ o \in Ops /\ Confirmer = {"writer", "queue"}
  BY RawIs DEF IndInv, TypeOK, Writer, Held, Confirmer
<1>1. UNCHANGED <<stored, event>>
  BY DEF ConfirmRead, Leave, ReconcileQueued, ReconcileNow, StoreFails, Answer, DispatcherCrash
<1>2. /\ event[o].state = "none" <=> writer[o].pc = "idle"
      /\ o \in SyncOps => event[o].expected <= Gen
      /\ o \in SyncOps /\ writer[o].pc = "writing" => writer[o].expected = event[o].expected
      /\ writer[o].status = "already_exists" \/ writer[o].pc = "answering" =>
           o \in McpOps /\ writer[o].pc \notin Before
  BY DEF Progress
<1>3. ASSUME \/ writer'[o].pc \notin Before /\ writer[o].pc # "idle"
             \/ writer'[o] = writer[o],
             \A by \in Confirmer : held'[o][by].to = "abort" =>
               held[o][by].to = "abort" \/ (Over(o)' /\ Raw # Content[o]),
             writer'[o].status = "already_exists" \/ writer'[o].pc = "answering" =>
               o \in McpOps /\ writer'[o].pc \notin Before
      PROVE  Progress(o)'
  <2>1. Over(o) => Over(o)'
    BY <1>1, <1>3 DEF Over, Gen
  <2>2. event[o].state = "none" <=> writer'[o].pc = "idle"
    BY <1>2, <1>3 DEF Before
  <2>3. writer'[o].pc \in Before => writer[o].pc \in Before
    BY <1>3
  <2>4. o \in SyncOps /\ writer'[o].pc = "writing" => writer'[o].expected = event[o].expected
    BY <1>2, <1>3 DEF Before
  <2> QED
    BY <1>1, <1>2, <1>3, <2>1, <2>2, <2>3, <2>4, OwnProgress
<1>4. ASSUME NEW by \in Confirmer, NEW h \in Held, held' = [held EXCEPT ![o][by] = h]
      PROVE  \A c \in Confirmer : held'[o][c] = IF c = by THEN h ELSE held[o][c]
  BY <1>0, <1>4
<1>5. ASSUME NEW pc \in WriterPC, Goto(o, pc)
      PROVE  writer'[o].pc = pc /\ writer'[o].status \in {writer[o].status, "created"}
  BY <1>0, <1>5 DEF Goto, Gone, Writer
<1>6. CASE ConfirmRead(o)
  <2>1. /\ writer[o].pc = "confirming"
        /\ writer'[o].pc \in {"settling", "rechecking"}
        /\ writer'[o].status \in {writer[o].status, "created"}
    BY <1>5, <1>6 DEF ConfirmRead, WriterPC
  <2>2. \A by \in Confirmer : held'[o][by].to = "abort" => held[o][by].to = "abort"
    <3>1. [to |-> "commit", gen |-> Gen] \in Held
      BY <1>0 DEF Held
    <3> QED
      BY <1>0, <1>4, <1>6, <3>1 DEF ConfirmRead
  <2> QED
    BY <1>2, <1>3, <2>1, <2>2 DEF Before
<1>7. CASE Leave(o)
  <2>1. /\ writer[o].pc # "idle"
        /\ writer'[o].pc = "gone" /\ writer'[o].status \in {writer[o].status, "created"}
    BY <1>5, <1>7 DEF Leave, WriterPC
  <2>2. \A by \in Confirmer : held'[o][by].to = "abort" => held[o][by].to = "abort"
    <3>1. Nothing \in Held /\ Nothing.to = "nothing"
      BY DEF Held, Nothing
    <3> QED
      BY <1>0, <1>4, <1>7, <3>1 DEF Leave
  <2> QED
    BY <1>2, <1>3, <2>1, <2>2 DEF Before
<1>8. CASE ReconcileQueued(o)
  <2>1. event[o].state = "prepared" /\ UNCHANGED writer
    BY <1>8 DEF ReconcileQueued
  <2>2. /\ Verdict(o) \in {"commit", "abort", "nothing"}
        /\ Verdict(o) = "abort" => Over(o) /\ Raw # Content[o]
    BY <2>1, VerdictIs
  <2>3. Over(o) => Over(o)'
    BY <1>1, <2>1 DEF Over, Gen
  <2>4. \A by \in Confirmer : held'[o][by].to = "abort" =>
               held[o][by].to = "abort" \/ (Over(o)' /\ Raw # Content[o])
    <3>1. [to |-> Verdict(o), gen |-> Gen] \in Held
      BY <1>0, <2>2 DEF Held
    <3> QED
      BY <1>0, <1>4, <1>8, <2>2, <2>3, <3>1 DEF ReconcileQueued
  <2> QED
    BY <1>2, <1>3, <2>1, <2>4
<1>9. CASE ReconcileNow(o)
  <2>1. writer[o].pc \in {"reconciling", "rechecking"}
    BY <1>9 DEF ReconcileNow
  <2>2. CASE event[o].state = "prepared" /\ Verdict(o) # "nothing"
    <3>1. /\ Verdict(o) \in {"commit", "abort", "nothing"}
          /\ Verdict(o) = "abort" => Raw # Content[o]
      BY <2>2, VerdictIs
    <3>2. writer'[o].pc \in {"resolving", "closing"} /\ writer'[o].status = "created"
      BY <1>0, <1>9, <2>2 DEF ReconcileNow, Writer
    <3>3. [to |-> Verdict(o), gen |-> Gen] \in Held
      BY <1>0, <3>1 DEF Held
    <3>4. held' = [held EXCEPT ![o]["writer"] = [to |-> Verdict(o), gen |-> Gen]]
      BY <1>9, <2>2 DEF ReconcileNow
    <3>5. Over(o)'
      BY <3>2 DEF Over, Before
    <3>6. \A by \in Confirmer : held'[o][by].to = "abort" =>
               held[o][by].to = "abort" \/ (Over(o)' /\ Raw # Content[o])
      BY <1>0, <1>4, <3>1, <3>3, <3>4, <3>5
    <3> QED
      BY <1>3, <2>1, <3>2, <3>6 DEF Before
  <2>3. CASE ~(event[o].state = "prepared" /\ Verdict(o) # "nothing")
    <3>1. /\ UNCHANGED held
          /\ \/ writer'[o].pc = "answering" /\ o \in McpOps
             \/ writer'[o].pc = "gone"
          /\ writer'[o].status \in {writer[o].status, "created"}
      BY <1>5, <1>9, <2>3 DEF ReconcileNow, AfterReconcile, WriterPC
    <3> QED
      BY <1>2, <1>3, <2>1, <3>1 DEF Before
  <2> QED
    BY <2>2, <2>3
<1>10. CASE Answer(o)
  <2>1. writer[o].pc = "answering"
    BY <1>10 DEF Answer
  <2>2. CASE Raw = Content[o]
    <3>1. /\ UNCHANGED held /\ writer'[o].pc = "confirming"
      BY <1>0, <1>10, <2>2 DEF Answer, Writer
    <3> QED
      BY <1>2, <1>3, <2>1, <3>1 DEF Before
  <2>3. CASE Raw # Content[o] /\ event[o].state = "prepared" /\ <<Content[o], Raw>> \in Equivalent
    <3>1. /\ writer'[o].pc = "closing" /\ writer'[o].status \in {writer[o].status, "created"}
          /\ held' = [held EXCEPT ![o]["writer"] = [to |-> "abort", gen |-> Gen]]
      BY <1>5, <1>10, <2>3 DEF Answer, WriterPC
    <3>2. Over(o)'
      BY <3>1 DEF Over, Before
    <3> QED
      BY <1>2, <1>3, <2>1, <2>3, <3>1, <3>2 DEF Before
  <2>4. CASE Raw # Content[o] /\ ~(event[o].state = "prepared" /\ <<Content[o], Raw>> \in Equivalent)
    <3>1. /\ writer'[o].pc = "gone" /\ UNCHANGED held
          /\ writer'[o].status \in {writer[o].status, "created"}
      BY <1>5, <1>10, <2>4 DEF Answer, WriterPC
    <3> QED
      BY <1>2, <1>3, <2>1, <2>4, <3>1 DEF Before
  <2> QED
    BY <2>2, <2>3, <2>4
<1>11. CASE DispatcherCrash(o)
  <2>1. UNCHANGED writer /\ \A by \in Confirmer : held'[o][by].to = "abort" => held[o][by].to = "abort"
    <3>1. Nothing \in Held /\ Nothing.to = "nothing"
      BY DEF Held, Nothing
    <3> QED
      BY <1>0, <1>4, <1>11, <3>1 DEF DispatcherCrash
  <2> QED
    BY <1>2, <1>3, <2>1
<1>12. CASE StoreFails(o)
  <2>1. /\ writer[o].pc \in {"confirming", "settling", "reconciling", "resolving"}
        /\ \/ writer'[o].pc \in {"rechecking", "gone"}
           \/ writer'[o].pc = "answering" /\ o \in McpOps
        /\ writer'[o].status \in {writer[o].status, "created"}
    BY <1>5, <1>12 DEF StoreFails, AfterReconcile, WriterPC
  <2>2. \A by \in Confirmer : held'[o][by].to = "abort" => held[o][by].to = "abort"
    <3>1. Nothing \in Held /\ Nothing.to = "nothing"
      BY DEF Held, Nothing
    <3> QED
      BY <1>0, <1>4, <1>12, <3>1 DEF StoreFails
  <2> QED
    BY <1>2, <1>3, <2>1, <2>2 DEF Before
<1> QED
  BY <1>6, <1>7, <1>8, <1>9, <1>10, <1>11, <1>12

\* An operation that writes still has its event to confirm.
LEMMA WriteProgress ==
    ASSUME IndInv, NEW o \in Ops \ Resumable, Progress(o), NEW heard \in BOOLEAN, Write(o, heard)
    PROVE  Progress(o)' /\ (stored' # stored => event[o].state = "prepared")
<1>0. /\ writer \in [Ops -> Writer] /\ writer[o] \in Writer /\ Gen \in Nat /\ o \in Ops
  BY RawIs DEF IndInv, TypeOK, Writer
<1>1. /\ writer[o].pc = "writing" /\ UNCHANGED <<event, held>>
      /\ writer'[o].pc \in {"confirming", "reconciling"} /\ writer'[o].status = writer[o].status
  BY <1>0 DEF Write, Writer
<1>2. Raw # Content[o] /\ event[o].state # "committed" /\ event[o].state # "none"
      /\ writer[o].status # "already_exists"
  BY <1>1, BeforeWriting DEF Before, Progress
<1>3. Over(o)'
  BY <1>1 DEF Over, Before
<1>4. CASE writer[o].expected # Gen
  <2>1. UNCHANGED stored
    BY <1>4 DEF Write
  <2>2. o \in SyncOps => event[o].expected <= Gen
    BY DEF Progress
  <2> QED
    BY <1>1, <1>2, <1>3, <2>1, <2>2, OwnProgress DEF Before
<1>5. CASE writer[o].expected = Gen
  <2>1. stored' = Append(stored, Content[o]) /\ Content[o] \in Contents
    BY <1>5 DEF Write
  <2>2. ~Over(o)
    BY <1>0, <1>1, <1>5, RawIs DEF Over, Before, Progress
  <2>3. event[o].state = "prepared" /\ \A by \in Confirmer : held[o][by].to # "abort"
    <3>1. event[o].state \in {"none", "prepared", "committed", "aborted"}
      BY DEF IndInv, TypeOK, Settled
    <3> QED
      BY <1>2, <2>2, <3>1 DEF Progress
  <2>4. Gen' = Gen + 1 /\ stored'[Gen'] = Content[o] /\ \A g \in 1 .. Gen : stored'[g] = stored[g]
    BY <2>1 DEF IndInv, TypeOK, Gen
  <2>5. \A g \in 1 .. Gen' : stored'[g] = Content[o] => g = Gen'
    <3>1. \A g \in 1 .. Gen' : g \in 1 .. Gen \/ g = Gen'
      BY <1>0, <2>4
    <3>2. \A g \in 1 .. Gen : stored[g] # Content[o]
      BY <1>1 DEF Progress, Before
    <3> QED
      BY <2>4, <3>1, <3>2
  <2>6. o \in SyncOps => event[o].expected <= Gen'
    BY <1>0, <2>4, RawIs DEF Progress
  <2> QED
    BY <1>1, <1>2, <1>3, <2>3, <2>5, <2>6 DEF Progress, Before
<1> QED
  BY <1>4, <1>5

\* What the other operations do.
LEMMA OthersStep ==
    ASSUME Distinct, IndInv, QueueInv, NEW p \in Ops, NEW o \in Ops \ Resumable, o # p,
           \/ \E g \in Precondition(p) : Prepare(p, g)
           \/ Resume(p) \/ Request(p) \/ Leave(p) \/ ReconcileQueued(p)
           \/ Settle(p, "queue") \/ DispatcherCrash(p)
    PROVE  Progress(o)' /\ Queued(o)'
<1>0. /\ Progress(o) /\ Queued(o) /\ Content[p] # Content[o] /\ Content[p] \in Contents
      /\ event \in [Ops -> Event] /\ writer \in [Ops -> Writer]
      /\ held \in [Ops -> [Confirmer -> Held]]
  BY DEF QueueInv, Distinct, IndInv, TypeOK, Event, Writer, Held
<1>1. event'[o] = event[o]
  BY <1>0 DEF Request, Prepare, Resume, Look, LookSync, Write, ConfirmRead, ReconcileNow, StoreFails,
              Answer, Settle, Commit, Abort, Leave, ReconcileQueued, DispatcherCrash
<1>2. writer'[o] = writer[o]
  BY <1>0 DEF Request, Prepare, Resume, Look, LookSync, Write, ConfirmRead, ReconcileNow, StoreFails,
              Answer, Settle, Leave, ReconcileQueued, DispatcherCrash, Goto
<1>3. held'[o] = held[o]
  BY <1>0 DEF Request, Prepare, Resume, Look, LookSync, Write, ConfirmRead, ReconcileNow, StoreFails,
              Answer, Settle, Leave, ReconcileQueued, DispatcherCrash
<1>4. /\ stored' \in {stored, Append(stored, Content[p])}
      /\ stored' # stored => announced' = announced
      /\ announced' \in {announced, Gen}
  BY DEF Request, Prepare, Resume, Look, LookSync, Write, ConfirmRead, ReconcileNow, StoreFails,
         Answer, Settle, Commit, Leave, ReconcileQueued, DispatcherCrash
<1>5. Progress(o)'
  BY <1>0, <1>1, <1>2, <1>3, <1>4, OthersProgress
<1>6. CASE stored' = stored
  <2>1. Raw' = Raw /\ (Raw = Content[o] => Gen # 0 /\ stored[Gen] = Raw)
    BY <1>6, RawIs DEF Raw, Gen
  <2>2. ASSUME Raw = Content[o], event[o].state # "prepared", ~TookOwnForOld(o)
        PROVE  announced' # 0 /\ stored[announced'] = Raw
    <3>1. announced # 0 /\ stored[announced] = Raw
      BY <1>0, <2>2 DEF Queued
    <3> QED
      BY <1>4, <2>1, <2>2, <3>1
  <2>3. Raw = Content[o] =>
          \/ event'[o].state = "prepared" \/ TookOwnForOld(o)'
          \/ announced' # 0 /\ stored'[announced'] = Raw
    BY <1>1, <1>6, <2>2 DEF TookOwnForOld
  <2> QED
    BY <1>5, <2>1, <2>3 DEF Queued
<1>7. CASE stored' = Append(stored, Content[p])
  <2>1. Raw' = Content[p]
    BY <1>0, <1>7 DEF IndInv, TypeOK, Raw, Gen
  <2>2. Raw' # Content[o]
    BY <1>0, <2>1
  <2> QED
    BY <1>5, <2>2 DEF Queued
<1> QED
  BY <1>4, <1>5, <1>6, <1>7

\* What is stored was some operation's, and the watermark has been announced.
LEMMA StoredIsWritten ==
    ASSUME IndInv, QueueInv, NEW p \in Ops,
           \/ \E g \in Precondition(p) : Prepare(p, g)
           \/ Resume(p) \/ Request(p) \/ Leave(p) \/ ReconcileQueued(p)
           \/ Settle(p, "queue") \/ DispatcherCrash(p)
    PROVE  /\ \A g \in 1 .. Gen' : \E o \in Ops : stored'[g] = Content[o]
           /\ current'.gen <= announced'
<1>0. Gen \in Nat /\ announced \in 0 .. Gen /\ current.gen \in Nat /\ current.gen <= announced
      /\ Content[p] \in Contents
  BY RawIs DEF QueueInv
<1>1. \/ UNCHANGED <<stored, current, announced>>
      \/ stored' = Append(stored, Content[p]) /\ UNCHANGED <<current, announced>>
      \/ stored' = stored /\ \E by \in Confirmer : held[p][by].to = "commit"
                                                   /\ Commit(p, held[p][by].gen, StatusBy(p, by))
  BY DEF Request, Prepare, Resume, Look, LookSync, Write, ConfirmRead, ReconcileNow, StoreFails,
         Answer, Settle, Leave, ReconcileQueued, DispatcherCrash, Confirmer
<1>2. CASE UNCHANGED <<stored, current, announced>>
  BY <1>0, <1>2 DEF QueueInv, Gen
<1>3. CASE stored' = Append(stored, Content[p]) /\ UNCHANGED <<current, announced>>
  <2>1. Gen' = Gen + 1 /\ stored'[Gen'] = Content[p] /\ \A g \in 1 .. Gen : stored'[g] = stored[g]
    BY <1>0, <1>3 DEF IndInv, TypeOK, Gen
  <2>2. \A g \in 1 .. Gen' : g \in 1 .. Gen \/ g = Gen'
    BY <1>0, <2>1
  <2> QED
    BY <1>0, <1>3, <2>1, <2>2 DEF QueueInv
<1>4. ASSUME stored' = stored, NEW by \in Confirmer, held[p][by].to = "commit",
             Commit(p, held[p][by].gen, StatusBy(p, by))
      PROVE  /\ \A g \in 1 .. Gen' : \E o \in Ops : stored'[g] = Content[o]
             /\ current'.gen <= announced'
  <2>1. held[p][by].gen \in 1 .. Gen
    BY <1>4 DEF IndInv, Known, Had
  <2>2. \/ UNCHANGED <<current, announced>>
        \/ current' = [gen |-> held[p][by].gen, content |-> Content[p]] /\ announced' = Gen
    BY <1>4 DEF Commit
  <2> QED
    BY <1>0, <1>4, <2>1, <2>2 DEF QueueInv, Gen
<1> QED
  BY <1>1, <1>2, <1>3, <1>4

LEMMA StepQueue ==
    ASSUME Distinct, IndInv, QueueInv, [Next]_vars PROVE QueueInv'
<1>1. CASE UNCHANGED vars
  BY <1>1 DEF vars, QueueInv, Progress, Queued, TookOwnForOld, Over, Gen, Raw
<1>2. ASSUME NEW p \in Ops,
             \/ \E g \in Precondition(p) : Prepare(p, g)
             \/ Resume(p) \/ Request(p) \/ Leave(p) \/ ReconcileQueued(p)
             \/ Settle(p, "queue") \/ DispatcherCrash(p)
      PROVE  QueueInv'
  <2>1. ASSUME p \notin Resumable PROVE Progress(p)' /\ Queued(p)'
    <3>0. p \in Ops \ Resumable /\ Progress(p) /\ Queued(p) /\ "writer" \in Confirmer
          /\ "queue" \in Confirmer
      BY <2>1 DEF QueueInv, Confirmer
    <3>1. CASE Settle(p, "writer") \/ Settle(p, "queue")
      BY <3>0, <3>1, SettleQueued
    <3>2. ASSUME NEW heard \in BOOLEAN, Write(p, heard) PROVE Progress(p)' /\ Queued(p)'
      <4>1. Progress(p)' /\ (stored' # stored => event[p].state = "prepared")
        BY <3>0, <3>2, WriteProgress
      <4>2. UNCHANGED <<event, announced>>
        BY <3>2 DEF Write
      <4> QED
        BY <3>0, <4>1, <4>2, StillQueued DEF Queued
    <3>3. CASE \/ \E g \in Precondition(p) : Prepare(p, g)
               \/ \E overwrite \in BOOLEAN : Look(p, overwrite)
               \/ LookSync(p)
      <4>1. /\ UNCHANGED <<stored, announced>>
            /\ event'[p] = event[p] \/ event'[p].state = "prepared"
        BY <3>3 DEF IndInv, TypeOK, Prepare, Look, LookSync
      <4> QED
        BY <3>0, <3>3, <4>1, MovesProgress, StillQueued
    <3>4. CASE ConfirmRead(p) \/ Leave(p) \/ ReconcileQueued(p) \/ ReconcileNow(p)
               \/ StoreFails(p) \/ Answer(p) \/ DispatcherCrash(p)
      <4>1. UNCHANGED <<stored, announced, event>>
        BY <3>4 DEF ConfirmRead, Leave, ReconcileQueued, ReconcileNow, StoreFails, Answer,
                    DispatcherCrash
      <4> QED
        BY <3>0, <3>4, <4>1, ReadsProgress, StillQueued
    <3>5. ~Resume(p)
      BY <2>1 DEF Resume
    <3> QED
      BY <1>2, <3>1, <3>2, <3>3, <3>4, <3>5 DEF Request
  <2>2. \A o \in Ops \ Resumable : o # p => Progress(o)' /\ Queued(o)'
    BY <1>2, OthersStep
  <2>3. \A o \in Ops \ Resumable : Progress(o)' /\ Queued(o)'
    BY <2>1, <2>2
  <2>4. /\ \A g \in 1 .. Gen' : \E o \in Ops : stored'[g] = Content[o]
        /\ current'.gen <= announced'
    BY <1>2, StoredIsWritten
  <2> QED
    BY <2>3, <2>4 DEF QueueInv
<1> QED
  BY <1>1, <1>2 DEF Next

\* When every operation has been settled, the content the object has was
\* announced to the pipeline: the last content is not prepared any more, and an
\* operation that was given up cannot be the one that wrote it.
THEOREM NothingLeftBehind ==
    ASSUME Distinct PROVE Spec => []ChangeIsQueued
<1>1. IndInv /\ QueueInv => ChangeIsQueued
  <2> SUFFICES ASSUME IndInv, QueueInv, AllSettled,
                      \A o \in Ops : Raw = Content[o] => o \notin Resumable /\ ~TookOwnForOld(o)
               PROVE  Raw = IF announced = 0 THEN NoContent ELSE stored[announced]
    BY DEF ChangeIsQueued
  <2>1. CASE Gen = 0
    BY <2>1, RawIs DEF Raw
  <2>2. CASE Gen # 0
    <3>1. PICK o \in Ops : Raw = Content[o]
      BY <2>2, RawIs DEF QueueInv
    <3>2. Queued(o) /\ event[o].state # "prepared" /\ ~TookOwnForOld(o)
      BY <3>1 DEF QueueInv, AllSettled, Settled
    <3> QED
      BY <3>1, <3>2 DEF Queued
  <2> QED
    BY <2>1, <2>2
<1>2. IndInv /\ QueueInv /\ [Next]_vars => IndInv' /\ QueueInv'
  BY StepInv, StepQueue
<1>3. Init => IndInv /\ QueueInv
  BY InitInv, InitQueue
<1> QED
  BY <1>1, <1>2, <1>3, PTL DEF Spec
=============================================================================
