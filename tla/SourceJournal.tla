---------------------------- MODULE SourceJournal ----------------------------
(***************************************************************************)
(* The source journal (internal/sourceautomation/journal.go) and the       *)
(* writers of one raw object that go through it: uploads, MCP and URL      *)
(* intake (rawintake.Commit), CLI sync and document import.                *)
(*                                                                         *)
(* An operation prepares an event, writes the object under a generation    *)
(* precondition, reads it back and confirms the event in a transaction.    *)
(* The transaction compares the object with the path's watermark (the last *)
(* generation and content the pipeline was told of) and, if the content    *)
(* changed, advances the project's source revision and queues a pipeline   *)
(* run for it.  A durable queue reconciles the events whose operation did  *)
(* not get that far.                                                       *)
(*                                                                         *)
(* Reads of the object and transactions are separate steps: everything a   *)
(* transaction uses of the object is what was read before it began.        *)
(***************************************************************************)
EXTENDS Integers, Sequences, FiniteSets

CONSTANTS
    Ops,        \* operation ids
    Contents,   \* digests of raw contents
    Content,    \* the content an operation writes
    SyncOps,    \* operations of `cli_sync`: the client names the generation
    Resumable,  \* operations re-run under the same id (document imports)
    McpOps,     \* operations of `mcp_add_raw`
    Equivalent, \* pairs of contents add_raw takes for the same document
    NoContent   \* the object does not exist

ASSUME JournalAssumption ==
    /\ IsFiniteSet(Ops)
    /\ Content \in [Ops -> Contents]
    /\ SyncOps \subseteq Ops
    /\ Resumable \subseteq Ops
    /\ McpOps \subseteq Ops
    /\ Equivalent \subseteq Contents \X Contents
    /\ NoContent \notin Contents

VARIABLES
    stored,     \* the object's generations, oldest first; the last is current
    event,      \* pipeline_source_events: one per operation
    current,    \* pipeline_source_current: the path's watermark
    revision,   \* the project's pipeline_source_revision
    announced,  \* history: the object's generation when it last advanced
    writer,     \* the operation's request or worker
    held        \* what a confirmer has read, before its transaction

vars == <<stored, event, current, revision, announced, writer, held>>

Gen == Len(stored)
Raw == IF Gen = 0 THEN NoContent ELSE stored[Gen]

-----------------------------------------------------------------------------
Settled   == {"committed", "aborted"}
Confirmer == {"writer", "queue"}
Statuses  == {"created", "replaced", "already_exists"}

\* A request reads and then runs a transaction: of its confirmation
\* ("confirming", "settling"), of the reconcile after a confirmation that failed
\* ("rechecking", "closing"), or of the one after a write that was refused or
\* never answered ("reconciling", "resolving").
WriterPC  == {"idle", "prepared", "writing", "confirming", "settling",
              "rechecking", "closing", "reconciling", "resolving", "answering",
              "gone"}

TypeOK ==
    /\ stored \in Seq(Contents)
    /\ event \in [Ops -> [state : {"none", "prepared"} \cup Settled,
                          expected : Nat, gen : Nat, revision : Nat,
                          status : Statuses \cup {"none"}]]
    /\ current \in [gen : Nat, content : Contents \cup {NoContent}]
    /\ revision \in Nat /\ announced \in 0..Gen
    /\ writer \in [Ops -> [pc : WriterPC, expected : Nat, status : Statuses]]
    /\ held \in [Ops -> [Confirmer ->
                   [to : {"nothing", "commit", "abort"}, gen : Nat]]]

Nothing == [to |-> "nothing", gen |-> 0]

Init ==
    /\ stored = <<>>
    /\ event = [o \in Ops |-> [state |-> "none", expected |-> 0, gen |-> 0,
                               revision |-> 0, status |-> "none"]]
    /\ current = [gen |-> 0, content |-> NoContent]
    /\ revision = 0 /\ announced = 0
    /\ writer = [o \in Ops |-> [pc |-> "idle", expected |-> 0,
                                status |-> "created"]]
    /\ held = [o \in Ops |-> [by \in Confirmer |-> Nothing]]

-----------------------------------------------------------------------------
(* The operation.                                                          *)

\* What a request knows ends with it.
Gone == [pc |-> "gone", expected |-> 0, status |-> "created"]

Goto(o, pc) ==
    writer' = [writer EXCEPT ![o] = IF pc = "gone" THEN Gone ELSE [@ EXCEPT !.pc = pc]]

\* A sync client names the generation it last saw, none for a new file; for the
\* others the field is not recorded.
Precondition(o) == IF o \in SyncOps THEN 0..Gen ELSE {0}

\* PrepareSourceCommit.
Prepare(o, g) ==
    /\ event[o].state = "none"
    /\ event' = [event EXCEPT ![o].state = "prepared", ![o].expected = g]
    /\ Goto(o, "prepared")
    /\ UNCHANGED <<stored, current, revision, announced, held>>

\* A repeated Prepare finds its event, whatever state it is in, and the
\* operation goes on.
Resume(o) ==
    /\ o \in Resumable
    /\ writer[o].pc = "gone"
    /\ Goto(o, "prepared")
    /\ UNCHANGED <<stored, event, current, revision, announced, held>>

\* rawintake.Commit and ensureRawSource up to their write; a document import
\* never overwrites.
Look(o, overwrite) ==
    /\ writer[o].pc = "prepared" /\ o \notin SyncOps
    /\ overwrite => o \notin Resumable
    /\ writer' = [writer EXCEPT ![o] =
         IF Gen = 0
           THEN [pc |-> "writing", expected |-> 0, status |-> "created"]
         ELSE IF Raw = Content[o]
           THEN [@ EXCEPT !.pc = "confirming", !.status = "already_exists"]
         ELSE IF ~overwrite THEN [@ EXCEPT !.pc = "reconciling"]
         ELSE [pc |-> "writing", expected |-> Gen, status |-> "replaced"]]
    /\ UNCHANGED <<stored, event, current, revision, announced, held>>

LookSync(o) ==
    /\ writer[o].pc = "prepared" /\ o \in SyncOps
    /\ writer' = [writer EXCEPT ![o] =
         [pc |-> "writing", expected |-> event[o].expected, status |-> "created"]]
    /\ UNCHANGED <<stored, event, current, revision, announced, held>>

\* The conditional write.  It may land without the operation hearing of it; a
\* document import takes a refused write for a file that already exists.
Write(o, heard) ==
    /\ writer[o].pc = "writing"
    /\ LET lands == writer[o].expected = Gen IN
       /\ stored' = IF lands THEN Append(stored, Content[o]) ELSE stored
       /\ writer' = [writer EXCEPT ![o] =
            IF heard /\ lands THEN [@ EXCEPT !.pc = "confirming"]
            ELSE IF heard /\ o \in Resumable
            THEN [@ EXCEPT !.pc = "confirming", !.status = "already_exists"]
            ELSE [@ EXCEPT !.pc = "reconciling"]]
    /\ UNCHANGED <<event, current, revision, announced, held>>

\* ConfirmSourceCommit up to its transaction: the object must be the one the
\* operation was told of.
ConfirmRead(o) ==
    /\ writer[o].pc = "confirming"
    /\ IF Raw = Content[o]
       THEN /\ held' = [held EXCEPT ![o]["writer"] = [to |-> "commit", gen |-> Gen]]
            /\ Goto(o, "settling")
       ELSE Goto(o, "rechecking") /\ UNCHANGED held
    /\ UNCHANGED <<stored, event, current, revision, announced>>

\* The request ends, is cancelled, or its process dies.
Leave(o) ==
    /\ writer[o].pc \notin {"idle", "gone"}
    /\ Goto(o, "gone")
    /\ held' = [held EXCEPT ![o]["writer"] = Nothing]
    /\ UNCHANGED <<stored, event, current, revision, announced>>

-----------------------------------------------------------------------------
(* Confirmation and reconciliation.                                        *)

\* (bug) the watermark follows the last transaction, not the generation.
LatestAlways(g) == TRUE

Latest(g) == g >= current.gen

Changed(o, g, status) ==
    /\ Latest(g)
    /\ status # "already_exists"
    /\ current.gen = 0 \/ current.content # Content[o]

\* The transaction of ConfirmSourceCommit for the generation g it read.
Commit(o, g, status) ==
    IF event[o].state # "prepared"
    THEN UNCHANGED <<event, current, revision, announced>>
    ELSE LET changed == Changed(o, g, status) IN
         /\ revision' = IF changed THEN revision + 1 ELSE revision
         /\ current' = IF changed THEN [gen |-> g, content |-> Content[o]]
                       ELSE current
         /\ announced' = IF changed THEN Gen ELSE announced
         /\ event' = [event EXCEPT ![o] =
                        [@ EXCEPT !.state = "committed", !.gen = g,
                                  !.revision = revision', !.status = status]]

\* markCommitAborted.
Abort(o) ==
    event' = IF event[o].state = "prepared"
             THEN [event EXCEPT ![o].state = "aborted"] ELSE event

\* (bug) a missing object is given up at once.
GraceOverNow(o) == TRUE

\* The 15 minutes a prepared event is given outlive any request or worker
\* that could still write for it.
GraceOver(o) == writer[o].pc = "gone"

\* A sync writer whose precondition can no longer hold.
Superseded(o) == o \in SyncOps /\ Gen # event[o].expected

\* (bug) whatever is stored confirms the event.
VerdictAnyContent(o) ==
    IF Gen # 0 THEN "commit" ELSE IF GraceOver(o) THEN "abort" ELSE "nothing"

\* What ReconcileSourceCommit decides from what it reads.
Verdict(o) ==
    IF Raw = Content[o] THEN "commit"
    ELSE IF Gen # 0 /\ Superseded(o) THEN "abort"
    ELSE IF GraceOver(o) THEN "abort" ELSE "nothing"

\* The queue's work for the event, due again every minute while it is
\* prepared.
ReconcileQueued(o) ==
    /\ event[o].state = "prepared"
    /\ held[o]["queue"] = Nothing
    /\ Verdict(o) # "nothing"
    /\ held' = [held EXCEPT ![o]["queue"] = [to |-> Verdict(o), gen |-> Gen]]
    /\ UNCHANGED <<stored, event, current, revision, announced, writer>>

\* What follows the operation's own reconcile, whatever came of it: add_raw
\* looks for itself, the others report.
AfterReconcile(o) == IF o \in McpOps THEN "answering" ELSE "gone"

\* The operation's own reconcile after a refused or ambiguous write or a
\* failed confirmation.
ReconcileNow(o) ==
    /\ writer[o].pc \in {"reconciling", "rechecking"}
    /\ IF event[o].state = "prepared" /\ Verdict(o) # "nothing"
       THEN /\ held' = [held EXCEPT ![o]["writer"] =
                          [to |-> Verdict(o), gen |-> Gen]]
            /\ writer' = [writer EXCEPT
                 ![o].pc = IF writer[o].pc = "reconciling" THEN "resolving"
                           ELSE "closing",
                 ![o].status = "created"]
       ELSE /\ Goto(o, IF writer[o].pc = "reconciling" THEN AfterReconcile(o)
                       ELSE "gone")
            /\ UNCHANGED held
    /\ UNCHANGED <<stored, event, current, revision, announced>>

\* A read or a transaction fails.  A confirmation is followed by one reconcile;
\* a reconcile by nothing, but that add_raw goes on as if it had not tried.  (A
\* transaction that is committed without an answer ends the same way, since
\* what follows it finds the event settled.)
StoreFails(o) ==
    /\ writer[o].pc \in {"confirming", "settling", "reconciling", "resolving"}
    /\ Goto(o, IF writer[o].pc \in {"confirming", "settling"} THEN "rechecking"
               ELSE AfterReconcile(o))
    /\ held' = [held EXCEPT ![o]["writer"] = Nothing]
    /\ UNCHANGED <<stored, event, current, revision, announced>>

\* add_raw answers from what it finds under the name (reconcileMCPAddRaw): its
\* own content is confirmed; for an equivalent document the event is closed
\* without a change (RecordNoChangeProjectUse).
Answer(o) ==
    /\ writer[o].pc = "answering"
    /\ IF Raw = Content[o]
       THEN /\ writer' = [writer EXCEPT ![o].pc = "confirming",
                                        ![o].status = "already_exists"]
            /\ UNCHANGED held
       ELSE IF event[o].state = "prepared" /\ <<Content[o], Raw>> \in Equivalent
       THEN /\ held' = [held EXCEPT ![o]["writer"] = [to |-> "abort", gen |-> Gen]]
            /\ Goto(o, "closing")
       ELSE Goto(o, "gone") /\ UNCHANGED held
    /\ UNCHANGED <<stored, event, current, revision, announced>>

StatusBy(o, by) == IF by = "queue" THEN "created" ELSE writer[o].status

\* A confirmer's transaction.
Settle(o, by) ==
    /\ held[o][by].to # "nothing"
    /\ IF held[o][by].to = "commit"
       THEN Commit(o, held[o][by].gen, StatusBy(o, by))
       ELSE Abort(o) /\ UNCHANGED <<current, revision, announced>>
    /\ held' = [held EXCEPT ![o][by] = Nothing]
    /\ IF by = "writer"
       THEN Goto(o, IF writer[o].pc = "resolving" THEN AfterReconcile(o) ELSE "gone")
       ELSE UNCHANGED writer
    /\ UNCHANGED stored

\* The dispatcher dies between the read and the transaction, or that fails.
DispatcherCrash(o) ==
    /\ held[o]["queue"] # Nothing
    /\ held' = [held EXCEPT ![o]["queue"] = Nothing]
    /\ UNCHANGED <<stored, event, current, revision, announced, writer>>

-----------------------------------------------------------------------------
Request(o) ==
    \/ \E overwrite \in BOOLEAN : Look(o, overwrite)
    \/ LookSync(o)
    \/ \E heard \in BOOLEAN : Write(o, heard)
    \/ ConfirmRead(o)
    \/ ReconcileNow(o)
    \/ StoreFails(o)
    \/ Answer(o)
    \/ Settle(o, "writer")

Next ==
    \E o \in Ops :
        \/ \E g \in Precondition(o) : Prepare(o, g)
        \/ Resume(o)
        \/ Request(o)
        \/ Leave(o)
        \/ ReconcileQueued(o)
        \/ Settle(o, "queue")
        \/ DispatcherCrash(o)

Spec == Init /\ [][Next]_vars

-----------------------------------------------------------------------------
(* Properties.                                                             *)

\* The watermark and every committed event name a generation that really had
\* that content, although both are written in a transaction that runs after
\* the object was read and may have been replaced since.
NamesStoredContent ==
    /\ current.gen # 0 => stored[current.gen] = current.content
    /\ \A o \in Ops : event[o].state = "committed" =>
                        stored[event[o].gen] = Content[o]

\* The watermark never goes back to an older generation: a slow confirmation
\* cannot undo what a newer one told the pipeline.
WatermarkAdvances == [][current'.gen >= current.gen]_vars

\* Operations, crashes, and the confirmers that read before they commit
\* implement the feed of changes that the pipeline relies on.
Feed == INSTANCE ChangeFeed WITH
            entry <- [o \in Ops |-> [state |-> event[o].state, gen |-> event[o].gen,
                                    revision |-> event[o].revision]],
            told  <- current

ImplementsFeed == Feed!FeedSpec

AllSettled == \A o \in Ops : event[o].state \in Settled \cup {"none"}

\* add_raw, after a write whose answer was lost and a reconcile that failed, has
\* found its own write, taken it for one that was there before, and told the
\* pipeline nothing.
TookOwnForOld(o) == o \in McpOps /\ event[o].status = "already_exists"

\* Once every operation has been settled, a pipeline run has been queued since
\* the object got the content it has now (the run reads the object, not the
\* journal): no change is left unprocessed, whatever crashed or failed and in
\* whichever order the confirmations arrived.  Two contents may be left: that of
\* an operation that is re-run, whose second run finds its own write already
\* there and confirms that nothing changed, and that of an add_raw which makes
\* the same mistake within one request.
ChangeIsQueued ==
    AllSettled /\ (\A o \in Ops : Raw = Content[o] => o \notin Resumable /\ ~TookOwnForOld(o)) =>
        Raw = IF announced = 0 THEN NoContent ELSE stored[announced]
=============================================================================
