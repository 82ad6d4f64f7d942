----------------------------- MODULE DocumentLife -----------------------------
(***************************************************************************)
(* What the import of documents promises, without a queue, leases, retries *)
(* or a journal: one execution at a time converts a document; its outcome  *)
(* is decided once, and only a converted document becomes a source; what   *)
(* failed is counted until it is removed.                                  *)
(***************************************************************************)
EXTENDS Integers

CONSTANTS Documents, Executions

VARIABLES
    phase,      \* of each document, as its user is shown it
    busy,       \* the executions that convert a document
    sources,    \* the documents that are sources of the wiki
    removed,    \* the documents whose removal is complete
    failures,   \* failed documents that were not removed
    sequence    \* failures there ever were

lifeVars == <<phase, busy, sources, removed, failures, sequence>>

LifeInit ==
    /\ phase = [d \in Documents |-> "new"]
    /\ busy = [d \in Documents |-> {}]
    /\ sources = {} /\ removed = {}
    /\ failures = 0 /\ sequence = 0

Enters(d, p) == phase' = [phase EXCEPT ![d] = p]

Accept(d) ==
    /\ phase[d] = "new"
    /\ Enters(d, "accepted")
    /\ UNCHANGED <<busy, sources, removed, failures, sequence>>

Convert(d, x) ==
    /\ phase[d] = "accepted" /\ busy[d] = {}
    /\ busy' = [busy EXCEPT ![d] = {x}]
    /\ UNCHANGED <<phase, sources, removed, failures, sequence>>

\* Executions end without a result, by themselves or at their deadline.
Stop(D) ==
    /\ busy' = [d \in Documents |-> IF d \in D THEN {} ELSE busy[d]]
    /\ UNCHANGED <<phase, sources, removed, failures, sequence>>

Converted(d) ==
    /\ phase[d] = "accepted" /\ busy[d] # {}
    /\ Enters(d, "converted")
    /\ busy' = [busy EXCEPT ![d] = {}]
    /\ UNCHANGED <<sources, removed, failures, sequence>>

\* The conversion fails, or the document is given up, whatever still works on it.
Fail(d) ==
    /\ phase[d] = "accepted"
    /\ Enters(d, "failed")
    /\ busy' \in {busy, [busy EXCEPT ![d] = {}]}
    /\ failures' = failures + 1 /\ sequence' = sequence + 1
    /\ UNCHANGED <<sources, removed>>

\* The source is committed, even if its import was told that it was not saved.
Commit(d) ==
    /\ phase[d] \in {"converted", "unsaved"}
    /\ sources' = sources \cup {d}
    /\ UNCHANGED <<phase, busy, removed, failures, sequence>>

Save(d) ==
    /\ phase[d] = "converted"
    /\ \/ d \in sources /\ Enters(d, "saved")
       \/ Enters(d, "unsaved")
    /\ UNCHANGED <<busy, sources, removed, failures, sequence>>

\* What has an outcome without a source can be removed, once.
Remove(d) ==
    /\ phase[d] \in {"failed", "unsaved"} /\ d \notin removed
    /\ removed' = removed \cup {d}
    /\ failures' = IF phase[d] = "failed" THEN failures - 1 ELSE failures
    /\ UNCHANGED <<phase, busy, sources, sequence>>

LifeNext ==
    \/ \E d \in Documents :
         \/ Accept(d) \/ Converted(d) \/ Fail(d) \/ Commit(d) \/ Save(d) \/ Remove(d)
         \/ \E x \in Executions : Convert(d, x)
    \/ \E D \in SUBSET Documents : Stop(D)

LifeSpec == LifeInit /\ [][LifeNext]_lifeVars
=============================================================================
