--------------------------- MODULE MCSourceJournal ---------------------------
EXTENDS SourceJournal, TLC

CONSTANTS o1, o2, o3, a, b, c

\* Every operation writes a content of its own.
MCFresh == (o1 :> a) @@ (o2 :> b) @@ (o3 :> c)
MCEquivalent == {<<a, b>>}
=============================================================================
