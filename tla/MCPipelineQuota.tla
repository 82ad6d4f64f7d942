-------------------------- MODULE MCPipelineQuota ---------------------------
EXTENDS PipelineQuota, TLC

\* Runs, sweeps and reconcilers are interchangeable.
Symmetry == Permutations(Manual) \cup Permutations(Attempts) \cup Permutations(Reconcilers)

\* At most two runs are asked for, of whatever kinds: every pair of them.
Pairs == Cardinality({c \in Callers \ Dispatchers : call[c].pc # "new"}) <= 2
=============================================================================
