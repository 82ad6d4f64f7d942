------------------------- MODULE MCCloudPublication -------------------------
EXTENDS CloudPublication, TLC

Symmetry == Permutations(Executions)
=============================================================================
