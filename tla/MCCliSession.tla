----------------------------- MODULE MCCliSession -----------------------------
EXTENDS CliSession, TLC

Symmetry == Permutations(Commands)
=============================================================================
