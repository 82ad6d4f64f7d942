---------------------------- MODULE MCExportJob ----------------------------
\* Small instances of ExportJob for TLC.
EXTENDS ExportJob, TLC

MCSymmetry == Permutations(Jobs) \cup Permutations(Workers)
=============================================================================
