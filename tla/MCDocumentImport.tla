--------------------------- MODULE MCDocumentImport ---------------------------
EXTENDS DocumentImport, TLC

Processes == Permutations(Dispatchers) \cup Permutations(Workers)
             \cup Permutations(Requests) \cup Permutations(Documents)
=============================================================================
