--------------------------- MODULE MCRestoreUpload ---------------------------
EXTENDS RestoreUpload, TLC

Symmetry == Permutations(Uploads) \cup Permutations(Files)
=============================================================================
