--------------------------- MODULE MCInstallation ---------------------------
EXTENDS Installation, TLC

MCFamilyOrder == <<"mldsa65">>
ProcSymmetry == Permutations(Procs)
=============================================================================
