-------------------------- MODULE MCDaemonControl --------------------------
EXTENDS DaemonControl, TLC

ControlSymmetry == Permutations(Pids) \cup Permutations(Terminals)
=============================================================================
