--------------------------- MODULE MCCacheDaemon ---------------------------
(* Small instances of CacheDaemon; the .cfg files choose the parameters.     *)
EXTENDS CacheDaemon, TLC

\* Connections are interchangeable: no definition distinguishes them.  (Not
\* used with the liveness run.)
Symmetry == Permutations(Conns)
=============================================================================
