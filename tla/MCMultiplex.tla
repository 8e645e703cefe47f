----------------------------- MODULE MCMultiplex -----------------------------
(* Multiplex on small instances.                                             *)
EXTENDS Multiplex, TLC

\* Callers differ only in name, and so do ids: for the runs without liveness.
Symmetry == Permutations(Callers) \cup Permutations(ReqIds)
=============================================================================
