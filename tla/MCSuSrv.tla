------------------------------ MODULE MCSuSrv ------------------------------
(* Instances of SuSrv for TLC.                                              *)
EXTENDS SuSrv, TLC

Symmetry == Permutations(Threads) \cup Permutations(Sessions)
=============================================================================
