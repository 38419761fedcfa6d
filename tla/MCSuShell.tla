----------------------------- MODULE MCSuShell -----------------------------
(* Instances of SuShell for TLC.                                            *)
EXTENDS SuShell, TLC

Symmetry ==
  Permutations(Threads) \cup Permutations(Objects) \cup Permutations(Natives)
=============================================================================
