----------------------------- MODULE MCTerminal -----------------------------
EXTENDS Terminal, TLC

Symmetry == Permutations(Threads) \cup Permutations(Blocks)
=============================================================================
