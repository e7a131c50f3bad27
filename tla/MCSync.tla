---- MODULE MCSync ----
EXTENDS Sync, TLC
CONSTANTS v1, v2
Symm == Permutations(Vals)
====
