------------------------------ MODULE MCTrash ------------------------------
EXTENDS Trash, TLC
CONSTANTS c1, c2
Symm == Permutations(Clients)
=============================================================================
