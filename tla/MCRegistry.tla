---- MODULE MCRegistry ----
EXTENDS Registry, TLC
CONSTANTS a, t1, t2
SameName == [u \in Repos |-> "name"]
Symm == Permutations(Threads)
====
