----------------------------- MODULE MCKmalloc -----------------------------
EXTENDS Kmalloc

MCPow == [k \in Orders |-> 2 ^ k]
MCSymmetry == Permutations(Pointers)
=============================================================================
