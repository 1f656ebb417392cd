----------------------------- MODULE MCThreads -----------------------------
EXTENDS Threads, TLC

\* All tasks but the shell are alike.
MCSymmetry == Permutations(Tasks \ {Shell})
=============================================================================
