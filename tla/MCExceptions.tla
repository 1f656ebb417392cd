---------------------------- MODULE MCExceptions ----------------------------
EXTENDS Exceptions, TLC

\* All tasks but the shell are alike.
ProgramsAlike == Permutations(Tasks \ {Shell})
=============================================================================
