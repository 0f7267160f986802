----------------------- MODULE MCDurableCheckpointer -----------------------
\* Two interchangeable threads, of which one can be forked from the other, four
\* calls at most, and a crash between any two steps.
EXTENDS DurableCheckpointer, FiniteSets, TLC

CONSTANTS t1, t2

MCThreads == {t1, t2}
Symmetry == Permutations(MCThreads)
=============================================================================
