------------------------------ MODULE MCJobQueue ------------------------------
EXTENDS JobQueue, TLC

CONSTANTS j1, j2, s1

\* Both jobs ask for the same workspace, so that they compete for its lock.
MCWorkspaceOf == [j \in Jobs |-> s1]

Symmetry == Permutations(Workers)
==============================================================================
