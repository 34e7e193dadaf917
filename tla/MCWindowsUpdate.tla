---------------------------- MODULE MCWindowsUpdate -------------------------
EXTENDS WindowsUpdate, TLC

CONSTANTS c1, c2, u1, u2
MCCopies == {c1, c2}
MCFinishers == {u1, u2}
Symmetry == Permutations(MCCopies) \cup Permutations(MCFinishers)
=============================================================================
