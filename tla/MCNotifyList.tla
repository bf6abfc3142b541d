---------------------------- MODULE MCNotifyList ----------------------------
\* NotifyList for TLC: the loads are alike, and so are the taps.
EXTENDS NotifyList, TLC
Symmetry == Permutations(Loads) \cup Permutations(Taps)
=============================================================================
