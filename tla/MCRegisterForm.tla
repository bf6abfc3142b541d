---------------------------- MODULE MCRegisterForm --------------------------
\* RegisterForm for TLC: the aimags with soums are alike, and so are the soum requests.
EXTENDS RegisterForm, TLC

Symmetry == Permutations(Aimags \ Barren) \cup Permutations(SoumCalls)
=============================================================================
