----------------------------- MODULE MCRememberMe ---------------------------
\* RememberMe for TLC: the accounts are alike.
EXTENDS RememberMe, TLC

Symmetry == Permutations(Accounts)
=============================================================================
