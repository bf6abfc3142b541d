----------------------------- MODULE MCSession ------------------------------
\* Session for TLC: the runs differ in constants and specification only.  No symmetry:
\* each of them has a liveness property.
EXTENDS Session
=============================================================================
