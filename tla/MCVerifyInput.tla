---------------------------- MODULE MCVerifyInput ---------------------------
\* VerifyInput for TLC: two digits tell a new one from the old.
EXTENDS VerifyInput
=============================================================================
