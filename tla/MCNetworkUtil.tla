--------------------------- MODULE MCNetworkUtil ----------------------------
\* Model checking of NetworkUtil on three calls and one base of their own.
EXTENDS NetworkUtil
=============================================================================
