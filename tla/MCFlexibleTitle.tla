-------------------------- MODULE MCFlexibleTitle ---------------------------
\* FlexibleTitle for TLC: the constants are those of the home screen's app bar.
EXTENDS FlexibleTitle
=============================================================================
