---------------------------- MODULE MCPagedList -----------------------------
\* Model checking of PagedList on a list of two pages.
EXTENDS PagedList
=============================================================================
