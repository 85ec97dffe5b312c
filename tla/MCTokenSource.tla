----------------------------- MODULE MCTokenSource -----------------------------
EXTENDS TokenSource

AllFaults == FaultKinds
=============================================================================
