------------------------------ MODULE MCKLock -------------------------------
\* TLC instance of KLock: the callers are model values.
EXTENDS KLock
CONSTANTS c1, c2, c3
ThreeCPUs == {c1, c2, c3}
=============================================================================
