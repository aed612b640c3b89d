----------------------------- MODULE MCLibrary ------------------------------
\* TLC instance of Library: a NUL, a character and one that is negative as a
\* signed char; numbers around the lengths and digits where the loops turn.
EXTENDS Library
SomeNumbers == {-1234, -10, -1, 0, 7, 9, 10, 99, 100, 1000, 4660, 43981, 65535}
=============================================================================
