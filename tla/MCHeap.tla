------------------------------- MODULE MCHeap -------------------------------
\* TLC instances of Heap: pages of three bytes, slabs of three objects.
EXTENDS Heap, TLC
CONSTANTS p1, p2, p3
TwoPtrs == {p1, p2}
ThreePtrs == {p1, p2, p3}
SmallClasses == <<1, 2>>
\* The pointer variables are alike.
Symmetry == Permutations(Ptrs)
=============================================================================
