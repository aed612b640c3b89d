---------------------------- MODULE MCHeapLocked ----------------------------
\* TLC instance of HeapLocked: two CPUs, two slabs in which one object is
\* scanned; an object of size 2 needs a slab of its own.
EXTENDS HeapLocked
CONSTANTS c1, c2
TwoCPUs == {c1, c2}
SmallClasses == <<1, 1>>
=============================================================================
