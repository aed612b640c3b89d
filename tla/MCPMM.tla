------------------------------- MODULE MCPMM --------------------------------
\* TLC instances of PMM: a machine of 96 pages of four bytes each.
EXTENDS PMM

CONSTANTS o1, o2, o3
ThreeOwners == {o1, o2, o3}
TwoOwners == {o1, o2}

At(base, len, type) == [base |-> base, len |-> len, type |-> type]

\* Usable memory is 1..2, 4..12 and 14..95, so bitmap_size is 11 bytes, too
\* many for the first entry: the bitmap takes pages 4..6 and owns 12 bytes.
\* The scan can start at pages 1, 2 and 7..10; bytes 12 and 13 lie in page 7,
\* and page 13 is no memory.
LowMemory == << At(0, 1, "other"), At(1, 2, "usable"), At(3, 1, "uncounted"),
                At(4, 9, "usable"), At(13, 1, "other"), At(14, 82, "usable") >>
=============================================================================
