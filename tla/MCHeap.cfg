\* Two classes and two more slabs; sizes of every kind: NULL, an object, a page,
\* two pages for more than two pages' worth.  Enough frees to bring obj_count
\* to 0, and too few pages for every slab to get memory.
CONSTANTS
    p1 = p1
    p2 = p2
    p3 = p3
    Ptrs <- ThreePtrs
    page_size = 3
    ObjCount = 3
    Classes <- SmallClasses
    Sizes = {0, 1, 2, 3, 7}
    Pages = 13
    MaxSlabs = 4
SYMMETRY Symmetry
SPECIFICATION Spec
INVARIANTS ObjectsDisjoint CountersAgree LeaksOnlyPastCount
