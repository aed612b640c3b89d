\* heap.c:6 against the division of heap.c:84.
CONSTANTS
    p1 = p1
    p2 = p2
    p3 = p3
    Ptrs <- TwoPtrs
    page_size = 3
    ObjCount = 3
    Classes <- SmallClasses
    Sizes = {0, 1, 2, 3, 7}
    Pages = 13
    MaxSlabs = 4
SPECIFICATION Spec
INVARIANT MallocCoversSize
