\* Blocks of up to four pages, so a block can start at any page the scan sees
\* and reach past the bitmap's own bytes onto the hole in memory.
CONSTANTS
    o1 = o1
    o2 = o2
    o3 = o3
    Owners <- ThreeOwners
    MemMap <- LowMemory
    PageBytes = 4
    MaxAlloc = 4
    MaxInits = 1
SPECIFICATION Spec
INVARIANTS BlocksDisjoint BitmapExact BlocksAreMemory FreeCountBalances
PROPERTY ImplementsContract
