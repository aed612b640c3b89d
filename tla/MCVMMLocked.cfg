\* Three calls: two that make the tables of one path at once, or one that reads
\* an entry the other stores to, and one that finds what they have left; a
\* path takes two frames, or three in the user half.
CONSTANTS
    c1 = c1
    c2 = c2
    CPUs <- TwoCPUs
    MapCount = 2
    Fanout = 2
    UserSlots = 1
    Targets <- SomeTargets
    Phys <- OnePage
    Flags <- SomeFlags
    Frames = 8
    MaxCalls = 3
SYMMETRY Symmetry
SPECIFICATION Spec
INVARIANTS MapsAsCalled FaultsOnlyUnmapped
\* The bound on the calls.
CHECK_DEADLOCK FALSE
