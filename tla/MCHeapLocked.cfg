\* Three mallocs: enough for a slab that forgets its object and for both CPUs to
\* add a slab at once; never more than MaxSlabs slabs.
CONSTANTS
    c1 = c1
    c2 = c2
    CPUs <- TwoCPUs
    ObjCount = 2
    Classes <- SmallClasses
    Sizes = {1, 2}
    MaxMallocs = 3
    MaxSlabs = 6
    Modulus = 8
SPECIFICATION Spec
INVARIANTS ObjectsHeldOnce FirstCountsExact FaultsOnlyWhenCrowded
PROPERTIES CallReturns FirstLockHolds
CHECK_DEADLOCK FALSE
