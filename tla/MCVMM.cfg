CONSTANTS
    kernel = kernel
    other = other
    Maps <- TwoMaps
    Kernel <- kernel
    Fanout = 2
    UserSlots = 1
    Virts <- ThreeVirts
    Touched <- OneVirt
    Phys <- OnePage
    Flags <- SomeFlags
    Frames = 6
    InitMaps <- KernelOnly
    MaxMaps = 2
SPECIFICATION Spec
INVARIANTS HigherHalfShared TlbCoherent
PROPERTY ImplementsAddressSpace
CHECK_DEADLOCK FALSE
