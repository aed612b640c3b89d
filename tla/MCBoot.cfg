\* Two places in the transmitter: a third byte is lost if nobody waits.
CONSTANTS
    Depth = 2
    Typed = {"typed"}
    Garbled = {"garbled"}
    Stale = {"stale"}
    Leftover <- SomeLeftover
    MaxIndex = 3
    Asked = 8
    W = 64
    MaxCounter = 8
    Machines <- SomeMachines
SPECIFICATION Spec
INVARIANTS NothingLost FramesExact SleepWindow FaultsExplained
PROPERTY BootEnds
\* The boot ends in hlt.
CHECK_DEADLOCK FALSE
