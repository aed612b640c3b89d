CONSTANTS
    Size = 5
    Bytes = {0, 1, 200}
    MaxLength = 3
    Numbers <- SomeNumbers
    Garbage = {0, 1, 4}
    W = 16
SPECIFICATION LibSpec
INVARIANTS ComparisonsRight NumbersRight
PROPERTY CallsExact
\* A call that leaves the memory ends the caller.
CHECK_DEADLOCK FALSE
