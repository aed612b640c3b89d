\* Two CPUs, blocks of one or two of three pages: enough for a scan to fail, to
\* fit at once or one page on, and to reach past the last start of the scan.
CONSTANTS
    c1 = c1
    c2 = c2
    CPUs <- TwoCPUs
    MaxSpin = 1
    bitmap_size = 2
    MaxAlloc = 2
    BootFree = {0, 1, 2}
    Modulus = 4
SPECIFICATION Spec
INVARIANTS PagesConserved CountExact
PROPERTIES CallReturns ImplementsContract
