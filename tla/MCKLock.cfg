\* Three callers, a spin of at most two rounds: enough for a caller to lose,
\* to win after losing, and to give up while another holds or is stamping.
CONSTANTS
    c1 = c1
    c2 = c2
    c3 = c3
    CPUs <- ThreeCPUs
    MaxSpin = 2
SPECIFICATION LockSpec
INVARIANTS MutualExclusion FlagMeansHeld CallerNamesHolder
PROPERTIES AcquireReturns ImplementsLockContract
