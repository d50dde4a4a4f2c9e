CONSTANTS
    K2 = 8
    K3 = 7
    MIN_ANCHOR = 2
    MIN_CHILD_KERNEL_EXCEPTION = 3
    Truncated <- MCTruncated
    Walks <- MCWalks
SPECIFICATION Spec
INVARIANT EndsAgree
INVARIANT BlocksOnce
INVARIANT CrossingsKept
INVARIANT KernelsNested
INVARIANT KernelsAreLoops
INVARIANT BordersSound
INVARIANT BlocksWritten
INVARIANT NoThrow
PROPERTY Ends
