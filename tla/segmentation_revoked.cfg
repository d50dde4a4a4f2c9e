CONSTANTS
    K2 = 8
    K3 = 7
    MIN_ANCHOR = 2
    MIN_CHILD_KERNEL_EXCEPTION = 3
    Truncated <- MCTruncated
    Walks <- RevokedWalks
SPECIFICATION Spec
INVARIANT RevokedGone
