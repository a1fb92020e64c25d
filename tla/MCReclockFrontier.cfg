\* The shared write frontier after a rejected compare_and_append.
CONSTANTS
    h1 = h1
    h2 = h2
    Handles <- MCHandles
    MaxTime = 3
    MaxRestarts = 0
SPECIFICATION Spec
INVARIANT SharedFrontierDurable
\* Every behaviour ends once the callers have proposed times up to MaxTime.
CHECK_DEADLOCK FALSE
