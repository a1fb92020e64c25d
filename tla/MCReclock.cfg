\* Two handles racing on one remap shard; one may start read-only.  Both may
\* restart, so that the controller may drop the source under them.
CONSTANTS
    h1 = h1
    h2 = h2
    Handles <- MCHandles
    MaxTime = 4
    MaxRestarts = 2
SPECIFICATION Spec
INVARIANT NextReleasesShardPrefix
INVARIANT NoSnapshotPanic
PROPERTY NoWriteWhileReadOnly
PROPERTY ReadOnlyWaitReturns
\* Every behaviour ends once the callers have proposed times up to MaxTime.
CHECK_DEADLOCK FALSE
