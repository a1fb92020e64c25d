\* Two replicated tables and one other, up to three binlog events of one
\* row change, a snapshot upper covering the first two GTIDs.
CONSTANTS
    t1 = t1
    t2 = t2
    other = other
    v1 = v1
    Tables <- MCTables
    OtherTable = other
    Vals = {v1}
    MaxEvents = 3
    MaxRows = 1
    SnapshotUppers = {3}
    TransientFailures = TRUE
SPECIFICATION Spec
INVARIANT NoRowsAfterError
INVARIANT RewindsCancelSnapshotOverlap
\* The upstream logs at most MaxEvents events; the handlers stop once they
\* have processed them, or at a TransientError.
CHECK_DEADLOCK FALSE
