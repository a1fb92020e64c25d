\* Violation run of RowsEventComplete.
CONSTANTS
    t1 = t1
    t2 = t2
    other = other
    v1 = v1
    Tables <- MCTables
    OtherTable = other
    Vals = {v1}
    MaxEvents = 2
    MaxRows = 2
    SnapshotUppers = {3}
    TransientFailures = FALSE
SPECIFICATION Spec
INVARIANT RowsEventComplete
\* The upstream logs at most MaxEvents events; the handlers stop once they
\* have processed them.
CHECK_DEADLOCK FALSE
