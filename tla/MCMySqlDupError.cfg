\* Violation run of AtMostOneErrorPerTable.
CONSTANTS
    t1 = t1
    t2 = t2
    other = other
    v1 = v1
    Tables <- MCTables
    OtherTable = other
    Vals = {v1}
    MaxEvents = 3
    MaxRows = 1
    SnapshotUppers = {3}
    TransientFailures = FALSE
SPECIFICATION Spec
INVARIANT AtMostOneErrorPerTable
\* The upstream logs at most MaxEvents events; the handlers stop once they
\* have processed them.
CHECK_DEADLOCK FALSE
