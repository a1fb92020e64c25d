---------------------------- MODULE MySqlEvents ----------------------------
(***************************************************************************)
(* The MySQL replication event handlers of                                 *)
(* storage/src/source/mysql/replication/events.rs: handle_query_event and  *)
(* handle_rows_event applied, in binlog order, to the replicated tables.   *)
(*                                                                         *)
(* The upstream server runs DDL and DML while the handlers work through    *)
(* the binlog; verify_schemas reads the upstream schema as it is when the  *)
(* handler runs, not as it was when the event was logged.  Each binlog     *)
(* event is its own transaction, so its GTID is its position.  A           *)
(* TransientError ends the replication operator, which restarts from its   *)
(* committed frontier: the model halts there.                              *)
(***************************************************************************)
EXTENDS Integers, Sequences, SequencesExt, FiniteSets

CONSTANTS
    Tables,         \* the tables in ctx.table_info
    OtherTable,     \* a table of the database the source does not replicate
    Vals,           \* row values
    MaxEvents,      \* bound on the binlog's length
    MaxRows,        \* bound on the rows of one rows event
    SnapshotUppers, \* the snapshot uppers a rewind request may carry
    TransientFailures \* whether connect / verify_schemas may fail

VARIABLES
    schema,     \* upstream: "ok", "incompatible" or "dropped" per table
    binlog,     \* the events the upstream logged, in order
    pos,        \* events the handlers have processed
    errored,    \* ctx.errored_tables
    rewinds,    \* ctx.rewinds: table -> snapshot_upper (0 for no request)
    output,     \* what ctx.data_output was given, in order
    halted      \* a handler returned a TransientError

vars == <<schema, binlog, pos, errored, rewinds, output, halted>>

AllTables == Tables \cup {OtherTable}

\* The row changes of a RowsEvent: an insert, a delete or an update, or a
\* row the binlog iterator fails to decode.
Changes ==
    {[before |-> "none", after |-> v, corrupt |-> FALSE] : v \in Vals}
    \cup {[before |-> v, after |-> "none", corrupt |-> FALSE] : v \in Vals}
    \cup {[before |-> v, after |-> w, corrupt |-> FALSE] : v, w \in Vals}
    \cup {[before |-> "none", after |-> "none", corrupt |-> TRUE]}

\* An update given to data_output: table, Ok(value) or Err(error), time
\* (a GTID, 0 standing for GtidPartition::minimum()) and diff.
Update(t, data, time, diff) == [table |-> t, data |-> data, time |-> time, diff |-> diff]

\* The GTID of the event the handlers process next.
NewGtid == pos + 1

-----------------------------------------------------------------------------
(* verify_schemas on a table: the definite error it reports, if any.       *)
SchemaError(t) ==
    CASE schema[t] = "ok"           -> "none"
      [] schema[t] = "incompatible" -> "IncompatibleSchema"
      [] schema[t] = "dropped"      -> "TableDropped"

(* ALTER TABLE / RENAME TABLE (events.rs:71-109): a replicated table is    *)
(* re-verified and, if it no longer matches, errored at the new GTID.      *)
AlterTable(t) ==
    IF t \in Tables /\ SchemaError(t) /= "none"
    THEN /\ output' = Append(output, Update(t, SchemaError(t), NewGtid, 1))
         /\ errored' = errored \cup {t}
    ELSE UNCHANGED <<output, errored>>

(* DROP TABLE (events.rs:112-143): every replicated table not yet errored  *)
(* is verified; each that fails is errored at the new GTID.                *)
DropTable ==
    LET failed == {t \in Tables \ errored : SchemaError(t) /= "none"}
    IN  /\ output' = output \o SetToSeq({Update(t, SchemaError(t), NewGtid, 1) : t \in failed})
        /\ errored' = errored \cup failed

(* TRUNCATE [TABLE] (events.rs:145-178): a replicated table is errored.    *)
TruncateTable(t) ==
    IF t \in Tables
    THEN /\ output' = Append(output, Update(t, "TableTruncated", NewGtid, 1))
         /\ errored' = errored \cup {t}
    ELSE UNCHANGED <<output, errored>>

(* handle_query_event.  ALTER/RENAME and DROP connect to the upstream      *)
(* before they verify; either call may fail with a TransientError.         *)
HandleQueryEvent ==
    /\ ~halted
    /\ pos < Len(binlog)
    /\ LET e == binlog[pos + 1] IN
       /\ e.kind \in {"alter", "drop", "truncate", "commit", "other"}
       /\ \/ /\ TransientFailures
             /\ e.kind = "drop" \/ (e.kind = "alter" /\ e.table \in Tables)
             /\ halted' = TRUE
             /\ UNCHANGED <<pos, errored, output>>
          \/ /\ pos' = pos + 1
             /\ UNCHANGED halted
             /\ CASE e.kind = "alter"    -> AlterTable(e.table)
                  [] e.kind = "drop"     -> DropTable
                  [] e.kind = "truncate" -> TruncateTable(e.table)
                  [] OTHER               -> UNCHANGED <<output, errored>>
    /\ UNCHANGED <<schema, binlog, rewinds>>

-----------------------------------------------------------------------------
(* The rows the loop `while let Some(Ok(..)) = rows_iter.next()` visits:   *)
(* those before the first row the iterator fails to decode.                *)
VisitedRows(rows) ==
    LET bad == {i \in DOMAIN rows : rows[i].corrupt}
    IN  IF bad = {} THEN rows ELSE SubSeq(rows, 1, Min(bad) - 1)

(* pack_mysql_row: a row logged under a schema the source's table_desc no *)
(* longer describes fails with ValueDecodeError, a definite error given in *)
(* the row's place.                                                        *)
Packed(v, loggedSchema) == IF loggedSchema = "ok" THEN v ELSE "ValueDecodeError"

(* The updates of one row change: the before row retracted, the after row  *)
(* inserted (events.rs:259).                                               *)
ChangeUpdates(c) ==
    (IF c.before = "none" THEN <<>> ELSE <<[val |-> c.before, diff |-> -1]>>)
    \o (IF c.after = "none" THEN <<>> ELSE <<[val |-> c.after, diff |-> 1]>>)

(* An update at a GTID the table's snapshot already covers is also        *)
(* rewound: given negated at the minimum time (events.rs:274-278).         *)
Rewound_at_upper(t) == rewinds[t] /= 0 /\ NewGtid <= rewinds[t]
Rewound(t) == rewinds[t] /= 0 /\ NewGtid < rewinds[t]

(* A rows event is skipped for an errored or unknown table (events.rs:219-229). *)
RowsSkipped_unknown_only(t) == t \notin Tables
RowsSkipped(t) == t \in errored \/ t \notin Tables

(* handle_rows_event: every visited update is given at the new GTID and,   *)
(* when rewound, buffered; the event_buffer is flushed at the rewind       *)
(* capability after the loop (events.rs:296-301).                          *)
HandleRowsEvent ==
    /\ ~halted
    /\ pos < Len(binlog)
    /\ binlog[pos + 1].kind = "rows"
    /\ LET e == binlog[pos + 1]
           t == e.table
           ups == FlattenSeq([i \in DOMAIN VisitedRows(e.rows) |-> ChangeUpdates(VisitedRows(e.rows)[i])])
           given == [i \in DOMAIN ups |->
                       Update(t, Packed(ups[i].val, e.logged), NewGtid, ups[i].diff)]
           buffer == IF Rewound(t)
                     THEN [i \in DOMAIN given |-> [given[i] EXCEPT !.time = 0, !.diff = -@]]
                     ELSE <<>>
       IN  IF RowsSkipped(t) THEN UNCHANGED output
           ELSE output' = output \o given \o buffer
    /\ pos' = pos + 1
    /\ UNCHANGED <<schema, binlog, errored, rewinds, halted>>

-----------------------------------------------------------------------------
(* The upstream server: DDL and DML, each logged as one event.             *)
UpstreamAlter(t) ==
    /\ Len(binlog) < MaxEvents
    /\ t \in Tables => schema[t] /= "dropped"
    /\ \E s \in {"ok", "incompatible"} :
         schema' = IF t \in Tables THEN [schema EXCEPT ![t] = s] ELSE schema
    /\ binlog' = Append(binlog, [kind |-> "alter", table |-> t])
    /\ UNCHANGED <<pos, errored, rewinds, output, halted>>

UpstreamDrop(t) ==
    /\ Len(binlog) < MaxEvents
    /\ schema[t] /= "dropped"
    /\ schema' = [schema EXCEPT ![t] = "dropped"]
    /\ binlog' = Append(binlog, [kind |-> "drop", table |-> t])
    /\ UNCHANGED <<pos, errored, rewinds, output, halted>>

UpstreamQuery ==
    /\ Len(binlog) < MaxEvents
    /\ \E k \in {"truncate", "commit", "other"}, t \in AllTables :
         /\ k = "truncate" /\ t \in Tables => schema[t] /= "dropped"
         /\ binlog' = Append(binlog, [kind |-> k, table |-> t])
    /\ UNCHANGED <<schema, pos, errored, rewinds, output, halted>>

UpstreamRows(t) ==
    /\ Len(binlog) < MaxEvents
    /\ t \in Tables => schema[t] /= "dropped"
    /\ \E rows \in SeqOf(Changes, MaxRows) :
         /\ rows /= <<>>
         /\ binlog' = Append(binlog, [kind |-> "rows", table |-> t, rows |-> rows,
                                      logged |-> IF t \in Tables THEN schema[t] ELSE "ok"])
    /\ UNCHANGED <<schema, pos, errored, rewinds, output, halted>>

(* The source starts with every table verified and nothing errored; each   *)
(* table may carry a rewind request from its snapshot.                     *)
Init ==
    /\ schema = [t \in Tables |-> "ok"]
    /\ binlog = <<>>
    /\ pos = 0
    /\ errored = {}
    /\ rewinds \in [Tables -> {0} \cup SnapshotUppers]
    /\ output = <<>>
    /\ halted = FALSE

Next ==
    \/ HandleQueryEvent
    \/ HandleRowsEvent
    \/ \E t \in AllTables : UpstreamAlter(t) \/ UpstreamRows(t)
    \/ \E t \in Tables : UpstreamDrop(t)
    \/ UpstreamQuery

Spec == Init /\ [][Next]_vars

-----------------------------------------------------------------------------
\* The definite errors that error a whole table.
TableErrors == {"IncompatibleSchema", "TableDropped", "TableTruncated"}

\* Indices of the output updates satisfying P.
Given(P(_)) == {j \in DOMAIN output : P(output[j])}

\* The sum of the diffs of a set of output indices.
SumDiffs(J) == FoldFunctionOnSet(+, 0, [j \in DOMAIN output |-> output[j].diff], J)

ErroredBefore(t, g) ==
    Given(LAMBDA u : u.table = t /\ u.data \in TableErrors /\ u.time < g) /= {}

TypeOK ==
    /\ schema \in [Tables -> {"ok", "incompatible", "dropped"}]
    /\ pos \in 0..Len(binlog)
    /\ errored \subseteq Tables
    /\ rewinds \in [Tables -> {0} \cup SnapshotUppers]
    /\ \A j \in DOMAIN output : output[j].time \in 0..MaxEvents
    /\ halted \in BOOLEAN

\* Once a table has a definite error, no later GTID carries a row of it:
\* handle_rows_event skips errored tables (events.rs:219) and every DDL
\* path records the table in errored_tables with the error.
NoRowsAfterError ==
    \A i, j \in DOMAIN output :
        ~ /\ output[i].data \in TableErrors
          /\ output[j].table = output[i].table
          /\ output[j].data \notin TableErrors
          /\ output[j].time > output[i].time

\* For a table with a rewind request, the updates rewound at the minimum
\* time cancel exactly the replicated updates the snapshot already holds,
\* those at GTIDs below snapshot_upper (events.rs:274-278, 296-301).
RewindsCancelSnapshotOverlap ==
    ~halted =>
      \A t \in Tables : rewinds[t] /= 0 =>
        \A d \in Vals \cup {"ValueDecodeError"} :
          SumDiffs(Given(LAMBDA u : u.table = t /\ u.data = d /\ u.time = 0))
          + SumDiffs(Given(LAMBDA u : u.table = t /\ u.data = d
                                     /\ u.time \in 1..(rewinds[t] - 1)))
          = 0

\* A table has at most one definite error: errored_tables keeps a table from
\* being errored twice, as DROP TABLE does (events.rs:123, 131).
AtMostOneErrorPerTable ==
    \A t \in Tables : Cardinality(Given(LAMBDA u : u.table = t /\ u.data \in TableErrors)) <= 1

\* Every row of a processed rows event of a live table reaches the output:
\* the event's GTID carries an update for each decodable row change, or the
\* table gets an error (events.rs:236-288).
RowsEventComplete ==
    \A i \in 1..pos :
        LET e == binlog[i] IN
        (e.kind = "rows" /\ e.table \in Tables /\ ~ErroredBefore(e.table, i)) =>
            \/ Cardinality(Given(LAMBDA u : u.time = i)) =
                 Len(FlattenSeq([k \in DOMAIN e.rows |-> ChangeUpdates(e.rows[k])]))
            \/ Given(LAMBDA u : u.table = e.table /\ u.time = i /\ u.data \in TableErrors) /= {}
=============================================================================
