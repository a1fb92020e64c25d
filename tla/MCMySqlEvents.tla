---------------------------- MODULE MCMySqlEvents ----------------------------
(* Two replicated tables, one other table and one row value.               *)
EXTENDS MySqlEvents

CONSTANTS t1, t2, other, v1

MCTables == {t1, t2}
====
