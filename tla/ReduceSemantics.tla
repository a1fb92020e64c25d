--------------------------- MODULE ReduceSemantics ---------------------------
(***************************************************************************)
(* What a compiled reduce promises, whatever plan implements it: once the  *)
(* aggregate list is compiled, output column i of every group is the i-th *)
(* requested aggregate function, applied to that aggregate's own input     *)
(* expression, over distinct inputs exactly when the aggregate asks for    *)
(* DISTINCT.  For MIN and MAX (the hierarchical functions) DISTINCT does   *)
(* not change the result, so it is not part of what is promised for them. *)
(* Later steps (upgrading the plan to a monotonic one) must not change the *)
(* promise: the abstract specification has no step for them.               *)
(***************************************************************************)
EXTENDS Naturals, Sequences

CONSTANTS
  AggregateExprs,   \* the aggregate expressions a list may contain
  MaxAggs,          \* the longest aggregate list compiled
  Idempotent(_)     \* aggregate functions for which DISTINCT is irrelevant

VARIABLES
  request,          \* the aggregate list handed to the planner
  compiled,         \* whether the list has been compiled
  output            \* per output column: [func, expr, distinct]

Intended(aggs) ==
  [i \in DOMAIN aggs |->
     [func     |-> aggs[i].func,
      expr     |-> aggs[i].expr,
      distinct |-> aggs[i].distinct /\ ~Idempotent(aggs[i].func)]]

Init ==
  /\ request = <<>>
  /\ compiled = FALSE
  /\ output = <<>>

Compile ==
  /\ ~compiled
  /\ compiled' = TRUE
  /\ request' \in Seq(AggregateExprs)
  /\ Len(request') <= MaxAggs
  /\ output' = Intended(request')

Spec == Init /\ [][Compile]_<<request, compiled, output>>
==============================================================================
