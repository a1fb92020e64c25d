---------------------------- MODULE ReductionType ----------------------------
(***************************************************************************)
(* The classifier of aggregate functions into the three reduction types,   *)
(* `reduction_type` in compute-types/src/plan/reduce.rs.  An aggregate     *)
(* function is named by its `AggregateFunc` variant; variants that carry   *)
(* parameters (JsonbAgg { .. } and the like) are named by the variant.     *)
(***************************************************************************)

(* The three reduction types, in the order `#[derive(Ord)]` gives them.    *)
ReductionTypes == <<"Accumulable", "Hierarchical", "Basic">>

AccumulableFuncs ==
  { "SumInt16", "SumInt32", "SumInt64", "SumUInt16", "SumUInt32",
    "SumUInt64", "SumFloat32", "SumFloat64", "SumNumeric", "Count", "Any",
    "All", "Dummy" }

HierarchicalFuncs ==
  { "MaxNumeric", "MaxInt16", "MaxInt32", "MaxInt64", "MaxUInt16",
    "MaxUInt32", "MaxUInt64", "MaxMzTimestamp", "MaxFloat32", "MaxFloat64",
    "MaxBool", "MaxString", "MaxDate", "MaxTimestamp", "MaxTimestampTz",
    "MaxInterval", "MaxTime",
    "MinNumeric", "MinInt16", "MinInt32", "MinInt64", "MinUInt16",
    "MinUInt32", "MinUInt64", "MinMzTimestamp", "MinInterval", "MinFloat32",
    "MinFloat64", "MinBool", "MinString", "MinDate", "MinTimestamp",
    "MinTimestampTz", "MinTime" }

BasicFuncs ==
  { "JsonbAgg", "JsonbObjectAgg", "MapAgg", "ArrayConcat", "ListConcat",
    "StringAgg", "RowNumber", "Rank", "DenseRank", "LagLead", "FirstValue",
    "LastValue", "WindowAggregate", "FusedValueWindowFunc",
    "FusedWindowAggregate" }

AggregateFuncs == AccumulableFuncs \cup HierarchicalFuncs \cup BasicFuncs

(* The match is exhaustive and has no default arm: a CASE without OTHER    *)
(* makes TLC fail on a variant that no arm classifies.                     *)
reduction_type(func) ==
  CASE func \in AccumulableFuncs  -> "Accumulable"
    [] func \in HierarchicalFuncs -> "Hierarchical"
    [] func \in BasicFuncs        -> "Basic"
==============================================================================
